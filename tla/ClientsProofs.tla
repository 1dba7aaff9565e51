--------------------------- MODULE ClientsProofs ---------------------------
(***************************************************************************)
(* Workers and the network, for every number of workers, tasks, tries and  *)
(* late requests, every dispatch and every timeout. For the daemon and for *)
(* the Trae worker: the runtime state keeps what is proved of it, a task   *)
(* that succeeded was executed and passed under this very attempt, an      *)
(* acknowledged result is the recorded one, attempts are an audit trail    *)
(* and end with their leases. For the daemon: a repeated result is         *)
(* recognised, no two processes execute one attempt, two workers do not    *)
(* work in one repository, and the composition implements TaskLifecycle.   *)
(*                                                                         *)
(* A step of a worker is seen as what it does to the dispatcher (Serves,   *)
(* Records) and what it does to the processes and the network (Move); each *)
(* part of the invariant is then a question of one of the two.             *)
(***************************************************************************)
EXTENDS DispatcherExclusionProofs, WorkerDaemon, TraeWorker

-----------------------------------------------------------------------------
(* The dispatcher *)

Good(s) == Sound(s) /\ Ordered(s) /\ AttemptsGood(s)

LEMMA InvIsGood == AttemptInv => Good(State)
BY AttemptInvFacts DEF Good

(* The invariant after a step, of the state after it. *)
LEMMA GoodIsInv ==
    ASSUME TypeOK', Ordered(State)', AttemptsGood(State')
    PROVE  AttemptInv'
<1>1. AttemptsGood(State)'
  BY DEF AttemptsGood, Owned, Fits, TaskGood, AttemptsFit, InBudget, ReviewFits,
         Ended, Over, Terminal, LatestIs, Latest, Expiries
<1> QED BY <1>1 DEF AttemptInv, TaskInv

LEMMA SavedGood ==
    ASSUME NEW u, Good(u), Save(u)
    PROVE  State' = u /\ AttemptInv'
<1>1. State' = u BY SavedState DEF Good
<1>2. TaskInv' BY SaveTaskInv DEF Good
<1> QED BY <1>1, <1>2, GoodIsInv DEF Good, TaskInv

(* The attempts of a task that succeeded have done so before. *)
NoneSucceeds(seq, new) ==
    \A i \in DOMAIN new : new[i].status = "succeeded" =>
        i \in DOMAIN seq /\ seq[i].status = "succeeded" /\ seq[i].worker = new[i].worker

(* An attempt that has ended stays as it is. *)
PastKept(seq, new) ==
    \A i \in DOMAIN seq : i \in DOMAIN new /\ (Over(seq[i]) => new[i] = seq[i])

(* What the requests of a worker do to the attempts, save its results. *)
Serves(s, u) ==
    \A t \in TaskIds : /\ PastKept(s.taskAttempts[t], u.taskAttempts[t])
                       /\ NoneSucceeds(s.taskAttempts[t], u.taskAttempts[t])

LEMMA ServesReflexive ==
    ASSUME NEW s
    PROVE  Serves(s, s)
BY DEF Serves, PastKept, NoneSucceeds

LEMMA ServesTransitive ==
    ASSUME NEW s, NEW u, NEW v, Serves(s, u), Serves(u, v)
    PROVE  Serves(s, v)
<1> SUFFICES ASSUME NEW t \in TaskIds
             PROVE  /\ PastKept(s.taskAttempts[t], v.taskAttempts[t])
                    /\ NoneSucceeds(s.taskAttempts[t], v.taskAttempts[t])
  BY DEF Serves
<1> DEFINE a == s.taskAttempts[t]
           b == u.taskAttempts[t]
           c == v.taskAttempts[t]
<1>1. PastKept(a, b) /\ PastKept(b, c) /\ NoneSucceeds(a, b) /\ NoneSucceeds(b, c)
  BY DEF Serves
<1> HIDE DEF a, b, c
<1>2. PastKept(a, c) BY <1>1 DEF PastKept
<1>3. NoneSucceeds(a, c) BY <1>1 DEF NoneSucceeds
<1> QED BY <1>2, <1>3 DEF a, c

(* Only the end of an attempt that succeeds is a success. *)
LEMMA WithLatestNoneSucceeds ==
    ASSUME NEW seq \in Seq(Attempt), seq # <<>>, NEW attempt, attempt.status # "succeeded"
    PROVE  NoneSucceeds(seq, WithLatest(seq, attempt))
<1>1. DOMAIN WithLatest(seq, attempt) = DOMAIN seq BY DEF WithLatest
<1>2. Len(seq) \in DOMAIN seq BY LatestType
<1> QED BY <1>1, <1>2 DEF WithLatest, NoneSucceeds

LEMMA EndLatestNoneSucceeds ==
    ASSUME NEW seq \in Seq(Attempt), Ended(seq) \/ LatestIs(seq, Active),
           NEW status \in EndStatuses, status # "succeeded"
    PROVE  NoneSucceeds(seq, EndLatest(seq, status))
<1>1. CASE Ended(seq) BY <1>1 DEF EndLatest, NoneSucceeds
<1>2. CASE ~Ended(seq)
  <2> DEFINE attempt == [Latest(seq) EXCEPT !.status = status, !.ttl = 0]
  <2>1. seq # <<>> BY <1>2 DEF LatestIs
  <2>2. Latest(seq) \in Attempt BY <2>1, LatestType
  <2>3. attempt.status = status BY <2>2 DEF Attempt
  <2>4. EndLatest(seq, status) = WithLatest(seq, attempt) BY <1>2 DEF EndLatest
  <2> HIDE DEF attempt
  <2> QED BY <2>1, <2>3, <2>4, WithLatestNoneSucceeds
<1> QED BY <1>1, <1>2

LEMMA TakenNoneSucceeds ==
    ASSUME NEW seq \in Seq(Attempt), Ended(seq) \/ LatestIs(seq, Active), NEW w \in Workers
    PROVE  NoneSucceeds(seq, Taken(seq, w))
<1>1. CASE Ended(seq)
  <2> DEFINE attempt == [worker |-> w, status |-> "leased", ttl |-> LeaseTTL]
  <2>1. attempt \in Attempt BY ConstantTypes DEF Attempt
  <2>2. attempt.status = "leased" OBVIOUS
  <2>3. Taken(seq, w) = Append(seq, attempt) BY <1>1 DEF Taken
  <2> HIDE DEF attempt
  <2> QED BY <2>1, <2>2, <2>3, AppendLatest DEF NoneSucceeds, Latest
<1>2. CASE ~Ended(seq)
  <2> DEFINE status == IF Latest(seq).status = "checkpointed" THEN "leased" ELSE Latest(seq).status
             attempt == [worker |-> w, status |-> status, ttl |-> LeaseTTL]
  <2>1. seq # <<>> /\ Latest(seq).status \in Active BY <1>2 DEF LatestIs
  <2>2. status # "succeeded" BY <2>1 DEF Active
  <2>3. Taken(seq, w) = WithLatest(seq, attempt) BY <1>2 DEF Taken
  <2> HIDE DEF status
  <2>4. attempt.status # "succeeded" BY <2>2
  <2> HIDE DEF attempt
  <2> QED BY <2>1, <2>3, <2>4, WithLatestNoneSucceeds
<1> QED BY <1>1, <1>2

LEMMA NoneSucceedsTransitive ==
    ASSUME NEW seq, NEW mid, NEW new, NoneSucceeds(seq, mid), NoneSucceeds(mid, new)
    PROVE  NoneSucceeds(seq, new)
BY DEF NoneSucceeds

LEMMA CleansUpNoneSucceeds ==
    ASSUME NEW s, Sound(s), NEW u, NEW t \in TaskIds, Fits(s, t), CleansUp(s, u, t)
    PROVE  NoneSucceeds(s.taskAttempts[t], u.taskAttempts[t])
<1> DEFINE seq == s.taskAttempts[t]
<1>1. CASE u.taskAttempts[t] = seq BY <1>1 DEF NoneSucceeds
<1>2. CASE Expires(s, u, t)
  <2>1. Ended(seq) \/ LatestIs(seq, Active) BY AttemptOpen
  <2>2. u.taskAttempts[t] = EndLatest(seq, "expired") BY <1>2 DEF Expires
  <2> QED BY <2>1, <2>2, AttemptsType, EndLatestNoneSucceeds DEF EndStatuses
<1> QED BY <1>1, <1>2 DEF CleansUp, Rests, Requeues

LEMMA RefreshesNoneSucceeds ==
    ASSUME NEW s, Sound(s), NEW u, Sound(u), NEW t \in TaskIds, Refreshes(s, u, t)
    PROVE  NoneSucceeds(s.taskAttempts[t], u.taskAttempts[t])
<1>1. s.taskAttempts[t] \in Seq(Attempt) /\ u.taskAttempts[t] \in Seq(Attempt)
  BY AttemptsType
<1>2. DOMAIN u.taskAttempts[t] = DOMAIN s.taskAttempts[t] BY <1>1 DEF Refreshes
<1> QED BY <1>2 DEF Refreshes, NoneSucceeds

LEMMA QuietNoneSucceeds ==
    ASSUME NEW s, Sound(s), NEW u, NEW t \in TaskIds, Fits(s, t), QuietStep(s, u, t)
    PROVE  NoneSucceeds(s.taskAttempts[t], u.taskAttempts[t])
<1> DEFINE seq == s.taskAttempts[t]
           new == u.taskAttempts[t]
<1>1. seq \in Seq(Attempt) /\ (Ended(seq) \/ LatestIs(seq, Active))
  BY AttemptsType, AttemptOpen
<1>2. CASE CleansUpAndClaims(s, u, t)
  <2>1. PICK fresh, clean :
            /\ Sound(fresh) /\ Fits(fresh, t) /\ Refreshes(s, fresh, t)
            /\ Sound(clean) /\ Fits(clean, t) /\ CleansUp(fresh, clean, t)
            /\ Rests(clean, u, t) \/ \E w \in Workers : Claims(clean, u, t, w)
    BY <1>2 DEF CleansUpAndClaims
  <2>2. NoneSucceeds(seq, fresh.taskAttempts[t]) BY <2>1, RefreshesNoneSucceeds
  <2>3. NoneSucceeds(fresh.taskAttempts[t], clean.taskAttempts[t])
    BY <2>1, CleansUpNoneSucceeds
  <2>4. NoneSucceeds(clean.taskAttempts[t], new)
    <3>1. CASE Rests(clean, u, t) BY <3>1 DEF Rests, NoneSucceeds
    <3>2. ASSUME NEW w \in Workers, Claims(clean, u, t, w)
          PROVE  NoneSucceeds(clean.taskAttempts[t], new)
      <4>1. new = Taken(clean.taskAttempts[t], w) BY <3>2 DEF Claims
      <4>2. clean.taskAttempts[t] \in Seq(Attempt)
            /\ (Ended(clean.taskAttempts[t]) \/ LatestIs(clean.taskAttempts[t], Active))
        BY <2>1, AttemptsType, AttemptOpen
      <4> QED BY <4>1, <4>2, TakenNoneSucceeds
    <3> QED BY <2>1, <3>1, <3>2
  <2> QED BY <2>2, <2>3, <2>4, NoneSucceedsTransitive
<1>3. CASE Asks(s, u, t)
  <2>1. CASE new = seq BY <2>1 DEF NoneSucceeds
  <2>2. CASE ~Ended(seq)
    <3> DEFINE attempt == [Latest(seq) EXCEPT !.status = "checkpointed"]
    <3>1. seq # <<>> BY <1>1, <2>2 DEF LatestIs
    <3>2. Latest(seq) \in Attempt BY <1>1, <3>1, LatestType
    <3>3. attempt.status = "checkpointed" BY <3>2 DEF Attempt
    <3>4. new = WithLatest(seq, attempt) BY <1>3, <2>2 DEF Asks
    <3> HIDE DEF attempt
    <3> QED BY <1>1, <3>1, <3>3, <3>4, WithLatestNoneSucceeds
  <2> QED BY <1>3, <2>1, <2>2 DEF Asks
<1>4. CASE Cancels(s, u, t)
  <2>1. new = EndLatest(seq, "cancelled") BY <1>4 DEF Cancels
  <2> QED BY <1>1, <2>1, EndLatestNoneSucceeds DEF EndStatuses
<1>5. CASE Decides(s, u, t) \/ Resumes(s, u, t) \/ Creates(s, u, t)
  <2>1. new = seq BY <1>5 DEF Decides, Resumes, Creates
  <2> QED BY <2>1 DEF NoneSucceeds
<1> QED BY <1>2, <1>3, <1>4, <1>5 DEF QuietStep

LEMMA BeginsNoneSucceeds ==
    ASSUME NEW s, Sound(s), NEW u, NEW t \in TaskIds, Fits(s, t), Begins(s, u, t)
    PROVE  NoneSucceeds(s.taskAttempts[t], u.taskAttempts[t])
<1> DEFINE seq == s.taskAttempts[t]
           attempt == [Latest(seq) EXCEPT !.status = "running", !.ttl = LeaseTTL]
<1>1. ~Ended(seq) /\ u.taskAttempts[t] = WithLatest(seq, attempt) BY DEF Begins
<1>2. seq # <<>> /\ Latest(seq) \in Attempt BY <1>1, OpenIsLatest
<1>3. attempt.status = "running" BY <1>2 DEF Attempt
<1> HIDE DEF attempt
<1> QED BY <1>1, <1>2, <1>3, AttemptsType, WithLatestNoneSucceeds

(* Whatever is not a result. *)
LEMMA QuietServes ==
    ASSUME NEW s, Sound(s), AttemptsGood(s), NEW u, QuietSteps(s, u)
    PROVE  Serves(s, u) /\ AttemptsGood(u)
<1>1. AttemptsGood(u) /\ \A t \in TaskIds : HistoryKept(s.taskAttempts[t], u.taskAttempts[t])
  BY QuietIsStep, StepsGood
<1>2. \A t \in TaskIds : NoneSucceeds(s.taskAttempts[t], u.taskAttempts[t])
  BY QuietNoneSucceeds DEF AttemptsGood, QuietSteps
<1> QED BY <1>1, <1>2 DEF Serves, PastKept, HistoryKept

-----------------------------------------------------------------------------
(* The functions the handlers apply *)

(* A function that writes worker records and expiries. *)
LEMMA WrittenGood ==
    ASSUME NEW s, Good(s), NEW u, Sound(u), KeepsTasks(s, u), SameCurrent(s, u),
           \A t \in TaskIds : Refreshes(s, u, t)
    PROVE  /\ Good(u) /\ Serves(s, u)
           /\ Good(Reconcile(u)) /\ Serves(s, Reconcile(u)) /\ QuietSteps(s, Reconcile(u))
<1> DEFINE clean == Reconcile(u)
<1>1. Sound(s) /\ Ordered(s) /\ AttemptsGood(s) BY DEF Good
<1>2. Follows(u) /\ Advances(s, u) /\ Sound(clean) /\ Follows(clean) /\ Advances(s, clean)
  BY <1>1, ReconcileAdvances
<1>3. QuietSteps(s, u) /\ QuietSteps(s, clean) BY <1>1, CleansUpSteps
<1> HIDE DEF clean
<1>4. Ordered(u) /\ Ordered(clean) BY <1>1, <1>2, AdvancesOrdered
<1>5. Serves(s, u) /\ AttemptsGood(u) /\ Serves(s, clean) /\ AttemptsGood(clean)
  BY <1>1, <1>3, QuietServes
<1> QED BY <1>2, <1>3, <1>4, <1>5 DEF Good, clean

(* Nothing at all. *)
LEMMA StutterSteps ==
    ASSUME NEW s, Sound(s), AttemptsGood(s)
    PROVE  QuietSteps(s, s)
BY RestsSteps DEF Rests, QuietSteps, AttemptsGood

LEMMA RegisterGood ==
    ASSUME NEW s, Good(s), NEW w \in Workers
    PROVE  LET u == RegisterWorker(s, w)
           IN /\ Good(u) /\ Serves(s, u)
              /\ Good(Reconcile(u)) /\ Serves(s, Reconcile(u)) /\ QuietSteps(s, Reconcile(u))
<1> DEFINE u == RegisterWorker(s, w)
<1>1. Sound(s) /\ Ordered(s) /\ AttemptsGood(s) BY DEF Good
<1>2. Sound(u) BY <1>1, RegisterWorkerSound
<1>3. KeepsTasks(s, u) BY <1>1, WorkerFunctionsKeepTasks
<1>4. SameCurrent(s, u) /\ \A t \in TaskIds : Refreshes(s, u, t)
  BY <1>1, WorkerFunctionsRefresh
<1> HIDE DEF u
<1> QED BY <1>1, <1>2, <1>3, <1>4, WrittenGood DEF u

LEMMA HeartbeatGood ==
    ASSUME NEW s, Good(s), NEW w \in Workers
    PROVE  LET u == HeartbeatWorker(s, w)
           IN Good(Reconcile(u)) /\ Serves(s, Reconcile(u)) /\ QuietSteps(s, Reconcile(u))
<1> DEFINE u == HeartbeatWorker(s, w)
<1>1. Sound(s) /\ Ordered(s) /\ AttemptsGood(s) BY DEF Good
<1>2. Sound(u) BY <1>1, HeartbeatWorkerSound
<1>3. KeepsTasks(s, u) BY <1>1, WorkerFunctionsKeepTasks
<1>4. SameCurrent(s, u) /\ \A t \in TaskIds : Refreshes(s, u, t)
  BY <1>1, HeartbeatWorkerRefreshes
<1> HIDE DEF u
<1> QED BY <1>1, <1>2, <1>3, <1>4, WrittenGood DEF u

(* A claim within the bound on attempts. *)
LEMMA ClaimGood ==
    ASSUME NEW s, Good(s), NEW w \in Workers, WithinBounds(ClaimAssignedTask(s, w))
    PROVE  LET u == ClaimAssignedTask(s, w)
           IN Good(u) /\ Serves(s, u) /\ QuietSteps(s, u)
<1> DEFINE u == ClaimAssignedTask(s, w)
<1>1. Sound(s) /\ Ordered(s) /\ AttemptsGood(s) /\ Follows(s) BY DEF Good, Ordered
<1>2. Sound(u) BY <1>1, ClaimAssignedTaskType DEF Sound
<1>3. Follows(u) /\ Advances(s, u) BY <1>1, ClaimAssignedTaskMoves
<1>4. QuietSteps(s, u) BY <1>1, ClaimSteps
<1> HIDE DEF u
<1>5. Ordered(u) BY <1>1, <1>3, AdvancesOrdered
<1>6. Serves(s, u) /\ AttemptsGood(u) BY <1>1, <1>4, QuietServes
<1> QED BY <1>2, <1>4, <1>5, <1>6 DEF Good, u

(* A start. *)
LEMMA BegunGood ==
    ASSUME NEW s, Good(s), NEW w \in Workers, NEW t \in TaskIds, NEW i
    PROVE  LET u == Begun(s, w, t, i)
           IN Good(u) /\ Serves(s, u) /\ Steps(s, u)
<1> DEFINE u == Begun(s, w, t, i)
<1>1. Sound(s) /\ Ordered(s) /\ AttemptsGood(s) /\ Follows(s) BY DEF Good, Ordered
<1>2. CASE MayBegin(s, w, t, i)
  <2>1. u = BeginTask(s, w, t) BY <1>2 DEF Begun
  <2>2. Sound(u) BY <1>1, <1>2, <2>1, BeginTaskSound DEF MayBegin, OwnsActiveAttempt
  <2>3. Follows(u) /\ Advances(s, u) BY <1>1, <1>2, <2>1, BeginTaskMoves
  <2>4. Begins(s, u, t) /\ KeepsAllBut(s, u, t) /\ Owned(u)
    BY <1>1, <1>2, <2>1, BeginTaskBegins
  <2> HIDE DEF u
  <2>5. Ordered(u) BY <1>1, <2>3, AdvancesOrdered
  <2>6. TaskStep(s, u, t) /\ \A v \in TaskIds \ {t} : Rests(s, u, v)
    BY <2>4 DEF TaskStep, KeepsAllBut
  <2>7. Steps(s, u) BY <1>1, <2>4, <2>6, OneSteps
  <2>8. AttemptsGood(u) /\ \A v \in TaskIds : HistoryKept(s.taskAttempts[v], u.taskAttempts[v])
    BY <1>1, <2>7, StepsGood
  <2>9. \A v \in TaskIds : NoneSucceeds(s.taskAttempts[v], u.taskAttempts[v])
    <3>1. NoneSucceeds(s.taskAttempts[t], u.taskAttempts[t])
      BY <1>1, <2>4, BeginsNoneSucceeds DEF AttemptsGood
    <3> QED BY <2>6, <3>1 DEF Rests, NoneSucceeds
  <2>10. Serves(s, u) BY <2>8, <2>9 DEF Serves, PastKept, HistoryKept
  <2> QED BY <2>2, <2>5, <2>7, <2>8, <2>10 DEF Good, u
<1>3. CASE ~MayBegin(s, w, t, i)
  <2>1. u = s BY <1>3 DEF Begun
  <2>2. Steps(s, s) BY <1>1, StutterSteps, QuietIsStep
  <2> HIDE DEF u
  <2> QED BY <2>1, <2>2, ServesReflexive DEF u
<1> QED BY <1>2, <1>3


(* A result ends the attempt it names, as it says. *)
Ends(s, u, t, i, w, status) ==
    /\ i \in DOMAIN s.taskAttempts[t] /\ DOMAIN u.taskAttempts[t] = DOMAIN s.taskAttempts[t]
    /\ Over(u.taskAttempts[t][i])
    /\ u.taskAttempts[t][i].status = status /\ u.taskAttempts[t][i].worker = w
    /\ \A j \in DOMAIN s.taskAttempts[t] : j # i => u.taskAttempts[t][j] = s.taskAttempts[t][j]
    /\ \A v \in TaskIds \ {t} : u.taskAttempts[v] = s.taskAttempts[v]

LEMMA RecordedGood ==
    ASSUME NEW s, Good(s), NEW w \in Workers, NEW t \in TaskIds, NEW i,
           MayRecordResult(s, w, t, i), NEW outcome \in Verdicts
    PROVE  LET u == RecordResult(s, w, t, outcome)
           IN /\ Good(u) /\ Steps(s, u)
              /\ Ends(s, u, t, i, w, IF outcome = "passed" THEN "succeeded" ELSE "failed")
<1> DEFINE u == RecordResult(s, w, t, outcome)
           seq == s.taskAttempts[t]
           status == IF outcome = "passed" THEN "succeeded" ELSE "failed"
           attempt == [Latest(seq) EXCEPT !.status = status, !.ttl = 0]
<1>1. Sound(s) /\ Ordered(s) /\ AttemptsGood(s) /\ Follows(s) BY DEF Good, Ordered
<1>2. outcome \in {"passed", "recoverable", "unrecoverable"} BY DEF Verdicts
<1>3. /\ HasActiveAttempt(s, t) /\ ActiveAttempt(s, t).worker = w /\ i = ActiveNo(s, t)
      /\ s.tasks[t].status \in {"assigned", "in_progress"}
  BY DEF MayRecordResult, OwnsActiveAttempt
<1>4. Sound(u) BY <1>1, <1>2, <1>3, RecordResultSound
<1>5. Follows(u) /\ Advances(s, u) BY <1>1, <1>2, RecordResultMoves
<1>6. /\ Delivers(s, u, t) /\ Owned(u) /\ u.taskAttempts[t] = EndLatest(seq, status)
      /\ \A v \in TaskIds \ {t} : Rests(s, u, v)
  BY <1>1, <1>2, RecordResultDelivers
<1> HIDE DEF u
<1>7. Ordered(u) BY <1>1, <1>5, AdvancesOrdered
<1>8. Steps(s, u) BY <1>1, <1>6, OneSteps DEF TaskStep
<1>9. AttemptsGood(u) BY <1>1, <1>8, StepsGood
<1>10. LatestIs(seq, Active) /\ ~Ended(seq)
  BY <1>1, <1>3, AttemptOpen, EndedHasNone DEF AttemptsGood
<1>11. i = Len(seq) /\ ActiveAttempt(s, t) = Latest(seq) BY <1>1, <1>3, <1>10, ActiveIsLatest
<1>12. seq \in Seq(Attempt) /\ seq # <<>> BY <1>1, <1>10, AttemptsType DEF LatestIs
<1>13. Latest(seq) \in Attempt /\ Len(seq) \in DOMAIN seq BY <1>12, LatestType
<1>14. /\ attempt.status = status /\ attempt.worker = w /\ attempt.ttl = 0
  BY <1>3, <1>11, <1>13 DEF Attempt
<1>15. Over(attempt) BY <1>14 DEF Over, Terminal
<1>16. u.taskAttempts[t] = [seq EXCEPT ![Len(seq)] = attempt]
  BY <1>6, <1>10 DEF EndLatest, WithLatest
<1> HIDE DEF attempt, status
<1>17. /\ DOMAIN u.taskAttempts[t] = DOMAIN seq /\ u.taskAttempts[t][i] = attempt
       /\ \A j \in DOMAIN seq : j # i => u.taskAttempts[t][j] = seq[j]
  BY <1>11, <1>13, <1>16
<1>18. Ends(s, u, t, i, w, status)
  BY <1>6, <1>11, <1>13, <1>14, <1>15, <1>17 DEF Ends, Rests
<1> QED BY <1>4, <1>7, <1>8, <1>9, <1>18 DEF Good, u, status

(* The operators, the polls and time. *)
LEMMA ElsewhereGood ==
    ASSUME AttemptInv, Elsewhere
    PROVE  /\ AttemptInv' /\ QuietSteps(State, State') /\ Serves(State, State')
           /\ UNCHANGED clientVars
<1>1. Good(State) BY InvIsGood
<1>2. Sound(State) /\ AttemptsGood(State) BY <1>1 DEF Good
<1>3. QuietSteps(State, State')
  <2>1. CASE OperatorRequest BY <2>1, OperatorRequestSteps
  <2>2. CASE Tick BY <2>2, TickSteps
  <2>3. ASSUME NEW w \in Workers, Offline(w) PROVE QuietSteps(State, State')
    <3> DEFINE u == MarkWorkerOffline(State, w)
    <3>1. Sound(u) BY <1>2, MarkWorkerOfflineSound
    <3>2. SameCurrent(State, u) /\ \A t \in TaskIds : Refreshes(State, u, t)
      BY <1>2, WorkerFunctionsRefresh
    <3>3. Save(u) BY <2>3 DEF Offline
    <3> HIDE DEF u
    <3>4. State' = u BY <3>1, <3>3, SavedState
    <3> QED BY <1>2, <3>1, <3>2, <3>4, CleansUpSteps
  <2>4. CASE GetAssignedTask
    <3>1. State' = Reconcile(State) BY <1>2, <2>4, ReconcileSound, SavedState DEF GetAssignedTask
    <3>2. SameCurrent(State, State) /\ \A t \in TaskIds : Refreshes(State, State, t)
      BY RestsRefreshes DEF SameCurrent, Rests
    <3> QED BY <1>2, <3>1, <3>2, CleansUpSteps
  <2> QED BY <2>1, <2>2, <2>3, <2>4 DEF Elsewhere
<1>4. Serves(State, State') /\ AttemptsGood(State') BY <1>2, <1>3, QuietServes
<1>5. TaskInv'
  <2>1. Next BY DEF Elsewhere, Next, WorkerRequest
  <2> QED BY <2>1, NextAdvances, DispatchTaskInv, RedriveTaskInv DEF AttemptInv
<1>6. AttemptInv' BY <1>4, <1>5, GoodIsInv DEF TaskInv
<1> QED BY <1>3, <1>4, <1>6 DEF Elsewhere

-----------------------------------------------------------------------------
(* The number of an execution *)

LEMMA Image ==
    ASSUME NEW S, IsFiniteSet(S), NEW f \in [S -> Nat]
    PROVE  LET T == {f[x] : x \in S} IN IsFiniteSet(T) /\ Cardinality(T) <= Cardinality(S)
<1> DEFINE T == {f[x] : x \in S}
<1>1. f \in Surjection(S, T) BY DEF Surjection
<1> HIDE DEF T
<1>2. IsFiniteSet(T) /\ Cardinality(T) <= Cardinality(S) BY <1>1, FS_Surjection
<1> QED BY <1>2 DEF T

LEMMA UnionBound ==
    ASSUME NEW S, IsFiniteSet(S), NEW T, IsFiniteSet(T)
    PROVE  /\ IsFiniteSet(S \cup T)
           /\ Cardinality(S \cup T) <= Cardinality(S) + Cardinality(T)
           /\ Cardinality(S) \in Nat /\ Cardinality(T) \in Nat /\ Cardinality(S \cup T) \in Nat
<1>1. /\ IsFiniteSet(S \cup T)
      /\ Cardinality(S \cup T) = Cardinality(S) + Cardinality(T) - Cardinality(S \cap T)
  BY FS_Union
<1>2. IsFiniteSet(S \cap T) BY FS_Intersection
<1> QED BY <1>1, <1>2, FS_CardinalityType

(* There are numbers enough: a process that starts an execution has none. *)
LEMMA FreshRunIsFresh ==
    ASSUME client \in [Workers -> Client], late \subseteq Request,
           IsFiniteSet(late), Cardinality(late) <= MaxLate,
           results \in [TaskIds -> Runs \cup {0}], NEW w \in Workers, client[w].run = 0
    PROVE  /\ FreshRun \in Runs /\ FreshRun # 0
           /\ \A v \in Workers : client[v].run # FreshRun
           /\ \A m \in late : m.run # FreshRun
           /\ \A t \in TaskIds : results[t] # FreshRun
<1> DEFINE n == Cardinality(Workers) + MaxLate + MaxTasks
           f == [v \in Workers |-> client[v].run]
           g == [m \in late |-> m.run]
           A == {f[v] : v \in Workers}
           B == {g[m] : m \in late}
           C == {results[t] : t \in TaskIds}
           used == (A \cup B) \cup C
<1>1. IsFiniteSet(Workers) /\ MaxLate \in Nat /\ MaxTasks \in Nat
  BY ClientsAssumption, DispatcherAssumption
<1>2. Cardinality(Workers) \in Nat /\ Cardinality(late) \in Nat BY <1>1, FS_CardinalityType
<1>3. IsFiniteSet(TaskIds) /\ Cardinality(TaskIds) = MaxTasks
  BY <1>1, FS_Interval DEF TaskIds
<1>4. Runs = 1..n /\ n \in Nat BY <1>1, <1>2 DEF Runs
<1>5. f \in [Workers -> Nat] /\ g \in [late -> Nat] /\ results \in [TaskIds -> Nat]
  <2>1. Runs \cup {0} \subseteq Nat BY <1>4
  <2>2. \A v \in Workers : client[v].run \in Runs \cup {0} BY DEF Client
  <2>3. \A m \in late : m.run \in Runs \cup {0} BY DEF Request
  <2> QED BY <2>1, <2>2, <2>3
<1>6. /\ \A v \in Workers : client[v].run \in used
      /\ \A m \in late : m.run \in used
      /\ \A t \in TaskIds : results[t] \in used
  OBVIOUS
<1>7. IsFiniteSet(used) /\ Cardinality(used) \in Nat /\ Cardinality(used) <= n
  <2> HIDE DEF f, g
  <2>1. IsFiniteSet(A) /\ Cardinality(A) <= Cardinality(Workers) BY <1>1, <1>5, Image
  <2>2. IsFiniteSet(B) /\ Cardinality(B) <= Cardinality(late) BY <1>5, Image
  <2>3. IsFiniteSet(C) /\ Cardinality(C) <= Cardinality(TaskIds) BY <1>3, <1>5, Image
  <2> HIDE DEF A, B, C
  <2>4. /\ IsFiniteSet(A \cup B) /\ Cardinality(A \cup B) <= Cardinality(A) + Cardinality(B)
        /\ Cardinality(A) \in Nat /\ Cardinality(B) \in Nat /\ Cardinality(A \cup B) \in Nat
    BY <2>1, <2>2, UnionBound
  <2>5. /\ IsFiniteSet(used) /\ Cardinality(used) <= Cardinality(A \cup B) + Cardinality(C)
        /\ Cardinality(C) \in Nat /\ Cardinality(used) \in Nat
    BY <2>3, <2>4, UnionBound
  <2> QED BY <1>1, <1>2, <1>3, <2>1, <2>2, <2>3, <2>4, <2>5
<1> HIDE DEF used
<1>8. \E r \in Runs : r \notin used
  <2> SUFFICES ASSUME Runs \subseteq used PROVE FALSE OBVIOUS
  <2>1. 0 \in used BY <1>6
  <2>2. IsFiniteSet(Runs) /\ Cardinality(Runs) = n BY <1>4, FS_Interval
  <2>3. IsFiniteSet(Runs \cup {0}) /\ Cardinality(Runs \cup {0}) = n + 1
    <3>1. 0 \notin Runs BY <1>4
    <3> QED BY <2>2, <3>1, FS_AddElement
  <2>4. Runs \cup {0} \in SUBSET used BY <2>1
  <2>5. Cardinality(Runs \cup {0}) <= Cardinality(used) BY <1>7, <2>4, FS_Subset
  <2> HIDE DEF n
  <2> QED BY <1>4, <1>7, <2>3, <2>5
<1>9. \E r \in Runs : /\ \A v \in Workers : client[v].run # r
                      /\ \A m \in late : m.run # r
                      /\ \A t \in TaskIds : results[t] # r
  BY <1>6, <1>8
<1>10. /\ FreshRun \in Runs /\ \A v \in Workers : client[v].run # FreshRun
       /\ \A m \in late : m.run # FreshRun
       /\ \A t \in TaskIds : results[t] # FreshRun
  BY <1>9 DEF FreshRun
<1> HIDE DEF n, f, g, A, B, C
<1>11. FreshRun # 0 BY <1>4, <1>10
<1> QED BY <1>10, <1>11

-----------------------------------------------------------------------------
(* The task a claim comes with *)

LEMMA TakenIsOpen ==
    ASSUME NEW seq \in Seq(Attempt), Ended(seq) \/ LatestIs(seq, Active), NEW w \in Workers
    PROVE  ~Ended(Taken(seq, w))
<1>1. CASE Ended(seq)
  <2> DEFINE attempt == [worker |-> w, status |-> "leased", ttl |-> LeaseTTL]
  <2>1. attempt \in Attempt BY ConstantTypes DEF Attempt
  <2>2. attempt.status = "leased" OBVIOUS
  <2>3. Taken(seq, w) = Append(seq, attempt) BY <1>1 DEF Taken
  <2> HIDE DEF attempt
  <2> QED BY <2>1, <2>2, <2>3, AppendLatest, ActiveNotEnded DEF Active
<1>2. CASE ~Ended(seq)
  <2> DEFINE status == IF Latest(seq).status = "checkpointed" THEN "leased" ELSE Latest(seq).status
             attempt == [worker |-> w, status |-> status, ttl |-> LeaseTTL]
  <2>1. seq # <<>> /\ Latest(seq).status \in Active BY <1>2 DEF LatestIs
  <2>2. status \in Active BY <2>1 DEF Active
  <2>3. Taken(seq, w) = [seq EXCEPT ![Len(seq)] = attempt] BY <1>2 DEF Taken, WithLatest
  <2>4. attempt \in Attempt
    <3> HIDE DEF status
    <3> QED BY <2>2, ConstantTypes DEF Attempt, Active
  <2> HIDE DEF status
  <2>5. attempt.status \in Active BY <2>2
  <2> HIDE DEF attempt
  <2> QED BY <2>1, <2>3, <2>4, <2>5, ReplaceLatest, ActiveNotEnded
<1> QED BY <1>1, <1>2

(* Bringing a worker back online is not seen by the tasks. *)
LEMMA RevivedGood ==
    ASSUME NEW s, Sound(s), AttemptsGood(s), NEW before, NEW w \in Workers
    PROVE  LET u == Revive(before, s, w)
           IN /\ Sound(u) /\ AttemptsGood(u)
              /\ u.workers[w].disabled = s.workers[w].disabled
<1> DEFINE u == Revive(before, s, w)
           y == [s.workers[w] EXCEPT !.status = "idle", !.age = 0]
<1>1. s \in RuntimeState /\ s.workers \in [Workers -> Worker] BY DEF Sound, RuntimeState
<1>2. /\ y \in Worker /\ y.currentTask = s.workers[w].currentTask
      /\ y.disabled = s.workers[w].disabled
  BY <1>1, ConstantTypes DEF Worker
<1>3. u = s \/ u = [s EXCEPT !.workers[w] = y] BY DEF Revive
<1> HIDE DEF y, u
<1>4. Sound(u) BY <1>2, <1>3, WorkerSound
<1>5. /\ u.tasks = s.tasks /\ u.taskAttempts = s.taskAttempts /\ u.reviews = s.reviews
      /\ \A x \in Workers : u.workers[x].currentTask = s.workers[x].currentTask
      /\ u.workers[w].disabled = s.workers[w].disabled
  BY <1>1, <1>2, <1>3 DEF RuntimeState
<1>6. AttemptsGood(u) BY <1>5 DEF AttemptsGood, Fits, Owned
<1> QED BY <1>4, <1>5, <1>6 DEF u

(* The worker gets the task with an active attempt. *)
LEMMA ClaimedHasAttempt ==
    ASSUME NEW s, Good(s), NEW w \in Workers, WithinBounds(ClaimAssignedTask(s, w)),
           ClaimedTask(s, w) # NoTask
    PROVE  LET u == ClaimAssignedTask(s, w)
               t == ClaimedTask(s, w)
           IN t \in TaskIds /\ HasActiveAttempt(u, t) /\ ActiveNo(u, t) \in 0..AttemptBound
<1> DEFINE clean == Reconcile(s)
           ready == Revive(s, clean, w)
           t == Choice(ready, w)
           u == ClaimAssignedTask(s, w)
<1>1. Sound(s) /\ AttemptsGood(s) BY DEF Good
<1>2. Sound(clean) /\ AttemptsGood(clean) BY <1>1, ReconcileCleans
<1>3. /\ ClaimedTask(s, w) = t /\ ~ready.workers[w].disabled /\ t # NoTask
      /\ LeaseConflicts(ready, t, w) = {}
  BY DEF ClaimedTask
<1>4. u = IF clean.workers[w].disabled THEN clean ELSE ClaimOnceReconciled(ready, w)
  BY DEF ClaimAssignedTask
<1>5. Good(u) BY ClaimGood
<1> HIDE DEF clean, u
<1>6. /\ Sound(ready) /\ AttemptsGood(ready)
      /\ ready.workers[w].disabled = clean.workers[w].disabled
  BY <1>2, RevivedGood
<1>7. u = ClaimOnceReconciled(ready, w) BY <1>3, <1>4, <1>6
<1> HIDE DEF ready
<1>8. /\ t \in TaskIds
      /\ u \in {ClaimBound(ready, t, w), ClaimPreAssigned(ready, t, w), ClaimReady(ready, t, w)}
  <2>1. BoundTask(ready, w) # NoTask => BoundTask(ready, w) \in TaskIds
    BY <1>6 DEF BoundTask, Sound, RuntimeState, Worker
  <2>2. PreAssigned(ready, w) # {} => FirstOf(PreAssigned(ready, w)) \in TaskIds
    BY FirstIsLeast, ConstantTypes DEF PreAssigned
  <2>3. Claimable(ready, w) # {} => FirstOf(Claimable(ready, w)) \in TaskIds
    BY FirstIsLeast, ConstantTypes DEF Claimable
  <2> QED BY <1>3, <1>7, <2>1, <2>2, <2>3 DEF Choice, ClaimOnceReconciled
<1> HIDE DEF t
<1> DEFINE taken == TakeTask(ready, t, w)
<1>9. /\ taken \in RuntimeState
      /\ taken.taskAttempts[t] = Taken(ready.taskAttempts[t], w)
  BY <1>6, <1>8, TakeTaskType, TakeTaskEffect DEF AttemptsGood
<1>10. u.taskAttempts = taken.taskAttempts
  <2>1. CASE u = ClaimBound(ready, t, w)
    <3>1. PICK claimed : u = [taken EXCEPT !.assignments[t].claimed = claimed]
      BY <1>3, <2>1 DEF ClaimBound
    <3> HIDE DEF taken
    <3> QED BY <1>9, <3>1 DEF RuntimeState
  <2>2. CASE u = ClaimPreAssigned(ready, t, w)
    <3>1. u = [taken EXCEPT !.assignments[t].claimed = TRUE, !.workers[w] = Busy(@, t)]
      BY <1>3, <2>2 DEF ClaimPreAssigned
    <3> HIDE DEF taken
    <3> QED BY <1>9, <3>1 DEF RuntimeState
  <2>3. CASE u = ClaimReady(ready, t, w)
    <3>1. u = [taken EXCEPT
                !.tasks[t] = [@ EXCEPT !.status = "assigned", !.worker = w, !.lastWorker = w],
                !.assignments[t] = AssignedTo(w), !.workers[w] = Busy(@, t)]
      BY <1>3, <2>3 DEF ClaimReady
    <3> HIDE DEF taken
    <3> QED BY <1>9, <3>1 DEF RuntimeState
  <2> QED BY <1>8, <2>1, <2>2, <2>3
<1> HIDE DEF taken
<1>11. Fits(ready, t) BY <1>6, <1>8 DEF AttemptsGood
<1>12. ~Ended(u.taskAttempts[t])
  BY <1>6, <1>8, <1>9, <1>10, <1>11, AttemptsType, AttemptOpen, TakenIsOpen
<1>13. HasActiveAttempt(u, t) BY <1>5, <1>8, <1>12, OpenIsLatest DEF Good, AttemptsGood
<1>14. ActiveNo(u, t) \in 0..AttemptBound
  BY <1>5, <1>8, <1>13, ActiveNoBound DEF Good, AttemptNoOrZero
<1> QED BY <1>3, <1>8, <1>13, <1>14 DEF u

-----------------------------------------------------------------------------
(* Processes and requests *)

(* A process executes under a number of its own, and has a verdict when it  *)
(* submits.                                                                 *)
Shaped(c) ==
    /\ c \in Client
    /\ c.run # 0 <=> c.pc \in {"running", "submit"}
    /\ c.pc \in {"claimed", "running", "submit"} => c.task \in TaskIds
    /\ c.pc = "submit" => c.verdict \in Verdicts
    /\ c.pc # "submit" => c.verdict = "none"
    /\ c.tries < SubmitTries

(* Only a result carries a number and a verdict. *)
RequestShaped(m) ==
    /\ m \in Request
    /\ m.kind = "result" => m.run # 0 /\ m.verdict \in Verdicts
    /\ m.kind = "start" => m.run = 0 /\ m.verdict = "none"

Sent ==
    /\ client \in [Workers -> Client] /\ \A w \in Workers : Shaped(client[w])
    /\ IsFiniteSet(late) /\ Cardinality(late) <= MaxLate
    /\ \A m \in late : RequestShaped(m)
    /\ results \in [TaskIds -> Runs \cup {0}]
    /\ reported \subseteq TaskIds \X (0..AttemptBound) \X Workers

LEMMA SentTypes == Sent => ClientTypeOK
BY DEF Sent, ClientTypeOK, RequestShaped

LEMMA ShapedPlaces ==
    /\ Shaped(Down) /\ Down.run = 0
    /\ Shaped(Idle) /\ Idle.run = 0
    /\ LET c == [Idle EXCEPT !.pc = "enrolled"] IN Shaped(c) /\ c.run = 0
    /\ LET c == [Idle EXCEPT !.pc = "greeted"] IN Shaped(c) /\ c.run = 0
    /\ \A t \in TaskIds : \A i \in 0..AttemptBound : Shaped(Has(t, i)) /\ Has(t, i).run = 0
<1>1. 0 \in 0..SubmitTries /\ 0 < SubmitTries BY ClientsAssumption
<1>2. 0 \in 0..AttemptBound BY ConstantTypes
<1> QED BY <1>1, <1>2 DEF Shaped, Down, Idle, Has, Client

LEMMA RequestOfShaped ==
    ASSUME NEW w \in Workers, Shaped(client[w]), client[w].pc \in {"claimed", "submit"}
    PROVE  /\ RequestShaped(RequestOf(w))
           /\ At(w, "submit") <=> RequestOf(w).kind = "result"
           /\ RequestOf(w).worker = w /\ RequestOf(w).task = client[w].task
           /\ RequestOf(w).attempt = client[w].attempt /\ RequestOf(w).run = client[w].run
           /\ RequestOf(w).verdict = client[w].verdict
BY DEF Shaped, Client, RequestShaped, Request, RequestOf, At

-----------------------------------------------------------------------------
(* What a step does to the processes and the network *)

Pauses == UNCHANGED <<client, late, reported>>

Forgets(m) == m \in late /\ late' = late \ {m} /\ UNCHANGED <<client, reported>>

(* A process goes on without an execution. *)
Leaves(w) ==
    /\ \E c : Shaped(c) /\ c.run = 0 /\ Become(w, c)
    /\ \/ UNCHANGED late
       \/ client[w].pc \in {"claimed", "submit"} /\ GiveUpOn(RequestOf(w))
    /\ UNCHANGED reported

Launches(w) ==
    /\ At(w, "claimed") /\ Become(w, [client[w] EXCEPT !.pc = "running", !.run = FreshRun])
    /\ UNCHANGED <<late, results, reported>>

FailsEarly(w) ==
    /\ At(w, "claimed") /\ Become(w, BootstrapFailed(w))
    /\ GiveUpOn(RequestOf(w))
    /\ UNCHANGED <<results, reported>>

(* A result is submitted once more. *)
Repeats(w) ==
    /\ At(w, "submit") /\ client[w].tries + 1 < SubmitTries
    /\ Become(w, [client[w] EXCEPT !.tries = @ + 1])
    /\ GiveUpOn(RequestOf(w))
    /\ UNCHANGED reported

ProcessStep(w) == Leaves(w) \/ Launches(w) \/ FailsEarly(w) \/ Execute(w) \/ Repeats(w)

Move == Pauses \/ (\E m \in late : Forgets(m)) \/ (\E w \in Workers : ProcessStep(w))

(* The result of m, from its process or from the network, is recorded. *)
Records(m) ==
    /\ RequestShaped(m) /\ m.kind = "result"
    /\ m \in late \/ \E w \in Workers : At(w, "submit") /\ m = RequestOf(w)
    /\ Ends(State, State', m.task, m.attempt, m.worker,
            IF m.verdict = "passed" THEN "succeeded" ELSE "failed")
    /\ results' = [results EXCEPT ![m.task] = m.run]

Dispatched ==
    \/ Serves(State, State') /\ UNCHANGED results
    \/ \E m : Records(m)


(* What a process is after its step. *)
LEMMA Becomes ==
    ASSUME Sent, NEW w \in Workers, NEW c, Become(w, c)
    PROVE  client'[w] = c /\ \A v \in Workers \ {w} : client'[v] = client[v]
BY DEF Sent, Become

LEMMA LaunchedShaped ==
    ASSUME Sent, NEW w \in Workers, At(w, "claimed")
    PROVE  LET c == [client[w] EXCEPT !.pc = "running", !.run = FreshRun]
           IN /\ Shaped(c) /\ Shaped(BootstrapFailed(w))
              /\ c.run = FreshRun /\ BootstrapFailed(w).run = FreshRun
              /\ c.pc = "running" /\ BootstrapFailed(w).verdict = "recoverable"
              /\ BootstrapFailed(w).pc = "submit" /\ c.task = client[w].task
              /\ c.attempt = client[w].attempt
<1>1. Shaped(client[w]) /\ client[w].run = 0 BY DEF Sent, At, Shaped
<1>2. FreshRun \in Runs /\ FreshRun # 0
  BY <1>1, FreshRunIsFresh DEF Sent, RequestShaped
<1>3. "recoverable" \in Verdicts BY DEF Verdicts
<1> QED BY <1>1, <1>2, <1>3 DEF Shaped, Client, BootstrapFailed, At

LEMMA RepeatedShaped ==
    ASSUME Sent, NEW w \in Workers, client[w].tries + 1 < SubmitTries
    PROVE  LET c == [client[w] EXCEPT !.tries = @ + 1]
           IN /\ Shaped(c) /\ c.run = client[w].run /\ c.pc = client[w].pc
              /\ c.task = client[w].task /\ c.attempt = client[w].attempt
              /\ c.verdict = client[w].verdict
<1>1. Shaped(client[w]) BY DEF Sent
<1>2. client[w].tries \in 0..SubmitTries /\ SubmitTries \in Nat
  BY <1>1, ClientsAssumption DEF Shaped, Client
<1>3. client[w].tries + 1 \in 0..SubmitTries BY <1>2
<1> QED BY <1>1, <1>3 DEF Shaped, Client

LEMMA ExecutedShaped ==
    ASSUME Sent, NEW w \in Workers, At(w, "running"), NEW verdict \in Verdicts
    PROVE  LET c == [client[w] EXCEPT !.pc = "submit", !.verdict = verdict]
           IN /\ Shaped(c) /\ c.run = client[w].run /\ c.pc = "submit" /\ c.verdict = verdict
              /\ c.task = client[w].task /\ c.attempt = client[w].attempt
<1>1. Shaped(client[w]) BY DEF Sent
<1> QED BY <1>1 DEF Shaped, Client, At

LEMMA ExecuteEffect ==
    ASSUME Sent, NEW w \in Workers, Execute(w)
    PROVE  \E verdict \in Verdicts :
              /\ At(w, "running") /\ late' = late
              /\ Become(w, client'[w]) /\ Shaped(client'[w])
              /\ client'[w].run = client[w].run /\ client'[w].pc = "submit"
              /\ client'[w].verdict = verdict /\ client'[w].task = client[w].task
              /\ client'[w].attempt = client[w].attempt
              /\ reported' = IF verdict = "passed"
                             THEN reported \cup {<<client[w].task, client[w].attempt, w>>}
                             ELSE reported
<1>1. PICK verdict \in Verdicts :
          /\ Become(w, [client[w] EXCEPT !.pc = "submit", !.verdict = verdict])
          /\ reported' = IF verdict = "passed"
                         THEN reported \cup {<<client[w].task, client[w].attempt, w>>}
                         ELSE reported
  BY DEF Execute
<1>2. At(w, "running") /\ late' = late BY DEF Execute
<1> DEFINE c == [client[w] EXCEPT !.pc = "submit", !.verdict = verdict]
<1>3. /\ Shaped(c) /\ c.run = client[w].run /\ c.pc = "submit" /\ c.verdict = verdict
      /\ c.task = client[w].task /\ c.attempt = client[w].attempt
  BY <1>2, ExecutedShaped
<1>4. Become(w, c) BY <1>1
<1> HIDE DEF c
<1>5. client'[w] = c BY <1>4, Becomes
<1> QED BY <1>1, <1>2, <1>3, <1>4, <1>5

(* The network keeps its bound. *)
LEMMA GivenUp ==
    ASSUME Sent, NEW m, RequestShaped(m), GiveUpOn(m)
    PROVE  /\ IsFiniteSet(late') /\ Cardinality(late') <= MaxLate
           /\ late' \subseteq late \cup {m} /\ \A x \in late' : RequestShaped(x)
<1>1. IsFiniteSet(late) /\ Cardinality(late) \in Nat /\ MaxLate \in Nat
  BY FS_CardinalityType, ClientsAssumption DEF Sent
<1>2. CASE UNCHANGED late BY <1>2 DEF Sent
<1>3. CASE Cardinality(late) < MaxLate /\ late' = late \cup {m}
  <2> DEFINE more == late \cup {m}
  <2>1. IsFiniteSet(more) /\ Cardinality(more) <= Cardinality(late) + 1
    <3>1. /\ IsFiniteSet(more)
          /\ Cardinality(more) = IF m \in late THEN Cardinality(late) ELSE Cardinality(late) + 1
      BY <1>1, FS_AddElement
    <3> HIDE DEF more
    <3> QED BY <1>1, <3>1
  <2>2. IsFiniteSet(late') /\ Cardinality(late') <= Cardinality(late) + 1 BY <1>3, <2>1
  <2>3. Cardinality(late') \in Nat BY <2>2, FS_CardinalityType
  <2>4. Cardinality(late') <= MaxLate BY <1>1, <1>3, <2>2, <2>3
  <2> QED BY <1>3, <2>2, <2>4 DEF Sent
<1> QED BY <1>2, <1>3 DEF GiveUpOn

(* Types are kept. *)
LEMMA SentKept ==
    ASSUME Sent, Move, Dispatched
    PROVE  Sent'
<1>1. results' \in [TaskIds -> Runs \cup {0}]
  <2>1. ASSUME NEW m, Records(m) PROVE results' \in [TaskIds -> Runs \cup {0}]
    BY <2>1 DEF Sent, Records, RequestShaped, Request
  <2> QED BY <2>1 DEF Dispatched, Sent
<1>2. ASSUME \/ late' \subseteq late /\ client' = client /\ reported' = reported
             \/ \E w \in Workers : \E c : Become(w, c) /\ Shaped(c),
             IsFiniteSet(late'), Cardinality(late') <= MaxLate, \A x \in late' : RequestShaped(x),
             reported' \subseteq TaskIds \X (0..AttemptBound) \X Workers
      PROVE  Sent'
  <2>1. client' \in [Workers -> Client] /\ \A w \in Workers : Shaped(client'[w])
    <3>1. CASE client' = client BY <3>1 DEF Sent
    <3>2. ASSUME NEW w \in Workers, NEW c, Become(w, c), Shaped(c)
          PROVE  client' \in [Workers -> Client] /\ \A v \in Workers : Shaped(client'[v])
      <4>1. client'[w] = c /\ \A v \in Workers \ {w} : client'[v] = client[v] BY <3>2, Becomes
      <4>2. client' \in [Workers -> Client] BY <3>2 DEF Become, Sent, Shaped
      <4> QED BY <3>2, <4>1, <4>2 DEF Sent
    <3> QED BY <1>2, <3>1, <3>2
  <2> QED BY <1>1, <1>2, <2>1 DEF Sent, Shaped, RequestShaped
<1>3. reported \subseteq TaskIds \X (0..AttemptBound) \X Workers BY DEF Sent
<1>4. CASE Pauses BY <1>2, <1>3, <1>4 DEF Pauses, Sent
<1>5. ASSUME NEW m \in late, Forgets(m) PROVE Sent'
  <2>1. IsFiniteSet(late) /\ late' \in SUBSET late BY <1>5 DEF Sent, Forgets
  <2>2. IsFiniteSet(late') /\ Cardinality(late') <= Cardinality(late) BY <2>1, FS_Subset
  <2>3. /\ Cardinality(late') \in Nat /\ Cardinality(late) \in Nat /\ MaxLate \in Nat
        /\ Cardinality(late) <= MaxLate
    BY <2>1, <2>2, FS_CardinalityType, ClientsAssumption DEF Sent
  <2>4. Cardinality(late') <= MaxLate BY <2>2, <2>3
  <2> QED BY <1>2, <1>3, <1>5, <2>1, <2>2, <2>4 DEF Forgets, Sent
<1>6. ASSUME NEW w \in Workers, ProcessStep(w) PROVE Sent'
  <2>1. client[w].pc \in {"claimed", "submit"} => RequestShaped(RequestOf(w))
    BY RequestOfShaped DEF Sent
  <2>2. CASE Leaves(w) BY <1>2, <1>3, <2>1, <2>2, GivenUp DEF Leaves, Sent
  <2>3. CASE Launches(w) BY <1>2, <1>3, <2>3, LaunchedShaped DEF Launches, Sent
  <2>4. CASE FailsEarly(w)
    BY <1>2, <1>3, <2>1, <2>4, LaunchedShaped, GivenUp DEF FailsEarly, At
  <2>5. CASE Repeats(w) BY <1>2, <1>3, <2>1, <2>5, RepeatedShaped, GivenUp DEF Repeats, At
  <2>6. CASE Execute(w)
    <3>1. PICK verdict \in Verdicts :
              /\ At(w, "running") /\ late' = late
              /\ Become(w, client'[w]) /\ Shaped(client'[w])
              /\ reported' = IF verdict = "passed"
                             THEN reported \cup {<<client[w].task, client[w].attempt, w>>}
                             ELSE reported
      BY <2>6, ExecuteEffect
    <3>2. client[w].task \in TaskIds /\ client[w].attempt \in 0..AttemptBound
      BY <3>1 DEF Sent, Shaped, Client, At
    <3>3. reported' \subseteq TaskIds \X (0..AttemptBound) \X Workers BY <1>3, <3>1, <3>2
    <3> QED BY <1>2, <3>1, <3>3 DEF Sent
  <2> QED BY <1>6, <2>2, <2>3, <2>4, <2>5, <2>6 DEF ProcessStep
<1> QED BY <1>4, <1>5, <1>6 DEF Move


-----------------------------------------------------------------------------
(* Executions are kept apart *)

(* A number belongs to one process, and what is under way with it is what   *)
(* that process submits.                                                    *)
RunsApart ==
    /\ \A w, v \in Workers : w # v /\ client[w].run # 0 => client[w].run # client[v].run
    /\ \A w \in Workers : \A m \in late :
        m.run # 0 /\ m.run = client[w].run => m = RequestOf(w)

(* A process that is not at its submission has nothing under way. *)
LEMMA NothingUnderWay ==
    ASSUME Sent, RunsApart, NEW w \in Workers, ~At(w, "submit"), NEW m \in late, m.run # 0
    PROVE  m.run # client[w].run
<1>1. m.kind = "result" BY DEF Sent, RequestShaped, Request
<1>2. RequestOf(w).kind = "start" BY DEF RequestOf, At
<1> QED BY <1>1, <1>2 DEF RunsApart

LEMMA SameRequest ==
    ASSUME NEW v, client'[v] = client[v]
    PROVE  RequestOf(v)' = RequestOf(v)
BY DEF RequestOf

LEMMA GivenUpRequest ==
    ASSUME NEW m, GiveUpOn(m)
    PROVE  late' \subseteq late \cup {m}
BY DEF GiveUpOn

LEMMA RunsApartKept ==
    ASSUME Sent, RunsApart, Move
    PROVE  RunsApart'
<1>1. CASE Pauses BY <1>1 DEF Pauses, RunsApart, RequestOf
<1>2. ASSUME NEW m \in late, Forgets(m) PROVE RunsApart'
  BY <1>2 DEF Forgets, RunsApart, RequestOf
<1>3. ASSUME NEW w \in Workers, NEW c, Become(w, c),
             late' \subseteq late \cup {RequestOf(w)},
             \/ c.run = 0
             \/ At(w, "claimed") /\ c.run = FreshRun
      PROVE  RunsApart'
  <2>1. client'[w] = c /\ \A v \in Workers \ {w} : client'[v] = client[v] BY <1>3, Becomes
  <2>2. RequestOf(w).run = client[w].run BY DEF RequestOf
  <2>3. \A v \in Workers \ {w} : RequestOf(v)' = RequestOf(v) BY <2>1, SameRequest
  <2>4. c.run # 0 => /\ client[w].run = 0 /\ \A v \in Workers : client[v].run # c.run
                     /\ \A m \in late : m.run # c.run
    <3>1. SUFFICES ASSUME At(w, "claimed"), c.run = FreshRun
                   PROVE  /\ client[w].run = 0 /\ \A v \in Workers : client[v].run # c.run
                          /\ \A m \in late : m.run # c.run
      BY <1>3
    <3>2. client[w].run = 0 BY <3>1 DEF Sent, Shaped, At
    <3> QED BY <3>1, <3>2, FreshRunIsFresh DEF Sent, Shaped, RequestShaped
  <2>5. \A x, v \in Workers : x # v /\ client'[x].run # 0 => client'[x].run # client'[v].run
    BY <2>1, <2>4 DEF RunsApart
  <2>6. ASSUME NEW x \in Workers, NEW m \in late', m.run # 0, m.run = client'[x].run
        PROVE  m = RequestOf(x)'
    <3>1. CASE x = w
      <4>1. c.run # 0 /\ m.run = c.run BY <2>1, <2>6, <3>1
      <4>2. m # RequestOf(w) BY <2>2, <2>4, <2>6, <4>1
      <4> QED BY <1>3, <2>4, <2>6, <4>1, <4>2
    <3>2. CASE x # w
      <4>1. m.run = client[x].run BY <2>1, <2>6, <3>2
      <4>2. m # RequestOf(w) BY <2>2, <2>6, <3>2, <4>1 DEF RunsApart
      <4>3. m \in late BY <1>3, <2>6, <4>2
      <4> QED BY <2>3, <2>6, <3>2, <4>1, <4>3 DEF RunsApart
    <3> QED BY <3>1, <3>2
  <2> QED BY <2>5, <2>6 DEF RunsApart
<1>4. ASSUME NEW w \in Workers, Repeats(w) PROVE RunsApart'
  <2> DEFINE c == [client[w] EXCEPT !.tries = @ + 1]
  <2>1. client'[w] = c /\ \A v \in Workers \ {w} : client'[v] = client[v]
    BY <1>4, Becomes DEF Repeats
  <2>2. /\ c.run = client[w].run /\ c.pc = client[w].pc /\ c.task = client[w].task
        /\ c.attempt = client[w].attempt /\ c.verdict = client[w].verdict
    BY <1>4, RepeatedShaped DEF Repeats
  <2> HIDE DEF c
  <2>3. RequestOf(w)' = RequestOf(w) BY <2>1, <2>2 DEF RequestOf
  <2>4. \A v \in Workers : RequestOf(v)' = RequestOf(v) /\ client'[v].run = client[v].run
    BY <2>1, <2>2, <2>3, SameRequest
  <2>5. late' \subseteq late \cup {RequestOf(w)} BY <1>4, GivenUpRequest DEF Repeats
  <2>6. RequestOf(w).run = client[w].run BY DEF RequestOf
  <2>7. \A x, v \in Workers : x # v /\ client'[x].run # 0 => client'[x].run # client'[v].run
    BY <2>4 DEF RunsApart
  <2>8. ASSUME NEW x \in Workers, NEW m \in late', m.run # 0, m.run = client'[x].run
        PROVE  m = RequestOf(x)'
    <3>1. CASE m \in late BY <2>4, <2>8, <3>1 DEF RunsApart
    <3>2. CASE m = RequestOf(w)
      <4>1. x = w BY <2>4, <2>6, <2>8, <3>2 DEF RunsApart
      <4> QED BY <2>4, <3>2, <4>1
    <3> QED BY <2>5, <2>8, <3>1, <3>2
  <2> QED BY <2>7, <2>8 DEF RunsApart
<1>5. ASSUME NEW w \in Workers, Execute(w) PROVE RunsApart'
  <2>1. Become(w, client'[w]) /\ client'[w].run = client[w].run BY <1>5, ExecuteEffect
  <2>2. At(w, "running") /\ late' = late BY <1>5 DEF Execute
  <2>3. client'[w].run = client[w].run /\ \A v \in Workers \ {w} : client'[v] = client[v]
    BY <2>1, Becomes
  <2>4. \A m \in late : m.run # 0 => m.run # client[w].run BY <2>2, NothingUnderWay DEF At
  <2>5. \A v \in Workers \ {w} : RequestOf(v)' = RequestOf(v) BY <2>3, SameRequest
  <2>6. \A x, v \in Workers : x # v /\ client'[x].run # 0 => client'[x].run # client'[v].run
    BY <2>3 DEF RunsApart
  <2>7. ASSUME NEW x \in Workers, NEW m \in late', m.run # 0, m.run = client'[x].run
        PROVE  m = RequestOf(x)'
    <3>1. x # w BY <2>2, <2>3, <2>4, <2>7
    <3> QED BY <2>2, <2>3, <2>5, <2>7, <3>1 DEF RunsApart
  <2> QED BY <2>6, <2>7 DEF RunsApart
<1>6. ASSUME NEW w \in Workers, ProcessStep(w) PROVE RunsApart'
  <2>1. CASE Leaves(w) BY <1>3, <2>1, GivenUpRequest DEF Leaves
  <2>2. CASE Launches(w) BY <1>3, <2>2, LaunchedShaped DEF Launches
  <2>3. CASE FailsEarly(w) BY <1>3, <2>3, LaunchedShaped, GivenUpRequest DEF FailsEarly
  <2> QED BY <1>4, <1>5, <1>6, <2>1, <2>2, <2>3 DEF ProcessStep
<1> QED BY <1>1, <1>2, <1>6 DEF Move


-----------------------------------------------------------------------------
(* A step, seen from one process and from the network *)

(* A process has no execution, goes on with the one it has, or begins one.  *)
LEMMA ProcessAfter ==
    ASSUME Sent, Move, NEW v \in Workers
    PROVE  \/ client'[v].run = 0
           \/ /\ At(v, "claimed") /\ client'[v].run = FreshRun /\ UNCHANGED results
              /\ client'[v].task = client[v].task /\ client'[v].attempt = client[v].attempt
              /\ client'[v].verdict # "passed"
              /\ Launches(v) \/ FailsEarly(v)
           \/ /\ client'[v].run = client[v].run /\ client[v].run # 0
              /\ client'[v].task = client[v].task /\ client'[v].attempt = client[v].attempt
              /\ client'[v].verdict = "passed" =>
                    \/ client[v].verdict = "passed"
                    \/ <<client[v].task, client[v].attempt, v>> \in reported'
<1>1. CASE client'[v] = client[v] BY <1>1
<1>2. ASSUME NEW w \in Workers, NEW c, Become(w, c)
      PROVE  client'[w] = c /\ (v # w => client'[v] = client[v])
  BY <1>2, Becomes
<1>3. CASE Pauses \/ \E m \in late : Forgets(m) BY <1>1, <1>3 DEF Pauses, Forgets
<1>4. ASSUME NEW w \in Workers, ProcessStep(w), v # w PROVE client'[v] = client[v]
  BY <1>2, <1>4 DEF ProcessStep, Leaves, Launches, FailsEarly, Execute, Repeats
<1>5. CASE Leaves(v) BY <1>2, <1>5 DEF Leaves
<1>6. CASE Launches(v)
  <2> DEFINE c == [client[v] EXCEPT !.pc = "running", !.run = FreshRun]
  <2>1. Become(v, c) /\ At(v, "claimed") BY <1>6 DEF Launches
  <2>2. /\ Shaped(c) /\ c.run = FreshRun /\ c.pc = "running" /\ c.task = client[v].task
        /\ c.attempt = client[v].attempt
    BY <2>1, LaunchedShaped
  <2> HIDE DEF c
  <2>3. client'[v] = c BY <1>2, <2>1
  <2>4. c.verdict # "passed" BY <2>2 DEF Shaped
  <2> QED BY <1>6, <2>1, <2>2, <2>3, <2>4 DEF Launches
<1>7. CASE FailsEarly(v)
  <2> DEFINE c == BootstrapFailed(v)
  <2>1. Become(v, c) /\ At(v, "claimed") BY <1>7 DEF FailsEarly
  <2>2. c.run = FreshRun /\ c.verdict = "recoverable" BY <2>1, LaunchedShaped
  <2>3. client[v] \in Client BY DEF Sent
  <2>4. c.task = client[v].task /\ c.attempt = client[v].attempt
    BY <2>3 DEF BootstrapFailed, Client
  <2> HIDE DEF c
  <2>5. client'[v] = c BY <1>2, <2>1
  <2> QED BY <1>7, <2>1, <2>2, <2>4, <2>5 DEF FailsEarly
<1>8. CASE Execute(v)
  <2>1. PICK verdict \in Verdicts :
            /\ client'[v].run = client[v].run
            /\ client'[v].verdict = verdict /\ client'[v].task = client[v].task
            /\ client'[v].attempt = client[v].attempt
            /\ reported' = IF verdict = "passed"
                           THEN reported \cup {<<client[v].task, client[v].attempt, v>>}
                           ELSE reported
    BY <1>8, ExecuteEffect
  <2> QED BY <2>1
<1>9. CASE Repeats(v)
  <2> DEFINE c == [client[v] EXCEPT !.tries = @ + 1]
  <2>1. Become(v, c) BY <1>9 DEF Repeats
  <2>2. /\ c.run = client[v].run /\ c.task = client[v].task
        /\ c.attempt = client[v].attempt /\ c.verdict = client[v].verdict
    BY <1>9, RepeatedShaped DEF Repeats
  <2> HIDE DEF c
  <2>3. client'[v] = c BY <1>2, <2>1
  <2> QED BY <2>2, <2>3
<1> QED BY <1>1, <1>3, <1>4, <1>5, <1>6, <1>7, <1>8, <1>9 DEF Move, ProcessStep

(* What is under way was before, or its process has just given up on it. *)
LEMMA NetworkAfter ==
    ASSUME Sent, Move
    PROVE  /\ reported \subseteq reported'
           /\ \A m \in late' : \/ m \in late
                               \/ \E w \in Workers : /\ client[w].pc \in {"claimed", "submit"}
                                                     /\ m = RequestOf(w)
<1>1. CASE Pauses \/ \E m \in late : Forgets(m) BY <1>1 DEF Pauses, Forgets
<1>2. ASSUME NEW w \in Workers, ProcessStep(w)
      PROVE  /\ reported \subseteq reported'
             /\ \/ late' \subseteq late
                \/ /\ client[w].pc \in {"claimed", "submit"}
                   /\ late' \subseteq late \cup {RequestOf(w)}
  <2>1. CASE Leaves(w) BY <2>1, GivenUpRequest DEF Leaves
  <2>2. CASE Launches(w) BY <2>2 DEF Launches
  <2>3. CASE FailsEarly(w) BY <2>3, GivenUpRequest DEF FailsEarly, At
  <2>4. CASE Repeats(w) BY <2>4, GivenUpRequest DEF Repeats, At
  <2>5. CASE Execute(w) BY <2>5 DEF Execute
  <2> QED BY <1>2, <2>1, <2>2, <2>3, <2>4, <2>5 DEF ProcessStep
<1> QED BY <1>1, <1>2 DEF Move


-----------------------------------------------------------------------------
(* What is submitted was executed, what was recorded is known *)

(* A success that is submitted was reported by an execution. *)
Vouched ==
    /\ \A w \in Workers : client[w].verdict = "passed" =>
            <<client[w].task, client[w].attempt, w>> \in reported
    /\ \A m \in late : m.verdict = "passed" => <<m.task, m.attempt, m.worker>> \in reported

LEMMA VouchedKept ==
    ASSUME Sent, Vouched, Move, Sent'
    PROVE  Vouched'
<1>1. reported \subseteq reported' BY NetworkAfter
<1>2. ASSUME NEW v \in Workers, client'[v].verdict = "passed"
      PROVE  <<client'[v].task, client'[v].attempt, v>> \in reported'
  <2>1. client'[v].run # 0
    <3>1. Shaped(client'[v]) BY DEF Sent, Shaped
    <3> QED BY <1>2, <3>1 DEF Shaped
  <2> QED BY <1>1, <1>2, <2>1, ProcessAfter DEF Vouched
<1>3. ASSUME NEW m \in late', m.verdict = "passed"
      PROVE  <<m.task, m.attempt, m.worker>> \in reported'
  <2>1. CASE m \in late BY <1>1, <1>3, <2>1 DEF Vouched
  <2>2. ASSUME NEW w \in Workers, client[w].pc \in {"claimed", "submit"}, m = RequestOf(w)
        PROVE  <<m.task, m.attempt, m.worker>> \in reported'
    BY <1>1, <1>3, <2>2, RequestOfShaped DEF Vouched, Sent
  <2> QED BY <2>1, <2>2, NetworkAfter
<1> QED BY <1>2, <1>3 DEF Vouched

(* An attempt that a worker ended by its result. *)
EndedBy(s, t, i, w) ==
    /\ i \in DOMAIN s.taskAttempts[t] /\ Over(s.taskAttempts[t][i])
    /\ s.taskAttempts[t][i].status \in {"succeeded", "failed"}
    /\ s.taskAttempts[t][i].worker = w

(* The execution whose result is stored ended its attempt. *)
Answered ==
    \A w \in Workers : client[w].run # 0 /\ results[client[w].task] = client[w].run
        => EndedBy(State, client[w].task, client[w].attempt, w)

LEMMA AnsweredKept ==
    ASSUME Sent, RunsApart, Answered, Move, Dispatched, Sent'
    PROVE  Answered'
<1>1. SUFFICES ASSUME NEW w \in Workers, client'[w].run # 0,
                      results'[client'[w].task] = client'[w].run
               PROVE  EndedBy(State', client'[w].task, client'[w].attempt, w)
  BY DEF Answered, EndedBy, Over, Terminal
<1> DEFINE t == client[w].task
           i == client[w].attempt
<1>2. client'[w].task = t /\ client'[w].attempt = i /\ t \in TaskIds
      /\ client[w].pc \in {"claimed", "running", "submit"}
  <2>1. client'[w].task = t /\ client'[w].attempt = i
        /\ (At(w, "claimed") \/ client[w].run # 0)
    BY <1>1, ProcessAfter
  <2> QED BY <2>1 DEF Sent, Shaped, At
<1>3. CASE At(w, "claimed") /\ client'[w].run = FreshRun /\ UNCHANGED results
  <2>1. client[w].run = 0 BY <1>3 DEF Sent, Shaped, At
  <2>2. results[t] # FreshRun BY <1>2, <2>1, FreshRunIsFresh DEF Sent, RequestShaped
  <2> QED BY <1>1, <1>2, <1>3, <2>2
<1>4. CASE client'[w].run = client[w].run /\ client[w].run # 0
  <2>1. CASE Serves(State, State') /\ UNCHANGED results
    <3>1. EndedBy(State, t, i, w) BY <1>1, <1>2, <1>4, <2>1 DEF Answered
    <3>2. PastKept(State.taskAttempts[t], State'.taskAttempts[t]) BY <1>2, <2>1 DEF Serves
    <3> QED BY <1>2, <3>1, <3>2 DEF EndedBy, PastKept
  <2>2. ASSUME NEW m, Records(m) PROVE EndedBy(State', t, i, w)
    <3>1. m.task \in TaskIds /\ m.run # 0 /\ m.verdict \in Verdicts
      BY <2>2 DEF Records, RequestShaped, Request
    <3>2. Ends(State, State', m.task, m.attempt, m.worker,
               IF m.verdict = "passed" THEN "succeeded" ELSE "failed")
      BY <2>2 DEF Records
    <3>3. results' = [results EXCEPT ![m.task] = m.run] BY <2>2 DEF Records
    <3>4. CASE t # m.task
      <4>1. results'[t] = results[t] BY <3>3, <3>4
      <4>2. EndedBy(State, t, i, w) BY <1>1, <1>2, <1>4, <4>1 DEF Answered
      <4>3. State'.taskAttempts[t] = State.taskAttempts[t] BY <1>2, <3>2, <3>4 DEF Ends
      <4> QED BY <4>2, <4>3 DEF EndedBy
    <3>5. CASE t = m.task
      <4>1. m.run = client[w].run BY <1>1, <1>2, <1>4, <3>1, <3>3, <3>5 DEF Sent
      <4>2. m.attempt = i /\ m.worker = w
        <5>1. CASE m \in late
          <6>1. m = RequestOf(w) BY <3>1, <4>1, <5>1 DEF RunsApart
          <6> QED BY <6>1 DEF RequestOf
        <5>2. ASSUME NEW v \in Workers, At(v, "submit"), m = RequestOf(v)
              PROVE  m.attempt = i /\ m.worker = w
          <6>1. m.run = client[v].run /\ m.attempt = client[v].attempt /\ m.worker = v
            BY <5>2 DEF RequestOf
          <6>2. v = w BY <3>1, <4>1, <6>1 DEF RunsApart
          <6> QED BY <6>1, <6>2
        <5> QED BY <2>2, <5>1, <5>2 DEF Records
      <4> QED BY <3>2, <3>5, <4>2 DEF Ends, EndedBy
    <3> QED BY <3>4, <3>5
  <2> QED BY <1>2, <2>1, <2>2 DEF Dispatched
<1> QED BY <1>1, <1>3, <1>4, ProcessAfter

(* A success was reported before it was recorded, and stays reported. *)
LEMMA SucceededKept ==
    ASSUME Sent, Vouched, SucceededWasReported, Move, Dispatched
    PROVE  SucceededWasReported'
<1>1. SUFFICES ASSUME NEW t \in TaskIds, NEW i \in DOMAIN State'.taskAttempts[t],
                      State'.taskAttempts[t][i].status = "succeeded"
               PROVE  <<t, i, State'.taskAttempts[t][i].worker>> \in reported'
  BY DEF SucceededWasReported, State
<1>2. reported \subseteq reported' BY NetworkAfter
<1>3. ASSUME i \in DOMAIN State.taskAttempts[t],
             State.taskAttempts[t][i].status = "succeeded",
             State.taskAttempts[t][i].worker = State'.taskAttempts[t][i].worker
      PROVE  <<t, i, State'.taskAttempts[t][i].worker>> \in reported'
  BY <1>2, <1>3 DEF SucceededWasReported, State
<1>4. CASE Serves(State, State') BY <1>1, <1>3, <1>4 DEF Serves, NoneSucceeds
<1>5. ASSUME NEW m, Records(m) PROVE <<t, i, State'.taskAttempts[t][i].worker>> \in reported'
  <2>1. Ends(State, State', m.task, m.attempt, m.worker,
             IF m.verdict = "passed" THEN "succeeded" ELSE "failed")
    BY <1>5 DEF Records
  <2>2. CASE t # m.task \/ i # m.attempt
    <3>1. /\ i \in DOMAIN State.taskAttempts[t]
          /\ State'.taskAttempts[t][i] = State.taskAttempts[t][i]
      BY <1>1, <2>1, <2>2 DEF Ends
    <3> QED BY <1>1, <1>3, <3>1
  <2>3. CASE t = m.task /\ i = m.attempt
    <3>1. m.verdict = "passed" /\ State'.taskAttempts[t][i].worker = m.worker
      BY <1>1, <2>1, <2>3 DEF Ends
    <3>2. <<m.task, m.attempt, m.worker>> \in reported
      <4>1. CASE m \in late BY <3>1, <4>1 DEF Vouched
      <4>2. ASSUME NEW w \in Workers, At(w, "submit"), m = RequestOf(w)
            PROVE  <<m.task, m.attempt, m.worker>> \in reported
        BY <3>1, <4>2 DEF RequestOf, Vouched
      <4> QED BY <1>5, <4>1, <4>2 DEF Records
    <3> QED BY <1>2, <2>3, <3>1, <3>2
  <2> QED BY <2>2, <2>3
<1> QED BY <1>4, <1>5 DEF Dispatched


-----------------------------------------------------------------------------
(* Steps that daemon and Trae worker have in common *)

(* The dispatcher is left in order, and its records moved as it may. *)
Proper == AttemptInv' /\ Dispatched /\ Move

LEMMA SavedServes ==
    ASSUME AttemptInv, NEW u, Good(u), Serves(State, u), Save(u), UNCHANGED results
    PROVE  AttemptInv' /\ Dispatched /\ State' = u
BY SavedGood DEF Dispatched

LEMMA StandsStill ==
    ASSUME AttemptInv, UNCHANGED vars, UNCHANGED results
    PROVE  AttemptInv' /\ Dispatched /\ State' = State /\ Steps(State, State')
<1>1. Good(State) /\ Sound(State) /\ AttemptsGood(State) BY InvIsGood DEF Good
<1>2. Save(State) BY DEF Save, State, vars
<1>3. AttemptInv' /\ Dispatched /\ State' = State BY <1>1, <1>2, ServesReflexive, SavedServes
<1>4. Steps(State, State) BY <1>1, StutterSteps, QuietIsStep
<1> QED BY <1>3, <1>4

(* recordWorkerResult, whoever sent the result. *)
LEMMA SaveResultDispatched ==
    ASSUME AttemptInv, NEW m, RequestShaped(m), m.kind = "result",
           m \in late \/ \E w \in Workers : At(w, "submit") /\ m = RequestOf(w),
           SaveResult(m)
    PROVE  AttemptInv' /\ Dispatched /\ Steps(State, State')
<1>1. CASE Recordable(State, m)
  <2> DEFINE u == RecordResult(State, m.worker, m.task, m.verdict)
  <2>1. m.worker \in Workers /\ m.task \in TaskIds /\ m.verdict \in Verdicts
    BY DEF RequestShaped, Request
  <2>2. /\ Good(u) /\ Steps(State, u)
        /\ Ends(State, u, m.task, m.attempt, m.worker,
                IF m.verdict = "passed" THEN "succeeded" ELSE "failed")
    BY <1>1, <2>1, InvIsGood, RecordedGood DEF Recordable
  <2>3. Save(u) /\ results' = [results EXCEPT ![m.task] = m.run] BY <1>1 DEF SaveResult
  <2> HIDE DEF u
  <2>4. State' = u /\ AttemptInv' BY <2>2, <2>3, SavedGood
  <2>5. Records(m) BY <2>2, <2>3, <2>4 DEF Records
  <2> QED BY <2>2, <2>4, <2>5 DEF Dispatched
<1>2. CASE ~Recordable(State, m) BY <1>2, StandsStill DEF SaveResult
<1> QED BY <1>1, <1>2

LEMMA UndeliveredMoves ==
    ASSUME Sent, NEW w \in Workers, At(w, "submit"), Become(w, Undelivered(client[w])),
           GiveUpOn(RequestOf(w)), UNCHANGED reported
    PROVE  Move
<1>1. Shaped(Down) /\ Down.run = 0 BY ShapedPlaces
<1>2. CASE client[w].tries + 1 = SubmitTries
  BY <1>1, <1>2 DEF Undelivered, Leaves, At, Move, ProcessStep
<1>3. CASE client[w].tries + 1 # SubmitTries
  <2>1. client[w].tries < SubmitTries /\ client[w].tries \in 0..SubmitTries
        /\ SubmitTries \in Nat
    BY ClientsAssumption DEF Sent, Shaped, Client
  <2>2. client[w].tries + 1 < SubmitTries BY <1>3, <2>1
  <2>3. Become(w, [client[w] EXCEPT !.tries = @ + 1]) BY <1>3 DEF Undelivered
  <2>4. Repeats(w) BY <2>2, <2>3 DEF Repeats
  <2> QED BY <2>4 DEF Move, ProcessStep
<1> QED BY <1>2, <1>3

(* Worker w executes attempt i of task t, or did.  It stays the worker of   *)
(* the attempt, which is not claimed again: one that is parked waits for an *)
(* answer, and nothing is resumed.                                          *)
Executing(s, t, i, w) ==
    /\ i \in DOMAIN s.taskAttempts[t]
    /\ s.taskAttempts[t][i].worker = w /\ s.taskAttempts[t][i].status # "leased"
    /\ s.taskAttempts[t][i].status = "checkpointed" => s.tasks[t].status = "waiting_for_input"

(* Who begins to execute has started the attempt. *)
Started ==
    \A v \in Workers : At(v, "claimed") /\ client'[v].run # 0 =>
        Executing(State', client[v].task, client[v].attempt, v)

LEMMA NotStarted ==
    ASSUME Sent,
           \/ UNCHANGED client
           \/ \E w \in Workers : \E c : Become(w, c) /\ (At(w, "claimed") => c.run = 0)
    PROVE  Started
<1>1. SUFFICES ASSUME NEW v \in Workers, At(v, "claimed") PROVE client'[v].run = 0
  BY DEF Started
<1>2. client[v].run = 0 BY <1>1 DEF Sent, Shaped, At
<1>3. CASE UNCHANGED client BY <1>2, <1>3
<1>4. ASSUME NEW w \in Workers, NEW c, Become(w, c), At(w, "claimed") => c.run = 0
      PROVE  client'[v].run = 0
  <2>1. client'[w] = c /\ \A x \in Workers \ {w} : client'[x] = client[x] BY <1>4, Becomes
  <2> QED BY <1>1, <1>2, <1>4, <2>1
<1> QED BY <1>3, <1>4

(* The steps that are the same for both. *)
LEMMA CommonProper ==
    ASSUME AttemptInv, Sent, NEW w \in Workers,
           Boot(w) \/ Crash(w) \/ Execute(w) \/ SubmitUnheard(w)
    PROVE  Proper /\ Steps(State, State') /\ Started
<1>1. UNCHANGED vars /\ UNCHANGED results BY DEF Boot, Crash, Execute, SubmitUnheard
<1>2. AttemptInv' /\ Dispatched /\ Steps(State, State') BY <1>1, StandsStill
<1>3. Shaped(Down) /\ Down.run = 0 /\ Shaped(Idle) /\ Idle.run = 0 BY ShapedPlaces
<1>4. CASE Boot(w)
  <2>1. Leaves(w) BY <1>3, <1>4 DEF Boot, Leaves
  <2>2. Started BY <1>3, <1>4, NotStarted DEF Boot
  <2> QED BY <1>2, <2>1, <2>2 DEF Proper, Move, ProcessStep
<1>5. CASE Crash(w)
  <2>1. Leaves(w) BY <1>3, <1>5 DEF Crash, Leaves
  <2>2. Started BY <1>3, <1>5, NotStarted DEF Crash
  <2> QED BY <1>2, <2>1, <2>2 DEF Proper, Move, ProcessStep
<1>6. CASE Execute(w)
  <2>1. Become(w, client'[w]) /\ At(w, "running") BY <1>6, ExecuteEffect
  <2>2. Started BY <2>1, NotStarted DEF At
  <2> QED BY <1>2, <1>6, <2>2 DEF Proper, Move, ProcessStep
<1>7. CASE SubmitUnheard(w)
  <2>1. Move BY <1>7, UndeliveredMoves DEF SubmitUnheard
  <2>2. Started BY <1>7, NotStarted DEF SubmitUnheard, At
  <2> QED BY <1>2, <2>1, <2>2 DEF Proper
<1> QED BY <1>4, <1>5, <1>6, <1>7

LEMMA ElsewhereProper ==
    ASSUME AttemptInv, Sent, Elsewhere
    PROVE  Proper /\ Steps(State, State') /\ Started
<1>1. /\ AttemptInv' /\ QuietSteps(State, State') /\ Serves(State, State')
      /\ UNCHANGED clientVars
  BY ElsewhereGood
<1>2. Move /\ Dispatched BY <1>1 DEF clientVars, Move, Pauses, Dispatched
<1>3. Started BY <1>1, NotStarted DEF clientVars
<1> QED BY <1>1, <1>2, <1>3, QuietIsStep DEF Proper


-----------------------------------------------------------------------------
(* The daemon *)

(* A request whose answer, or whose loss, leaves the process without an     *)
(* execution.                                                               *)
LEMMA RequestProper ==
    ASSUME AttemptInv, Sent, NEW w \in Workers, NEW u, Good(u), Serves(State, u), Save(u),
           NEW c, Shaped(c), c.run = 0, Become(w, c), UNCHANGED <<late, results, reported>>
    PROVE  Proper /\ State' = u /\ Started
<1>1. AttemptInv' /\ Dispatched /\ State' = u BY SavedServes
<1>2. Leaves(w) BY DEF Leaves
<1>3. Started BY NotStarted
<1> QED BY <1>1, <1>2, <1>3 DEF Proper, Move, ProcessStep

LEMMA CycleProper ==
    ASSUME AttemptInv, Sent, NEW w \in Workers, Cycle(w)
    PROVE  Proper /\ Steps(State, State') /\ Started
<1>1. Good(State) BY InvIsGood
<1>2. CASE Enroll(w)
  <2> DEFINE u == Reconcile(RegisterWorker(State, w))
  <2>1. Good(u) /\ Serves(State, u) /\ QuietSteps(State, u) BY <1>1, RegisterGood
  <2>2. Save(u) /\ UNCHANGED <<late, results, reported>> BY <1>2 DEF Enroll
  <2>3. \E c : Shaped(c) /\ c.run = 0 /\ Become(w, c)
    BY <1>2, ShapedPlaces DEF Enroll, AnsweredOr
  <2> HIDE DEF u
  <2> QED BY <2>1, <2>2, <2>3, RequestProper, QuietIsStep
<1>3. CASE Greet(w)
  <2> DEFINE u == Reconcile(HeartbeatWorker(State, w))
  <2>1. Good(u) /\ Serves(State, u) /\ QuietSteps(State, u) BY <1>1, HeartbeatGood
  <2>2. Save(u) /\ UNCHANGED <<late, results, reported>> BY <1>3 DEF Greet
  <2>3. \E c : Shaped(c) /\ c.run = 0 /\ Become(w, c)
    BY <1>3, ShapedPlaces DEF Greet, AnsweredOr
  <2> HIDE DEF u
  <2> QED BY <2>1, <2>2, <2>3, RequestProper, QuietIsStep
<1>4. CASE ClaimTask(w)
  <2> DEFINE u == ClaimAssignedTask(State, w)
             t == ClaimedTask(State, w)
  <2>1. WithinBounds(u) /\ Save(u) /\ UNCHANGED <<late, results, reported>>
    BY <1>4 DEF ClaimTask, Claimed
  <2>2. Good(u) /\ Serves(State, u) /\ QuietSteps(State, u) BY <1>1, <2>1, ClaimGood
  <2>3. t # NoTask => t \in TaskIds /\ ActiveNo(u, t) \in 0..AttemptBound
    BY <1>1, <2>1, ClaimedHasAttempt
  <2>4. AnsweredOr(w, IF t = NoTask THEN Idle ELSE Has(t, ActiveNo(u, t)), Down)
    BY <1>4 DEF ClaimTask, Claimed
  <2> HIDE DEF u, t
  <2>5. \E c : Shaped(c) /\ c.run = 0 /\ Become(w, c)
    BY <2>3, <2>4, ShapedPlaces DEF AnsweredOr
  <2> QED BY <2>1, <2>2, <2>5, RequestProper, QuietIsStep
<1> QED BY <1>2, <1>3, <1>4 DEF Cycle

(* A worker that may start, or has started, executes its attempt. *)
LEMMA BegunExecutes ==
    ASSUME NEW s, Good(s), NEW w \in Workers, NEW t \in TaskIds, NEW i,
           MayBegin(s, w, t, i) \/ AlreadyBegun(s, w, t, i)
    PROVE  Executing(Begun(s, w, t, i), t, i, w)
<1> DEFINE seq == s.taskAttempts[t]
<1>1. Sound(s) /\ AttemptsGood(s) /\ Fits(s, t) BY DEF Good, AttemptsGood
<1>2. /\ HasActiveAttempt(s, t) /\ ActiveAttempt(s, t).worker = w /\ i = ActiveNo(s, t)
      /\ s.tasks[t].worker = w
  BY DEF MayBegin, AlreadyBegun, OwnsActiveAttempt
<1>3. ~Ended(seq) BY <1>2, EndedHasNone
<1>4. /\ LatestIs(seq, Active) /\ seq # <<>> /\ Latest(seq) \in Attempt
      /\ s.tasks[t].status = "in_progress" => Latest(seq).status = "running"
  BY <1>1, <1>3, OpenIsLatest
<1>5. i = Len(seq) /\ Latest(seq).worker = w BY <1>1, <1>2, <1>4, ActiveIsLatest
<1>6. seq \in Seq(Attempt) /\ Len(seq) \in DOMAIN seq BY <1>1, <1>4, AttemptsType, LatestType
<1>7. CASE MayBegin(s, w, t, i)
  <2> DEFINE u == BeginTask(s, w, t)
             attempt == [Latest(seq) EXCEPT !.status = "running", !.ttl = LeaseTTL]
  <2>1. Begun(s, w, t, i) = u BY <1>7 DEF Begun
  <2>2. Begins(s, u, t) BY <1>1, <1>7, BeginTaskBegins
  <2>3. u.taskAttempts[t] = [seq EXCEPT ![Len(seq)] = attempt] BY <2>2 DEF Begins, WithLatest
  <2>4. attempt.status = "running" /\ attempt.worker = w BY <1>4, <1>5 DEF Attempt
  <2> HIDE DEF u, attempt
  <2> QED BY <1>5, <1>6, <2>1, <2>3, <2>4 DEF Executing
<1>8. CASE ~MayBegin(s, w, t, i)
  <2>1. Begun(s, w, t, i) = s BY <1>8 DEF Begun
  <2>2. s.tasks[t].status = "in_progress" BY <1>8 DEF AlreadyBegun
  <2>3. seq[i].status = "running" /\ seq[i].worker = w BY <1>4, <1>5, <2>2 DEF Latest
  <2> QED BY <1>5, <1>6, <2>1, <2>3 DEF Executing
<1> QED BY <1>7, <1>8

LEMMA StartTaskProper ==
    ASSUME AttemptInv, Sent, NEW w \in Workers, StartTask(w)
    PROVE  Proper /\ Steps(State, State') /\ Started
<1> DEFINE t == client[w].task
           i == client[w].attempt
           u == Begun(State, w, t, i)
           c == [client[w] EXCEPT !.pc = "running", !.run = FreshRun]
<1>1. At(w, "claimed") /\ client[w].pc = "claimed" BY DEF StartTask, At
<1>2. t \in TaskIds BY <1>1 DEF Sent, Shaped
<1>3. /\ RequestOf(w).worker = w /\ RequestOf(w).task = t /\ RequestOf(w).attempt = i
  BY DEF RequestOf
<1>4. /\ Save(u) /\ UNCHANGED <<late, results, reported>>
      /\ \/ Become(w, Down)
         \/ MayStart(RequestOf(w)) /\ Become(w, c)
  BY <1>3 DEF StartTask, AnsweredOr
<1>5. Good(State) BY InvIsGood
<1>6. Good(u) /\ Serves(State, u) /\ Steps(State, u) BY <1>2, <1>5, BegunGood
<1>7. MayStart(RequestOf(w)) => Executing(u, t, i, w)
  <2>1. MayStart(RequestOf(w)) => MayBegin(State, w, t, i) \/ AlreadyBegun(State, w, t, i)
    BY <1>3 DEF MayStart
  <2> QED BY <1>2, <1>5, <2>1, BegunExecutes
<1> HIDE DEF u
<1>8. AttemptInv' /\ Dispatched /\ State' = u BY <1>4, <1>6, SavedServes
<1>9. CASE Become(w, Down) BY <1>4, <1>6, <1>9, RequestProper, ShapedPlaces
<1>10. CASE MayStart(RequestOf(w)) /\ Become(w, c)
  <2>1. Launches(w) BY <1>1, <1>4, <1>10 DEF Launches
  <2>2. \A v \in Workers \ {w} : client'[v] = client[v] BY <1>10, Becomes
  <2>3. Executing(State', t, i, w) BY <1>7, <1>8, <1>10
  <2>4. Started
    <3>1. \A v \in Workers \ {w} : At(v, "claimed") => client'[v].run = 0
      BY <2>2 DEF Sent, Shaped, At
    <3> QED BY <2>3, <3>1 DEF Started
  <2> QED BY <1>6, <1>8, <2>1, <2>4 DEF Proper, Move, ProcessStep
<1> QED BY <1>4, <1>9, <1>10

LEMMA SubmitResultProper ==
    ASSUME AttemptInv, Sent, NEW w \in Workers, SubmitResult(w)
    PROVE  Proper /\ Steps(State, State') /\ Started
<1> DEFINE m == RequestOf(w)
<1>1. At(w, "submit") /\ client[w].pc = "submit" /\ SaveResult(m) /\ UNCHANGED <<late, reported>>
  BY DEF SubmitResult, At
<1>2. RequestShaped(m) /\ m.kind = "result" BY <1>1, RequestOfShaped DEF Sent
<1>3. \/ Become(w, Undelivered(client[w]))
      \/ \E c \in {Idle, Down} : Become(w, c)
  BY DEF SubmitResult, Delivered
<1> HIDE DEF m
<1>4. AttemptInv' /\ Dispatched /\ Steps(State, State')
  BY <1>1, <1>2, SaveResultDispatched DEF m
<1>5. CASE Become(w, Undelivered(client[w]))
  <2>1. Move BY <1>1, <1>5, UndeliveredMoves DEF GiveUpOn
  <2>2. Started BY <1>1, <1>5, NotStarted DEF At
  <2> QED BY <1>4, <2>1, <2>2 DEF Proper
<1>6. ASSUME NEW c \in {Idle, Down}, Become(w, c) PROVE Proper /\ Started
  <2>1. Shaped(c) /\ c.run = 0 BY ShapedPlaces
  <2>2. Leaves(w) BY <1>1, <1>6, <2>1 DEF Leaves
  <2>3. Started BY <1>6, <2>1, NotStarted
  <2> QED BY <1>4, <2>2, <2>3 DEF Proper, Move, ProcessStep
<1> QED BY <1>3, <1>4, <1>5, <1>6

LEMMA DaemonProper ==
    ASSUME AttemptInv, Sent, DaemonNext
    PROVE  Proper /\ Steps(State, State') /\ Started
<1>1. Good(State) BY InvIsGood
<1>2. ASSUME NEW w \in Workers, Beat(w) PROVE Proper /\ Steps(State, State') /\ Started
  <2> DEFINE u == Reconcile(HeartbeatWorker(State, w))
  <2>1. Good(u) /\ Serves(State, u) /\ QuietSteps(State, u) BY <1>1, HeartbeatGood
  <2>2. Save(u) /\ UNCHANGED <<client, late, results, reported>> BY <1>2 DEF Beat, clientVars
  <2> HIDE DEF u
  <2>3. AttemptInv' /\ Dispatched /\ State' = u BY <2>1, <2>2, SavedServes
  <2>4. Started BY <2>2, NotStarted
  <2> QED BY <2>1, <2>2, <2>3, <2>4, QuietIsStep DEF Proper, Move, Pauses
<1>3. ASSUME NEW m \in late, Arrive(m) PROVE Proper /\ Steps(State, State') /\ Started
  <2>1. RequestShaped(m) BY DEF Sent
  <2>2. Forgets(m) /\ UNCHANGED client BY <1>3 DEF Arrive, Forgets
  <2>3. Started BY <2>2, NotStarted
  <2>4. CASE m.kind = "result"
    <3>1. SaveResult(m) BY <1>3, <2>4 DEF Arrive
    <3> QED BY <2>1, <2>2, <2>3, <2>4, <3>1, SaveResultDispatched DEF Proper, Move
  <2>5. CASE m.kind # "result"
    <3> DEFINE u == Begun(State, m.worker, m.task, m.attempt)
    <3>1. Save(u) /\ UNCHANGED results BY <1>3, <2>5 DEF Arrive
    <3>2. Good(u) /\ Serves(State, u) /\ Steps(State, u)
      BY <1>1, <2>1, BegunGood DEF RequestShaped, Request
    <3> HIDE DEF u
    <3> QED BY <2>2, <2>3, <3>1, <3>2, SavedServes DEF Proper, Move
  <2> QED BY <2>4, <2>5
<1>4. ASSUME NEW w \in Workers, DaemonStep(w) PROVE Proper /\ Steps(State, State') /\ Started
  BY <1>2, <1>4, CommonProper, CycleProper, StartTaskProper, SubmitResultProper DEF DaemonStep
<1> QED BY <1>3, <1>4, ElsewhereProper DEF DaemonNext


-----------------------------------------------------------------------------
(* The invariant of both specifications *)

ClientsInv ==
    AttemptInv /\ Sent /\ RunsApart /\ Vouched /\ Answered /\ SucceededWasReported

LEMMA InitClientsInv == ClientInit => ClientsInv
<1> SUFFICES ASSUME ClientInit PROVE ClientsInv OBVIOUS
<1>1. AttemptInv BY InitAttemptInv DEF ClientInit
<1>2. \A w \in Workers : client[w] = Down BY DEF ClientInit
<1>3. Sent
  <2>1. Shaped(Down) BY ShapedPlaces
  <2>2. Down \in Client BY <2>1 DEF Shaped
  <2>3. Cardinality(late) <= MaxLate /\ IsFiniteSet(late)
    BY FS_EmptySet, ClientsAssumption DEF ClientInit
  <2> QED BY <1>2, <2>1, <2>2, <2>3 DEF ClientInit, Sent
<1>4. \A w \in Workers : client[w].run = 0 /\ client[w].verdict = "none"
  <2>1. Down.run = 0 /\ Down.verdict = "none" BY DEF Down
  <2> QED BY <1>2, <2>1
<1>5. RunsApart /\ Vouched /\ Answered BY <1>4 DEF ClientInit, RunsApart, Vouched, Answered
<1>6. SucceededWasReported
  <2>1. \A t \in TaskIds : taskAttempts[t] = <<>> BY DEF ClientInit, Init
  <2> QED BY <2>1 DEF SucceededWasReported
<1> QED BY <1>1, <1>3, <1>5, <1>6 DEF ClientsInv

LEMMA ClientsInvKept ==
    ASSUME ClientsInv, Proper
    PROVE  ClientsInv'
<1>1. Sent' BY SentKept DEF ClientsInv, Proper
<1> QED BY <1>1, RunsApartKept, VouchedKept, AnsweredKept, SucceededKept DEF ClientsInv, Proper

LEMMA StutterProper ==
    ASSUME AttemptInv, UNCHANGED allVars
    PROVE  Proper /\ Steps(State, State') /\ UNCHANGED client
<1>1. UNCHANGED vars /\ UNCHANGED clientVars BY DEF allVars, vars
<1> QED BY <1>1, StandsStill DEF clientVars, Proper, Move, Pauses

LEMMA DaemonInv == DaemonSpec => []ClientsInv
<1>1. ClientsInv /\ [DaemonNext]_allVars => ClientsInv'
  <2> SUFFICES ASSUME ClientsInv, [DaemonNext]_allVars PROVE ClientsInv' OBVIOUS
  <2>1. AttemptInv /\ Sent BY DEF ClientsInv
  <2> QED BY <2>1, DaemonProper, StutterProper, ClientsInvKept
<1> QED BY InitClientsInv, <1>1, PTL DEF DaemonSpec

-----------------------------------------------------------------------------
(* The theorems about the daemon *)

LEMMA ClientsInvSays ==
    ClientsInv => /\ ClientTypeOK /\ TypeOK /\ AssignmentFollowsTask /\ AttemptFollowsTask
                  /\ CurrentTaskIsOwn /\ ReviewIsOfLatestAttempt /\ RetryBudget
                  /\ DependenciesMergedFirst
<1>1. AttemptInv => TypeOK /\ AssignmentFollowsTask
  BY DEF AttemptInv, TaskInv, Ordered, Follows, RecordsAgree, AssignmentFollowsTask, Exists, State
<1>2. AttemptInv => DependenciesMergedFirst
  BY DEF AttemptInv, TaskInv, Ordered, DepsFirst, Merged, DependenciesMergedFirst, State
<1> QED BY <1>1, <1>2, SentTypes, AttemptInvFollows, AttemptInvOwns, AttemptInvReviews, AttemptInvBudget
        DEF ClientsInv

(* With workers that crash, requests that are lost and requests that arrive *)
(* late, the runtime state keeps what is proved of it (DispatcherProofs,    *)
(* DispatcherAttemptProofs), and processes and network their types.         *)
THEOREM DaemonKeepsDispatcher ==
    DaemonSpec => [](/\ ClientTypeOK /\ TypeOK /\ AssignmentFollowsTask /\ AttemptFollowsTask
                     /\ CurrentTaskIsOwn /\ ReviewIsOfLatestAttempt /\ RetryBudget
                     /\ DependenciesMergedFirst)
BY DaemonInv, ClientsInvSays, PTL

(* "A TaskAttempt is one worker's execution": an attempt that succeeded was *)
(* executed under this very number, by its worker, and passed.              *)
THEOREM SucceededWasReportedHolds == DaemonSpec => []SucceededWasReported
<1>1. ClientsInv => SucceededWasReported BY DEF ClientsInv
<1> QED BY DaemonInv, <1>1, PTL

LEMMA AnsweredIsReplay ==
    ASSUME ClientsInv, NEW w \in Workers, At(w, "submit"),
           results[client[w].task] = client[w].run,
           Len(taskAttempts[client[w].task]) = client[w].attempt
    PROVE  Replay(RequestOf(w))
<1> DEFINE t == client[w].task
           i == client[w].attempt
           seq == State.taskAttempts[t]
<1>1. t \in TaskIds /\ client[w].run # 0 BY DEF ClientsInv, Sent, Shaped, At
<1>2. EndedBy(State, t, i, w) BY <1>1 DEF ClientsInv, Answered
<1>3. Good(State) BY InvIsGood DEF ClientsInv
<1>4. Sound(State) /\ Fits(State, t) BY <1>1, <1>3 DEF Good, AttemptsGood
<1>5. seq = taskAttempts[t] /\ Len(seq) = i BY DEF State
<1>6. Ended(seq)
  <2> SUFFICES ASSUME ~Ended(seq) PROVE FALSE OBVIOUS
  <2>1. Latest(seq).status \in Active BY <1>1, <1>4, OpenIsLatest DEF LatestIs
  <2> QED BY <1>2, <1>5, <2>1 DEF EndedBy, Latest, Active
<1>7. ~HasActiveAttempt(State, t) BY <1>6, EndedHasNone
<1>8. /\ RequestOf(w).task = t /\ RequestOf(w).attempt = i /\ RequestOf(w).worker = w
      /\ RequestOf(w).run = client[w].run
  BY DEF RequestOf
<1>9. /\ i \in DOMAIN taskAttempts[t] /\ taskAttempts[t][i].status \in {"succeeded", "failed"}
      /\ taskAttempts[t][i].worker = w
  BY <1>2, <1>5 DEF EndedBy
<1> QED BY <1>7, <1>8, <1>9 DEF Replay

(* A worker that repeats a submission whose answer was lost is told that    *)
(* the dispatcher has the result, as long as no other attempt has followed. *)
THEOREM RetryIsAcknowledgedHolds == DaemonSpec => []RetryIsAcknowledged
<1>1. ClientsInv => RetryIsAcknowledged
  <2> SUFFICES ASSUME ClientsInv, NEW w \in Workers, At(w, "submit"),
                      results[RequestOf(w).task] = RequestOf(w).run,
                      Len(taskAttempts[RequestOf(w).task]) = RequestOf(w).attempt
               PROVE  Accepted(RequestOf(w))
    BY DEF RetryIsAcknowledged
  <2>1. /\ RequestOf(w).task = client[w].task /\ RequestOf(w).attempt = client[w].attempt
        /\ RequestOf(w).run = client[w].run
    BY DEF RequestOf
  <2> QED BY <2>1, AnsweredIsReplay DEF Accepted
<1> QED BY DaemonInv, <1>1, PTL


(* No process takes its result for delivered that is not recorded. *)
Acknowledged ==
    \A w \in Workers : At(w, "submit") /\ client'[w].pc = "idle"
        => results'[client[w].task] = client[w].run

LEMMA AcknowledgedOf ==
    ASSUME Sent,
           \/ UNCHANGED client
           \/ \E w \in Workers : \E c :
                /\ Become(w, c)
                /\ At(w, "submit") /\ c.pc = "idle" => results'[client[w].task] = client[w].run
    PROVE  Acknowledged
<1>1. CASE UNCHANGED client BY <1>1 DEF Acknowledged, At
<1>2. ASSUME NEW w \in Workers, NEW c, Become(w, c),
             At(w, "submit") /\ c.pc = "idle" => results'[client[w].task] = client[w].run
      PROVE  Acknowledged
  <2>1. client'[w] = c /\ \A v \in Workers \ {w} : client'[v] = client[v] BY <1>2, Becomes
  <2> QED BY <1>2, <2>1 DEF Acknowledged, At
<1> QED BY <1>1, <1>2

LEMMA UndeliveredIsNotIdle ==
    ASSUME NEW w \in Workers, At(w, "submit"), Shaped(client[w])
    PROVE  Undelivered(client[w]).pc # "idle"
BY DEF Undelivered, Down, At, Shaped, Client

(* A result that is recorded, and one that is recognised, are the stored one. *)
LEMMA AcceptedIsStored ==
    ASSUME Sent, NEW w \in Workers, At(w, "submit"), SaveResult(RequestOf(w)),
           Accepted(RequestOf(w))
    PROVE  results'[client[w].task] = client[w].run
<1> DEFINE m == RequestOf(w)
<1>1. m.task = client[w].task /\ m.run = client[w].run /\ client[w].task \in TaskIds
  BY DEF RequestOf, Sent, Shaped, At
<1>2. CASE Recordable(State, m) BY <1>1, <1>2 DEF SaveResult, Sent
<1>3. CASE ~Recordable(State, m) BY <1>1, <1>3 DEF SaveResult, Accepted, Replay
<1>4. QED BY <1>2, <1>3

LEMMA DaemonAcknowledged ==
    ASSUME Sent, [DaemonNext]_allVars
    PROVE  Acknowledged
<1>1. Down.pc # "idle" BY DEF Down
<1>2. CASE UNCHANGED allVars BY <1>2, AcknowledgedOf DEF allVars, clientVars
<1>3. CASE Elsewhere BY <1>3, AcknowledgedOf DEF Elsewhere, clientVars
<1>4. ASSUME NEW m \in late, Arrive(m) PROVE Acknowledged BY <1>4, AcknowledgedOf DEF Arrive
<1>5. ASSUME NEW w \in Workers, DaemonStep(w) PROVE Acknowledged
  <2>1. CASE Boot(w) BY <2>1, AcknowledgedOf DEF Boot, At
  <2>2. CASE Crash(w) BY <1>1, <2>2, AcknowledgedOf DEF Crash
  <2>3. CASE Cycle(w)
    <3>1. ~At(w, "submit") /\ \E c : Become(w, c)
      BY <2>3 DEF Cycle, Enroll, Greet, ClaimTask, AnsweredOr, At
    <3> QED BY <3>1, AcknowledgedOf
  <2>4. CASE StartTask(w)
    <3>1. ~At(w, "submit") /\ \E c : Become(w, c) BY <2>4 DEF StartTask, AnsweredOr, At
    <3> QED BY <3>1, AcknowledgedOf
  <2>5. CASE Beat(w) BY <2>5, AcknowledgedOf DEF Beat, clientVars
  <2>6. CASE Execute(w)
    <3>1. Become(w, client'[w]) /\ At(w, "running") BY <2>6, ExecuteEffect
    <3> QED BY <3>1, AcknowledgedOf DEF At
  <2>7. CASE SubmitResult(w)
    <3>1. At(w, "submit") /\ SaveResult(RequestOf(w)) /\ Shaped(client[w])
      BY <2>7 DEF SubmitResult, Sent
    <3>2. CASE Become(w, Undelivered(client[w]))
      BY <3>1, <3>2, UndeliveredIsNotIdle, AcknowledgedOf
    <3>3. ASSUME NEW c, Become(w, c), Accepted(RequestOf(w)) PROVE Acknowledged
      BY <3>1, <3>3, AcceptedIsStored, AcknowledgedOf
    <3> QED BY <2>7, <3>2, <3>3 DEF SubmitResult
  <2>8. CASE SubmitUnheard(w)
    <3>1. /\ At(w, "submit") /\ Shaped(client[w]) /\ Become(w, Undelivered(client[w]))
      BY <2>8 DEF SubmitUnheard, Sent
    <3> QED BY <3>1, UndeliveredIsNotIdle, AcknowledgedOf
  <2> QED BY <1>5, <2>1, <2>2, <2>3, <2>4, <2>5, <2>6, <2>7, <2>8 DEF DaemonStep
<1> QED BY <1>2, <1>3, <1>4, <1>5 DEF DaemonNext

(* A worker goes on only when the result of this very execution is the one  *)
(* the dispatcher has, so that session and worktree are kept until then.    *)
THEOREM AcknowledgedIsRecordedHolds == DaemonSpec => AcknowledgedIsRecorded
<1>1. ClientsInv /\ [DaemonNext]_allVars =>
      [\A w \in Workers : At(w, "submit") /\ client'[w].pc = "idle"
            => results'[client[w].task] = client[w].run]_allVars
  BY DaemonAcknowledged DEF ClientsInv, Acknowledged
<1> QED BY DaemonInv, <1>1, PTL DEF DaemonSpec, AcknowledgedIsRecorded


-----------------------------------------------------------------------------
(* One process executes an attempt *)

(* Every process with an execution has started its attempt, which stays its *)
(* worker's own.                                                            *)
Execution ==
    \A w \in Workers : client[w].run # 0 =>
        Executing(State, client[w].task, client[w].attempt, w)

(* An attempt that is executed and has not ended runs, or waits. *)
LEMMA ExecutingOpen ==
    ASSUME NEW s, Sound(s), NEW t \in TaskIds, Fits(s, t), NEW i, NEW w, Executing(s, t, i, w),
           ~Over(s.taskAttempts[t][i])
    PROVE  LET seq == s.taskAttempts[t]
           IN /\ i = Len(seq) /\ ~Ended(seq) /\ seq # <<>> /\ Latest(seq).worker = w
              /\ seq \in Seq(Attempt) /\ Latest(seq) \in Attempt
              /\ \/ /\ Latest(seq).status = "running" /\ s.tasks[t].status = "in_progress"
                    /\ s.tasks[t].worker = w
                 \/ Latest(seq).status = "checkpointed" /\ s.tasks[t].status = "waiting_for_input"
<1> DEFINE seq == s.taskAttempts[t]
<1>1. ~Ended(seq) BY DEF Ended, Executing
<1>2. /\ LatestIs(seq, Active) /\ seq # <<>> /\ Latest(seq) \in Attempt
      /\ s.tasks[t].status \in {"ready", "assigned", "in_progress", "waiting_for_input"}
      /\ s.tasks[t].status \in {"ready", "assigned"} =>
            Latest(seq).status \in {"leased", "checkpointed"}
      /\ s.tasks[t].status = "in_progress" =>
            Latest(seq).status = "running" /\ Latest(seq).worker = s.tasks[t].worker
      /\ s.tasks[t].status = "waiting_for_input" => Latest(seq).status = "checkpointed"
  BY <1>1, OpenIsLatest, AttemptOpen
<1>3. seq \in Seq(Attempt) BY AttemptsType
<1>4. i = Len(seq) BY <1>2 DEF LatestIs, Executing
<1>5. seq[i] = Latest(seq) BY <1>4 DEF Latest
<1>6. /\ Latest(seq).worker = w /\ Latest(seq).status # "leased"
      /\ Latest(seq).status = "checkpointed" => s.tasks[t].status = "waiting_for_input"
  BY <1>5 DEF Executing
<1> QED BY <1>1, <1>2, <1>3, <1>4, <1>6

(* One that has ended is let be. *)
LEMMA ExecutedStays ==
    ASSUME NEW s, NEW t, NEW i, NEW w, Executing(s, t, i, w), Over(s.taskAttempts[t][i]),
           NEW u, i \in DOMAIN u.taskAttempts[t], u.taskAttempts[t][i] = s.taskAttempts[t][i]
    PROVE  Executing(u, t, i, w)
BY DEF Executing, Over, Terminal

(* The open one is changed. *)
LEMMA ExecutedChanges ==
    ASSUME NEW s, Sound(s), NEW t \in TaskIds, Fits(s, t), NEW i, NEW w, Executing(s, t, i, w),
           ~Over(s.taskAttempts[t][i]), NEW u, NEW attempt,
           u.taskAttempts[t] = WithLatest(s.taskAttempts[t], attempt),
           attempt.worker = w, attempt.status # "leased",
           attempt.status = "checkpointed" => u.tasks[t].status = "waiting_for_input"
    PROVE  Executing(u, t, i, w)
<1> DEFINE seq == s.taskAttempts[t]
<1>1. i = Len(seq) /\ i \in DOMAIN seq BY ExecutingOpen DEF Executing
<1>2. u.taskAttempts[t] = [seq EXCEPT ![Len(seq)] = attempt] BY DEF WithLatest
<1>3. DOMAIN u.taskAttempts[t] = DOMAIN seq /\ u.taskAttempts[t][i] = attempt BY <1>1, <1>2
<1> QED BY <1>1, <1>3 DEF Executing

(* It ends, whoever ends it. *)
LEMMA ExecutedEnds ==
    ASSUME NEW s, Sound(s), NEW t \in TaskIds, Fits(s, t), NEW i, NEW w, Executing(s, t, i, w),
           NEW u, NEW status \in EndStatuses,
           u.taskAttempts[t] = EndLatest(s.taskAttempts[t], status)
    PROVE  Executing(u, t, i, w)
<1> DEFINE seq == s.taskAttempts[t]
           attempt == [Latest(seq) EXCEPT !.status = status, !.ttl = 0]
<1>1. CASE Over(seq[i])
  <2>1. Ended(seq) \/ LatestIs(seq, Active) BY AttemptOpen
  <2>2. Continues(seq, EndLatest(seq, status)) BY <2>1, AttemptsType, EndLatestKeeps
  <2>3. i \in DOMAIN u.taskAttempts[t] /\ u.taskAttempts[t][i] = seq[i]
    BY <1>1, <2>2 DEF Continues, Executing
  <2> QED BY <1>1, <2>3, ExecutedStays
<1>2. CASE ~Over(seq[i])
  <2>1. ~Ended(seq) /\ Latest(seq) \in Attempt /\ Latest(seq).worker = w
    BY <1>2, ExecutingOpen
  <2>2. u.taskAttempts[t] = WithLatest(seq, attempt) BY <2>1 DEF EndLatest
  <2>3. attempt.worker = w /\ attempt.status \notin {"leased", "checkpointed"}
    BY <2>1 DEF Attempt, EndStatuses
  <2> HIDE DEF attempt
  <2> QED BY <1>2, <2>2, <2>3, ExecutedChanges
<1> QED BY <1>1, <1>2


LEMMA ExecutedRefreshed ==
    ASSUME NEW s, Sound(s), NEW u, Sound(u), NEW t \in TaskIds, Refreshes(s, u, t),
           NEW i, NEW w, Executing(s, t, i, w)
    PROVE  Executing(u, t, i, w)
<1>1. s.taskAttempts[t] \in Seq(Attempt) /\ u.taskAttempts[t] \in Seq(Attempt)
  BY AttemptsType
<1>2. DOMAIN u.taskAttempts[t] = DOMAIN s.taskAttempts[t] BY <1>1 DEF Refreshes
<1> QED BY <1>2 DEF Refreshes, Executing

LEMMA ExecutedCleaned ==
    ASSUME NEW s, Sound(s), NEW u, NEW t \in TaskIds, Fits(s, t), CleansUp(s, u, t),
           NEW i, NEW w, Executing(s, t, i, w)
    PROVE  Executing(u, t, i, w)
<1> DEFINE seq == s.taskAttempts[t]
<1>1. CASE Rests(s, u, t) BY <1>1 DEF Rests, Executing
<1>2. CASE Requeues(s, u, t)
  <2>1. Over(seq[i]) BY <1>2, ExecutingOpen DEF Requeues
  <2> QED BY <1>2, <2>1, ExecutedStays DEF Requeues, Executing
<1>3. CASE Expires(s, u, t) BY <1>3, ExecutedEnds DEF Expires, EndStatuses
<1> QED BY <1>1, <1>2, <1>3 DEF CleansUp

(* A claim goes on with a running attempt only for its own worker. *)
LEMMA ExecutedClaimed ==
    ASSUME NEW s, Sound(s), NEW u, NEW t \in TaskIds, Fits(s, t), NEW x \in Workers,
           Claims(s, u, t, x), NEW i, NEW w, Executing(s, t, i, w)
    PROVE  Executing(u, t, i, w)
<1> DEFINE seq == s.taskAttempts[t]
<1>1. u.taskAttempts[t] = Taken(seq, x) BY DEF Claims
<1>2. seq \in Seq(Attempt) BY AttemptsType
<1>3. CASE Over(seq[i])
  <2>1. Continues(seq, u.taskAttempts[t]) BY ClaimsGood DEF KeepsGood
  <2> QED BY <1>3, <2>1, ExecutedStays DEF Continues, Executing
<1>4. CASE ~Over(seq[i])
  <2>1. /\ ~Ended(seq) /\ Latest(seq).status = "running" /\ s.tasks[t].status = "in_progress"
        /\ s.tasks[t].worker = w
    BY <1>4, ExecutingOpen DEF Claims
  <2>2. x = w BY <2>1 DEF Claims
  <2> DEFINE attempt == [worker |-> w, status |-> "running", ttl |-> LeaseTTL]
  <2>3. u.taskAttempts[t] = WithLatest(seq, attempt) BY <1>1, <2>1, <2>2 DEF Taken
  <2>4. attempt.worker = w /\ attempt.status = "running" OBVIOUS
  <2> HIDE DEF attempt
  <2> QED BY <1>4, <2>3, <2>4, ExecutedChanges
<1> QED BY <1>3, <1>4

(* Only the resumption of an interrupted task gives its attempt to another  *)
(* worker under the same number.                                            *)
NothingIsResumed == "resume" \notin Handlers

LEMMA ExecutingKept ==
    ASSUME NothingIsResumed, NEW s, Sound(s), NEW u, NEW t \in TaskIds, Fits(s, t),
           TaskStep(s, u, t), NEW i, NEW w, Executing(s, t, i, w)
    PROVE  Executing(u, t, i, w)
<1> DEFINE seq == s.taskAttempts[t]
<1>1. CASE CleansUpAndClaims(s, u, t)
  <2>1. PICK fresh, clean :
            /\ Sound(fresh) /\ Fits(fresh, t) /\ Refreshes(s, fresh, t)
            /\ Sound(clean) /\ Fits(clean, t) /\ CleansUp(fresh, clean, t)
            /\ Rests(clean, u, t) \/ \E x \in Workers : Claims(clean, u, t, x)
    BY <1>1 DEF CleansUpAndClaims
  <2>2. Executing(fresh, t, i, w) BY <2>1, ExecutedRefreshed
  <2>3. Executing(clean, t, i, w) BY <2>1, <2>2, ExecutedCleaned
  <2>4. CASE Rests(clean, u, t) BY <2>3, <2>4 DEF Rests, Executing
  <2> QED BY <2>1, <2>3, <2>4, ExecutedClaimed
<1>2. CASE Over(seq[i])
  <2>1. HistoryKept(seq, u.taskAttempts[t]) BY TaskStepGood
  <2> QED BY <1>2, <2>1, ExecutedStays DEF HistoryKept, Executing
<1>3. CASE ~Over(seq[i]) /\ ~CleansUpAndClaims(s, u, t)
  <2>1. /\ ~Ended(seq) /\ Latest(seq) \in Attempt /\ Latest(seq).worker = w
        /\ \/ Latest(seq).status = "running" /\ s.tasks[t].status = "in_progress"
           \/ Latest(seq).status = "checkpointed" /\ s.tasks[t].status = "waiting_for_input"
    BY <1>3, ExecutingOpen
  <2>2. CASE Asks(s, u, t)
    <3> DEFINE attempt == [Latest(seq) EXCEPT !.status = "checkpointed"]
    <3>1. u.taskAttempts[t] = WithLatest(seq, attempt) BY <2>1, <2>2 DEF Asks
    <3>2. /\ attempt.worker = w /\ attempt.status = "checkpointed"
          /\ u.tasks[t].status = "waiting_for_input"
      BY <2>1, <2>2 DEF Attempt, Asks
    <3> HIDE DEF attempt
    <3> QED BY <1>3, <3>1, <3>2, ExecutedChanges
  <2>3. CASE Cancels(s, u, t) BY <2>3, ExecutedEnds DEF Cancels, EndStatuses
  <2>4. CASE Delivers(s, u, t) BY <2>4, ExecutedEnds DEF Delivers, EndStatuses
  <2>5. ~Begins(s, u, t) /\ ~Decides(s, u, t) /\ ~Creates(s, u, t)
    BY <2>1 DEF Begins, Decides, Creates
  <2> QED BY <1>3, <2>2, <2>3, <2>4, <2>5 DEF TaskStep, QuietStep, NothingIsResumed
<1> QED BY <1>1, <1>2, <1>3

LEMMA ExecutionKept ==
    ASSUME NothingIsResumed, AttemptInv, Sent, Execution, Move, Steps(State, State'), Started,
           Sent'
    PROVE  Execution'
<1>1. SUFFICES ASSUME NEW w \in Workers, client'[w].run # 0
               PROVE  Executing(State', client'[w].task, client'[w].attempt, w)
  BY DEF Execution, Executing
<1>2. \/ At(w, "claimed") /\ client'[w].task = client[w].task
         /\ client'[w].attempt = client[w].attempt
      \/ client[w].run # 0 /\ client'[w].task = client[w].task
         /\ client'[w].attempt = client[w].attempt
  BY <1>1, ProcessAfter
<1>3. CASE At(w, "claimed") BY <1>1, <1>2, <1>3 DEF Started
<1>4. CASE client[w].run # 0
  <2> DEFINE t == client[w].task
  <2>1. Executing(State, t, client[w].attempt, w) BY <1>4 DEF Execution
  <2>2. t \in TaskIds BY <1>4 DEF Sent, Shaped
  <2>3. Sound(State) /\ Fits(State, t) /\ TaskStep(State, State', t)
    BY <2>2, InvIsGood DEF Good, AttemptsGood, Steps
  <2>4. Executing(State', t, client[w].attempt, w) BY <2>1, <2>2, <2>3, ExecutingKept
  <2> QED BY <1>2, <1>3, <2>4
<1> QED BY <1>2, <1>3, <1>4

LEMMA ExecutionHolds ==
    ASSUME NothingIsResumed
    PROVE  DaemonSpec => [](Sent /\ Execution)
<1>1. ClientInit => Execution BY DEF ClientInit, Execution, Down
<1>2. ClientsInv /\ Execution /\ [DaemonNext]_allVars => Execution'
  <2> SUFFICES ASSUME ClientsInv, Execution, [DaemonNext]_allVars
               PROVE  Execution'
    OBVIOUS
  <2>1. AttemptInv /\ Sent BY DEF ClientsInv
  <2>2. Proper /\ Steps(State, State') /\ (Started \/ UNCHANGED client)
    BY <2>1, DaemonProper, StutterProper
  <2>3. Started BY <2>1, <2>2, NotStarted
  <2>4. Sent' BY <2>2, ClientsInvKept DEF ClientsInv
  <2> QED BY <2>1, <2>2, <2>3, <2>4, ExecutionKept DEF Proper
<1>3. ClientsInv => Sent BY DEF ClientsInv
<1> QED BY DaemonInv, <1>1, <1>2, <1>3, PTL DEF DaemonSpec

(* No two processes execute or deliver one attempt, as long as nobody       *)
(* resumes an interrupted task: its attempt goes on under the same number   *)
(* with whichever worker claims it, while the interrupted process may not   *)
(* have stopped.                                                            *)
THEOREM OneExecutorHolds ==
    ASSUME NothingIsResumed
    PROVE  DaemonSpec => []OneExecutor
<1>1. Sent /\ Execution => OneExecutor
  <2> SUFFICES ASSUME Sent, Execution, NEW w \in Workers, NEW v \in Workers, w # v,
                      client[w].pc \in {"running", "submit"},
                      client[v].pc \in {"running", "submit"},
                      <<client[w].task, client[w].attempt>> = <<client[v].task, client[v].attempt>>
               PROVE  FALSE
    BY DEF OneExecutor
  <2>1. client[w].run # 0 /\ client[v].run # 0 BY DEF Sent, Shaped
  <2>2. /\ Executing(State, client[w].task, client[w].attempt, w)
        /\ Executing(State, client[v].task, client[v].attempt, v)
    BY <2>1 DEF Execution
  <2>3. client[w].task = client[v].task /\ client[w].attempt = client[v].attempt OBVIOUS
  <2> QED BY <2>2, <2>3 DEF Executing
<1> QED BY ExecutionHolds, <1>1, PTL


-----------------------------------------------------------------------------
(* The routes of the Trae worker *)

LEMMA SettledIs ==
    ASSUME NEW s
    PROVE  Settled(s) = s
BY DEF Settled

LEMMA KnownGood ==
    ASSUME NEW s, Good(s), NEW w \in Workers
    PROVE  Good(Known(s, w)) /\ Serves(s, Known(s, w))
BY RegisterGood, ServesReflexive DEF Known

(* A start adds no attempt, so that one within the bound starts from one.   *)
LEMMA BeginTaskWithin ==
    ASSUME NEW s, s \in RuntimeState, NEW w \in Workers, NEW t \in TaskIds,
           HasActiveAttempt(s, t), WithinBounds(BeginTask(s, w, t))
    PROVE  WithinBounds(s)
<1> DEFINE attempt == [ActiveAttempt(s, t) EXCEPT !.status = "running", !.ttl = LeaseTTL]
           acquired == AcquireTaskLeases(s, t, w)
           running == WithActiveAttempt(acquired, t, attempt)
           started == SetStatus(running, t, "in_progress")
           u == [started EXCEPT !.assignments[t].claimed = TRUE, !.workers[w] = Busy(@, t)]
<1>1. attempt \in Attempt BY ActiveAttemptType, ConstantTypes DEF Attempt
<1> HIDE DEF attempt
<1>2. /\ acquired.taskAttempts = s.taskAttempts /\ DOMAIN acquired = DOMAIN s
      /\ s.taskAttempts \in [TaskIds -> Seq(Attempt)]
  BY DEF AcquireTaskLeases, RuntimeState
<1> HIDE DEF acquired
<1>3. BeginTask(s, w, t) = u BY DEF BeginTask, acquired, attempt
<1>4. /\ DOMAIN running = DOMAIN s /\ \A v \in TaskIds : running.taskAttempts[v] \in Seq(Attempt)
      /\ \A v \in TaskIds : Len(running.taskAttempts[v]) = Len(s.taskAttempts[v])
  <2>1. "taskAttempts" \in DOMAIN acquired BY <1>2 DEF RuntimeState
  <2>2. CASE running = acquired BY <1>2, <2>2
  <2>3. CASE running # acquired
    <3> DEFINE n == ActiveNo(acquired, t)
               seq == s.taskAttempts[t]
               new == [seq EXCEPT ![n] = attempt]
    <3>1. running = [acquired EXCEPT !.taskAttempts[t][n] = attempt]
      BY <2>3 DEF WithActiveAttempt
    <3>2. seq \in Seq(Attempt) BY <1>2
    <3> HIDE DEF n, seq
    <3>3. new \in Seq(Attempt) /\ Len(new) = Len(seq)
      <4>1. CASE n \in 1..Len(seq) BY <1>1, <3>2, <4>1, ExceptSeq
      <4>2. CASE n \notin 1..Len(seq)
        <5>1. seq = [i \in 1..Len(seq) |-> seq[i]] /\ DOMAIN seq = 1..Len(seq) BY <3>2
        <5>2. new = seq BY <4>2, <5>1
        <5> QED BY <3>2, <5>2
      <4> QED BY <4>1, <4>2
    <3> USE DEF seq
    <3>4. running.taskAttempts = [s.taskAttempts EXCEPT ![t] = new] BY <1>2, <2>1, <3>1
    <3> HIDE DEF new
    <3> QED BY <1>2, <3>1, <3>3, <3>4
  <2> QED BY <2>2, <2>3
<1> HIDE DEF running
<1>5. "taskAttempts" \in DOMAIN running BY <1>4 DEF RuntimeState
<1>6. u.taskAttempts = running.taskAttempts BY <1>5 DEF SetStatus
<1> HIDE DEF u
<1> QED BY <1>3, <1>4, <1>6 DEF WithinBounds

(* applyTraeStartTask claims first, whatever comes after it. *)
LEMMA StartedFrom ==
    ASSUME AttemptInv, NEW m, RequestShaped(m), WithinBounds(StartState(m))
    PROVE  LET claimed == ClaimAssignedTask(State, m.worker)
           IN \/ StartState(m) = State
              \/ /\ WithinBounds(claimed)
                 /\ StartState(m) \in {claimed, Begun(claimed, m.worker, m.task, m.attempt)}
<1> DEFINE w == m.worker
           t == m.task
           claimed == ClaimAssignedTask(State, w)
           u == StartState(m)
<1>1. w \in Workers /\ t \in TaskIds BY DEF RequestShaped, Request
<1>2. Sound(State) BY InvIsGood DEF Good
<1>3. u \in {State, claimed, Begun(claimed, w, t, m.attempt)} BY SettledIs DEF StartState
<1>4. WithinBounds(u) OBVIOUS
<1>5. claimed \in RuntimeState BY <1>1, <1>2, ClaimAssignedTaskType
<1> HIDE DEF claimed, u
<1>6. CASE u = State BY <1>6 DEF u
<1>7. CASE u = claimed BY <1>4, <1>7 DEF u, claimed
<1>8. CASE u = Begun(claimed, w, t, m.attempt)
  <2>1. CASE MayBegin(claimed, w, t, m.attempt)
    <3>1. u = BeginTask(claimed, w, t) /\ HasActiveAttempt(claimed, t)
      BY <1>8, <2>1 DEF Begun, MayBegin, OwnsActiveAttempt
    <3>2. WithinBounds(claimed) BY <1>1, <1>4, <1>5, <3>1, BeginTaskWithin
    <3> QED BY <1>8, <3>2 DEF u, claimed
  <2>2. CASE ~MayBegin(claimed, w, t, m.attempt)
    <3>1. u = claimed BY <1>8, <2>2 DEF Begun
    <3> QED BY <1>4, <3>1 DEF u, claimed
  <2> QED BY <2>1, <2>2
<1> QED BY <1>3, <1>6, <1>7, <1>8

LEMMA StartGood ==
    ASSUME AttemptInv, NEW m, RequestShaped(m), WithinBounds(StartState(m))
    PROVE  Good(StartState(m)) /\ Serves(State, StartState(m))
<1> DEFINE claimed == ClaimAssignedTask(State, m.worker)
           begun == Begun(claimed, m.worker, m.task, m.attempt)
           u == StartState(m)
<1>1. m.worker \in Workers /\ m.task \in TaskIds BY DEF RequestShaped, Request
<1>2. Good(State) BY InvIsGood
<1>3. CASE u = State BY <1>2, <1>3, ServesReflexive
<1>4. CASE WithinBounds(claimed) /\ u \in {claimed, begun}
  <2>1. Good(claimed) /\ Serves(State, claimed) BY <1>1, <1>2, <1>4, ClaimGood
  <2> HIDE DEF claimed
  <2>2. Good(begun) /\ Serves(claimed, begun) BY <1>1, <2>1, BegunGood
  <2> HIDE DEF u, begun
  <2>3. Serves(State, begun) BY <2>1, <2>2, ServesTransitive
  <2> QED BY <1>4, <2>1, <2>2, <2>3 DEF u
<1> QED BY <1>3, <1>4, StartedFrom

(* The worker is given a task that is its own. *)
LEMMA BusyGood ==
    ASSUME NEW s, Good(s), NEW w \in Workers, NEW t \in RecoverableTasks(s, w)
    PROVE  LET u == [s EXCEPT !.workers[w] = Busy(s.workers[w], t)]
           IN Good(u) /\ Serves(s, u)
<1> DEFINE x == Busy(s.workers[w], t)
           u == [s EXCEPT !.workers[w] = x]
<1>1. /\ t \in TaskIds /\ s.tasks[t].worker = w
      /\ s.tasks[t].status \in {"assigned", "in_progress"}
  BY DEF RecoverableTasks
<1>2. Sound(s) /\ Ordered(s) /\ AttemptsGood(s) /\ s \in RuntimeState BY DEF Good, Sound
<1>3. x \in Worker /\ x.currentTask = t
  <2>1. s.workers[w] \in Worker BY <1>2 DEF RuntimeState
  <2>2. x \in Worker BY <1>1, <2>1, WorkerType
  <2> QED BY <2>1, <2>2 DEF Busy, Worker
<1> HIDE DEF x
<1>4. Sound(u) BY <1>2, <1>3, WorkerSound
<1>5. /\ u.tasks = s.tasks /\ u.assignments = s.assignments /\ u.reviews = s.reviews
      /\ u.taskAttempts = s.taskAttempts
      /\ \A v \in Workers : u.workers[v] = IF v = w THEN x ELSE s.workers[v]
  BY <1>2 DEF RuntimeState
<1> HIDE DEF u
<1>6. Follows(u) /\ Advances(s, u) BY <1>2, <1>5, KeptTasks DEF KeepsTasks, Ordered
<1>7. Ordered(u) BY <1>2, <1>6, AdvancesOrdered
<1>8. Owned(u) BY <1>1, <1>2, <1>3, <1>5 DEF AttemptsGood, Owned
<1>9. AttemptsGood(u) BY <1>2, <1>5, <1>8 DEF AttemptsGood, Fits
<1>10. Serves(s, u) BY <1>5 DEF Serves, PastKept, NoneSucceeds
<1> QED BY <1>4, <1>7, <1>9, <1>10 DEF Good, u, x

(* findTraeTaskForWorker *)
LEMMA FetchedFrom ==
    ASSUME AttemptInv, NEW w \in Workers, WithinBounds(FetchState(w))
    PROVE  LET claimed == ClaimAssignedTask(Known(State, w), w)
           IN /\ Good(Known(State, w)) /\ WithinBounds(claimed)
              /\ Good(claimed) /\ Serves(State, claimed)
              /\ FetchedTask(w) \in TaskIds \cup {NoTask}
              /\ \/ FetchState(w) = claimed
                 \/ \E t \in RecoverableTasks(claimed, w) :
                        FetchState(w) = [claimed EXCEPT !.workers[w] = Busy(claimed.workers[w], t)]
<1> DEFINE known == Known(State, w)
           claimed == ClaimAssignedTask(known, w)
           lost == RecoverableTasks(claimed, w)
           t == FetchedTask(w)
           u == FetchState(w)
           x == Busy(claimed.workers[w], t)
<1>1. Good(known) /\ Serves(State, known) BY InvIsGood, KnownGood
<1> HIDE DEF known
<1>2. claimed \in RuntimeState BY <1>1, ClaimAssignedTaskType DEF Good
<1>3. /\ t = IF ClaimedTask(known, w) # NoTask THEN ClaimedTask(known, w)
             ELSE IF lost # {} THEN FirstOf(lost) ELSE NoTask
      /\ u = IF t \in {NoTask, ClaimedTask(known, w), claimed.workers[w].currentTask} THEN claimed
             ELSE [claimed EXCEPT !.workers[w] = x]
  BY DEF FetchedTask, FetchState, known
<1>4. lost # {} => FirstOf(lost) \in lost BY FirstIsLeast, ConstantTypes DEF RecoverableTasks
<1> HIDE DEF claimed, lost, x
<1>5. WithinBounds(claimed)
  <2>1. u.taskAttempts = claimed.taskAttempts
    <3> HIDE DEF t
    <3> QED BY <1>2, <1>3 DEF RuntimeState
  <2>2. WithinBounds(u) OBVIOUS
  <2> QED BY <2>1, <2>2 DEF WithinBounds
<1>6. Good(claimed) /\ Serves(known, claimed) BY <1>1, <1>5, ClaimGood DEF claimed
<1>7. Serves(State, claimed) BY <1>1, <1>6, ServesTransitive
<1>8. ClaimedTask(known, w) \in TaskIds \cup {NoTask}
  BY <1>1, <1>5, ClaimedHasAttempt DEF claimed
<1> HIDE DEF t, u
<1>9. t \in TaskIds \cup {NoTask} BY <1>3, <1>4, <1>8 DEF lost, RecoverableTasks
<1>10. u = claimed \/ (t \in lost /\ u = [claimed EXCEPT !.workers[w] = x])
  BY <1>3, <1>4
<1> QED BY <1>1, <1>5, <1>6, <1>7, <1>9, <1>10 DEF known, claimed, lost, t, u, x

LEMMA FetchGood ==
    ASSUME AttemptInv, NEW w \in Workers, WithinBounds(FetchState(w))
    PROVE  /\ Good(FetchState(w)) /\ Serves(State, FetchState(w))
           /\ FetchedTask(w) \in TaskIds \cup {NoTask}
<1> DEFINE claimed == ClaimAssignedTask(Known(State, w), w)
           u == FetchState(w)
           y(t) == [claimed EXCEPT !.workers[w] = Busy(claimed.workers[w], t)]
<1>1. /\ Good(claimed) /\ Serves(State, claimed) /\ FetchedTask(w) \in TaskIds \cup {NoTask}
      /\ u = claimed \/ \E t \in RecoverableTasks(claimed, w) : u = y(t)
  BY FetchedFrom
<1> HIDE DEF claimed
<1>2. ASSUME NEW t \in RecoverableTasks(claimed, w) PROVE Good(y(t)) /\ Serves(State, y(t))
  <2>1. Good(y(t)) /\ Serves(claimed, y(t)) BY <1>1, BusyGood
  <2> HIDE DEF y
  <2> QED BY <1>1, <2>1, ServesTransitive
<1> HIDE DEF u, y
<1>3. Good(u) /\ Serves(State, u) BY <1>1, <1>2
<1> QED BY <1>1, <1>3 DEF u

(* What the session hands over is the worker's request. *)
LEMMA TraeStartProper ==
    ASSUME AttemptInv, Sent, NEW w \in Workers, TraeStartTask(w) \/ StartFails(w)
    PROVE  Proper
<1> DEFINE c == [client[w] EXCEPT !.pc = "running", !.run = FreshRun]
<1>1. At(w, "claimed") BY DEF TraeStartTask, StartFails
<1>2. RequestShaped(RequestOf(w)) BY <1>1, RequestOfShaped DEF Sent, At
<1>3. CASE TraeStartTask(w)
  <2> DEFINE u == StartState(RequestOf(w))
  <2>1. /\ WithinBounds(u) /\ Save(u) /\ UNCHANGED <<late, results, reported>>
        /\ Become(w, c) \/ Become(w, BootstrapFailed(w))
    BY <1>3 DEF TraeStartTask
  <2>2. Good(u) /\ Serves(State, u) BY <1>2, <2>1, StartGood
  <2> HIDE DEF u
  <2>3. AttemptInv' /\ Dispatched BY <2>1, <2>2, SavedServes
  <2>4. Launches(w) \/ FailsEarly(w) BY <1>1, <2>1 DEF Launches, FailsEarly, GiveUpOn
  <2> QED BY <2>3, <2>4 DEF Proper, Move, ProcessStep
<1>4. CASE StartFails(w)
  <2>1. AttemptInv' /\ Dispatched BY <1>4, StandsStill DEF StartFails
  <2>2. FailsEarly(w) BY <1>4 DEF StartFails, FailsEarly
  <2> QED BY <2>1, <2>2 DEF Proper, Move, ProcessStep
<1> QED BY <1>3, <1>4

LEMMA TraeSubmitProper ==
    ASSUME AttemptInv, Sent, NEW w \in Workers, TraeSubmitResult(w)
    PROVE  Proper
<1> DEFINE m == RequestOf(w)
<1>1. At(w, "submit") /\ client[w].pc = "submit" /\ UNCHANGED <<late, reported>>
  BY DEF TraeSubmitResult, At
<1>2. RequestShaped(m) /\ m.kind = "result" BY <1>1, RequestOfShaped DEF Sent
<1>3. SaveResult(m) \/ UNCHANGED <<vars, results>> BY DEF TraeSubmitResult
<1>4. Become(w, Undelivered(client[w])) \/ Become(w, Idle) BY DEF TraeSubmitResult, Refused
<1> HIDE DEF m
<1>5. AttemptInv' /\ Dispatched
  BY <1>1, <1>2, <1>3, SaveResultDispatched, StandsStill DEF m
<1>6. CASE Become(w, Undelivered(client[w]))
  BY <1>1, <1>5, <1>6, UndeliveredMoves DEF GiveUpOn, Proper
<1>7. CASE Become(w, Idle)
  <2>1. Leaves(w) BY <1>1, <1>7, ShapedPlaces DEF Leaves
  <2> QED BY <1>5, <2>1 DEF Proper, Move, ProcessStep
<1> QED BY <1>4, <1>6, <1>7

LEMMA TraeProper ==
    ASSUME AttemptInv, Sent, TraeNext
    PROVE  Proper
<1>1. Good(State) BY InvIsGood
<1>2. ASSUME NEW w \in Workers, Join(w) PROVE Proper
  <2> DEFINE u == Reconcile(RegisterWorker(State, w))
  <2>1. Good(u) /\ Serves(State, u) BY <1>1, RegisterGood
  <2>2. Save(u) /\ UNCHANGED <<late, results, reported>> BY <1>2 DEF Join
  <2>3. \E c : Shaped(c) /\ c.run = 0 /\ Become(w, c) BY <1>2, ShapedPlaces DEF Join
  <2> HIDE DEF u
  <2> QED BY <2>1, <2>2, <2>3, RequestProper
<1>3. ASSUME NEW w \in Workers, Fetch(w) PROVE Proper
  <2> DEFINE u == FetchState(w)
             t == FetchedTask(w)
  <2>1. WithinBounds(u) /\ Save(u) /\ UNCHANGED <<late, results, reported>> BY <1>3 DEF Fetch
  <2>2. Good(u) /\ Serves(State, u) /\ t \in TaskIds \cup {NoTask} BY <2>1, FetchGood
  <2>3. \/ Become(w, Idle)
        \/ t # NoTask /\ Become(w, Has(t, AttemptNoOrZero(u, t)))
    BY <1>3 DEF Fetch
  <2> HIDE DEF u, t
  <2>4. t # NoTask => AttemptNoOrZero(u, t) \in 0..AttemptBound BY <2>2, ActiveNoBound DEF Good
  <2>5. \E c : Shaped(c) /\ c.run = 0 /\ Become(w, c) BY <2>2, <2>3, <2>4, ShapedPlaces
  <2> QED BY <2>1, <2>2, <2>5, RequestProper
<1>4. ASSUME NEW w \in Workers, TraeBeat(w) PROVE Proper
  <2> DEFINE known == Known(State, w)
             u == HeartbeatState(w)
  <2>1. Good(known) /\ Serves(State, known) BY <1>1, KnownGood
  <2> HIDE DEF known
  <2>2. Good(u) /\ Serves(known, u) BY <2>1, HeartbeatGood DEF HeartbeatState, known
  <2>3. Serves(State, u) BY <2>1, <2>2, ServesTransitive
  <2>4. Save(u) /\ UNCHANGED <<client, late, results, reported>>
    BY <1>4 DEF TraeBeat, clientVars
  <2> HIDE DEF u
  <2>5. AttemptInv' /\ Dispatched BY <2>2, <2>3, <2>4, SavedServes
  <2> QED BY <2>4, <2>5 DEF Proper, Move, Pauses
<1>5. ASSUME NEW m \in late, TraeArrive(m) PROVE Proper
  <2>1. RequestShaped(m) BY DEF Sent
  <2>2. Forgets(m) BY <1>5 DEF TraeArrive, Forgets
  <2>3. CASE m.kind = "result"
    <3>1. SaveResult(m) BY <1>5, <2>3 DEF TraeArrive
    <3> QED BY <2>1, <2>2, <2>3, <3>1, SaveResultDispatched DEF Proper, Move
  <2>4. CASE m.kind # "result"
    <3> DEFINE u == StartState(m)
    <3>1. WithinBounds(u) /\ Save(u) /\ UNCHANGED results BY <1>5, <2>4 DEF TraeArrive
    <3>2. Good(u) /\ Serves(State, u) BY <2>1, <3>1, StartGood
    <3> HIDE DEF u
    <3> QED BY <2>2, <3>1, <3>2, SavedServes DEF Proper, Move
  <2> QED BY <2>3, <2>4
<1>6. ASSUME NEW w \in Workers, TraeStep(w) PROVE Proper
  BY <1>2, <1>3, <1>4, <1>6, CommonProper, TraeStartProper, TraeSubmitProper DEF TraeStep
<1> QED BY <1>5, <1>6, ElsewhereProper DEF TraeNext

LEMMA TraeInv == TraeSpec => []ClientsInv
<1>1. ClientsInv /\ [TraeNext]_allVars => ClientsInv'
  <2> SUFFICES ASSUME ClientsInv, [TraeNext]_allVars PROVE ClientsInv' OBVIOUS
  <2>1. AttemptInv /\ Sent BY DEF ClientsInv
  <2> QED BY <2>1, TraeProper, StutterProper, ClientsInvKept
<1> QED BY InitClientsInv, <1>1, PTL DEF TraeSpec

-----------------------------------------------------------------------------
(* The theorems about the Trae worker *)

(* The routes are a second way into the state machine, which registers,     *)
(* claims and hands out tasks by itself: the runtime state keeps what is    *)
(* proved of it under the handlers, and processes and network their types.  *)
THEOREM TraeKeepsDispatcher ==
    TraeSpec => [](/\ ClientTypeOK /\ TypeOK /\ AssignmentFollowsTask /\ AttemptFollowsTask
                   /\ CurrentTaskIsOwn /\ ReviewIsOfLatestAttempt /\ RetryBudget
                   /\ DependenciesMergedFirst)
BY TraeInv, ClientsInvSays, PTL

(* An attempt of a Trae worker that succeeded was executed under this very  *)
(* number, by its worker, and passed, although a result names no worker.    *)
THEOREM TraeSucceededWasReported == TraeSpec => []SucceededWasReported
<1>1. ClientsInv => SucceededWasReported BY DEF ClientsInv
<1> QED BY TraeInv, <1>1, PTL

LEMMA TraeAcknowledged ==
    ASSUME Sent, [TraeNext]_allVars
    PROVE  Acknowledged
<1>1. Down.pc # "idle" BY DEF Down
<1>2. CASE UNCHANGED allVars BY <1>2, AcknowledgedOf DEF allVars, clientVars
<1>3. CASE Elsewhere BY <1>3, AcknowledgedOf DEF Elsewhere, clientVars
<1>4. ASSUME NEW m \in late, TraeArrive(m) PROVE Acknowledged
  BY <1>4, AcknowledgedOf DEF TraeArrive
<1>5. ASSUME NEW w \in Workers, TraeStep(w) PROVE Acknowledged
  <2>1. CASE Join(w)
    <3>1. ~At(w, "submit") /\ \E c : Become(w, c) BY <2>1 DEF Join, At
    <3> QED BY <3>1, AcknowledgedOf
  <2>2. CASE Crash(w) BY <1>1, <2>2, AcknowledgedOf DEF Crash
  <2>3. CASE Fetch(w)
    <3>1. ~At(w, "submit") /\ \E c : Become(w, c) BY <2>3 DEF Fetch, At
    <3> QED BY <3>1, AcknowledgedOf
  <2>4. CASE TraeStartTask(w) \/ StartFails(w)
    <3>1. ~At(w, "submit") /\ \E c : Become(w, c) BY <2>4 DEF TraeStartTask, StartFails, At
    <3> QED BY <3>1, AcknowledgedOf
  <2>5. CASE TraeBeat(w) BY <2>5, AcknowledgedOf DEF TraeBeat, clientVars
  <2>6. CASE Execute(w)
    <3>1. Become(w, client'[w]) /\ At(w, "running") BY <2>6, ExecuteEffect
    <3> QED BY <3>1, AcknowledgedOf DEF At
  <2>7. CASE TraeSubmitResult(w)
    <3>1. At(w, "submit") /\ Shaped(client[w]) BY <2>7 DEF TraeSubmitResult, Sent
    <3>2. CASE Become(w, Undelivered(client[w]))
      BY <3>1, <3>2, UndeliveredIsNotIdle, AcknowledgedOf
    <3>3. CASE TraeAccepted(RequestOf(w)) /\ Become(w, Idle)
      <4>1. SaveResult(RequestOf(w)) /\ Accepted(RequestOf(w))
        BY <2>7, <3>3 DEF TraeSubmitResult, TraeAccepted, Accepted
      <4> QED BY <3>1, <3>3, <4>1, AcceptedIsStored, AcknowledgedOf
    <3> QED BY <2>7, <3>2, <3>3 DEF TraeSubmitResult, Refused
  <2>8. CASE SubmitUnheard(w)
    <3>1. At(w, "submit") /\ Shaped(client[w]) /\ Become(w, Undelivered(client[w]))
      BY <2>8 DEF SubmitUnheard, Sent
    <3> QED BY <3>1, UndeliveredIsNotIdle, AcknowledgedOf
  <2> QED BY <1>5, <2>1, <2>2, <2>3, <2>4, <2>5, <2>6, <2>7, <2>8 DEF TraeStep
<1> QED BY <1>2, <1>3, <1>4, <1>5 DEF TraeNext

(* A Trae worker releases its session and cleans its worktree up only when  *)
(* the result of this very execution is the one the dispatcher has.         *)
THEOREM TraeAcknowledgedIsRecorded == TraeSpec => AcknowledgedIsRecorded
<1>1. ClientsInv /\ [TraeNext]_allVars =>
      [\A w \in Workers : At(w, "submit") /\ client'[w].pc = "idle"
            => results'[client[w].task] = client[w].run]_allVars
  BY TraeAcknowledged DEF ClientsInv, Acknowledged
<1> QED BY TraeInv, <1>1, PTL DEF TraeSpec, AcknowledgedIsRecorded


-----------------------------------------------------------------------------
(* Exclusion: what the requests of a worker keep of the leases and of who   *)
(* works on what, whichever process sends them and however late they come   *)

LEMMA KeptReflexive ==
    ASSUME NEW s
    PROVE  Kept(s, s)
BY DEF Kept

LEMMA SavedKept ==
    ASSUME NEW u, Sound(u), Save(u), Kept(State, u)
    PROVE  Kept(State, State')
BY SavedState

LEMMA UnchangedKept ==
    ASSUME UNCHANGED vars
    PROVE  Kept(State, State')
<1>1. State' = State BY DEF vars, State
<1> QED BY <1>1, KeptReflexive

LEMMA BegunKept ==
    ASSUME NEW s, Good(s), NEW w \in Workers, NEW t \in TaskIds, NEW i
    PROVE  Kept(s, Begun(s, w, t, i))
<1>1. Sound(s) /\ AttemptsGood(s) BY DEF Good
<1>2. CASE MayBegin(s, w, t, i)
  <2>1. Begun(s, w, t, i) = BeginTask(s, w, t) BY <1>2 DEF Begun
  <2>2. Sound(BeginTask(s, w, t))
    BY <1>1, <1>2, BeginTaskSound DEF MayBegin, OwnsActiveAttempt
  <2> QED BY <1>1, <1>2, <2>1, <2>2, BeginTaskKept
<1>3. CASE ~MayBegin(s, w, t, i) BY <1>3, KeptReflexive DEF Begun
<1> QED BY <1>2, <1>3

LEMMA SaveResultKept ==
    ASSUME AttemptInv, NEW m, RequestShaped(m), m.kind = "result", SaveResult(m)
    PROVE  Kept(State, State')
<1>1. Sound(State) /\ AttemptsGood(State) BY AttemptInvFacts
<1>2. CASE Recordable(State, m)
  <2> DEFINE u == RecordResult(State, m.worker, m.task, m.verdict)
  <2>1. /\ m.worker \in Workers /\ m.task \in TaskIds
        /\ m.verdict \in {"passed", "recoverable", "unrecoverable"}
    BY DEF RequestShaped, Request, Verdicts
  <2>2. MayRecordResult(State, m.worker, m.task, m.attempt) BY <1>2 DEF Recordable
  <2>3. Sound(u) BY <1>1, <2>1, <2>2, RecordResultSound DEF MayRecordResult, OwnsActiveAttempt
  <2>4. Kept(State, u) BY <1>1, <2>1, <2>2, <2>3, RecordResultKept
  <2>5. Save(u) BY <1>2 DEF SaveResult
  <2> HIDE DEF u
  <2> QED BY <2>3, <2>4, <2>5, SavedKept
<1>3. CASE ~Recordable(State, m)
  <2>1. UNCHANGED vars BY <1>3 DEF SaveResult
  <2> QED BY <2>1, UnchangedKept
<1> QED BY <1>2, <1>3

(* What a step of the clients keeps: NextKept, of the dispatcher's steps. *)
LEMMA ElsewhereKept ==
    ASSUME AttemptInv, Elsewhere
    PROVE  KeptUnlessReleased
<1>1. [Next]_vars BY DEF Elsewhere, Next, WorkerRequest
<1> QED BY <1>1, NextKept

LEMMA DaemonStepKept ==
    ASSUME AttemptInv, Sent, NEW w \in Workers, DaemonStep(w)
    PROVE  Kept(State, State')
<1>1. Good(State) /\ Sound(State) /\ AttemptsGood(State) /\ Follows(State)
  BY InvIsGood DEF Good, Ordered
<1>2. CASE Enroll(w)
  <2>1. Save(Reconcile(RegisterWorker(State, w))) BY <1>2 DEF Enroll
  <2> QED BY <1>1, <2>1, RegistrationKept, SavedKept
<1>3. CASE Greet(w) \/ Beat(w)
  <2>1. Save(Reconcile(HeartbeatWorker(State, w))) BY <1>3 DEF Greet, Beat
  <2> QED BY <1>1, <2>1, BeatKept, SavedKept
<1>4. CASE ClaimTask(w)
  <2> DEFINE u == ClaimAssignedTask(State, w)
  <2>1. WithinBounds(u) /\ Save(u) BY <1>4 DEF ClaimTask, Claimed
  <2>2. Sound(u) BY <1>1, <2>1, ClaimGood DEF Good
  <2>3. Kept(State, u) BY <1>1, <2>2, ClaimAssignedTaskKept
  <2> HIDE DEF u
  <2> QED BY <2>1, <2>2, <2>3, SavedKept
<1>5. CASE StartTask(w)
  <2> DEFINE u == Begun(State, w, client[w].task, client[w].attempt)
  <2>1. At(w, "claimed") /\ Save(u) BY <1>5 DEF StartTask, RequestOf
  <2>2. client[w].task \in TaskIds BY <2>1 DEF Sent, Shaped, At
  <2>3. Good(u) BY <1>1, <2>2, BegunGood
  <2>4. Kept(State, u) BY <1>1, <2>2, BegunKept
  <2> HIDE DEF u
  <2> QED BY <2>1, <2>3, <2>4, SavedKept DEF Good
<1>6. CASE SubmitResult(w)
  <2>1. At(w, "submit") /\ client[w].pc = "submit" /\ SaveResult(RequestOf(w))
    BY <1>6 DEF SubmitResult, At
  <2>2. RequestShaped(RequestOf(w)) /\ RequestOf(w).kind = "result"
    BY <2>1, RequestOfShaped DEF Sent
  <2> QED BY <2>1, <2>2, SaveResultKept
<1>7. CASE Boot(w) \/ Crash(w) \/ Execute(w) \/ SubmitUnheard(w)
  BY <1>7, UnchangedKept DEF Boot, Crash, Execute, SubmitUnheard
<1> QED BY <1>2, <1>3, <1>4, <1>5, <1>6, <1>7 DEF DaemonStep, Cycle

LEMMA DaemonKept ==
    ASSUME AttemptInv, Sent, [DaemonNext]_allVars
    PROVE  KeptUnlessReleased
<1>1. ASSUME NEW w \in Workers, DaemonStep(w) PROVE KeptUnlessReleased
  BY <1>1, DaemonStepKept, KeptIsKept
<1>2. ASSUME NEW m \in late, Arrive(m) PROVE KeptUnlessReleased
  <2>1. RequestShaped(m) BY DEF Sent
  <2>2. CASE m.kind = "result"
    <3>1. SaveResult(m) BY <1>2, <2>2 DEF Arrive
    <3> QED BY <2>1, <2>2, <3>1, SaveResultKept, KeptIsKept
  <2>3. CASE m.kind # "result"
    <3> DEFINE u == Begun(State, m.worker, m.task, m.attempt)
    <3>1. Save(u) BY <1>2, <2>3 DEF Arrive
    <3>2. m.worker \in Workers /\ m.task \in TaskIds BY <2>1 DEF RequestShaped, Request
    <3>3. Good(u) /\ Kept(State, u) BY <3>2, InvIsGood, BegunGood, BegunKept
    <3> HIDE DEF u
    <3> QED BY <3>1, <3>3, SavedKept, KeptIsKept DEF Good
  <2> QED BY <2>2, <2>3
<1>3. CASE UNCHANGED allVars
  <2>1. UNCHANGED vars BY <1>3 DEF allVars, vars
  <2> QED BY <2>1, UnchangedKept, KeptIsKept
<1> QED BY <1>1, <1>2, <1>3, ElsewhereKept DEF DaemonNext


LEMMA ExclusionStarts == ClientInit => Last(State) /\ One(State) /\ Held(State)
BY InitKept DEF ClientInit

(* An attempt and its leases end together also when requests are lost, come *)
(* late or twice, and workers crash: no lease that the worker of a running  *)
(* attempt holds ends before the attempt.                                   *)
THEOREM DaemonLeasesOutlastAttempt == DaemonSpec => []LeasesOutlastAttempt
<1>1. ClientsInv => AttemptInv /\ Sent BY DEF ClientsInv
<1>2. AttemptInv /\ Sent /\ Last(State) /\ [DaemonNext]_allVars => Last(State)'
  BY DaemonKept, PrimedFacts DEF KeptUnlessReleased
<1> QED BY DaemonInv, LastIsOutlasting, ExclusionStarts, <1>1, <1>2, PTL DEF DaemonSpec

(* As long as no worker is enabled while it has a current task, a worker    *)
(* works on one task at a time, whatever its processes did before they      *)
(* crashed.                                                                 *)
THEOREM DaemonWorksOnOneTask ==
    DaemonSpec /\ [][~EnabledAtWork]_allVars => []OneTaskPerWorker
<1>1. ClientsInv => AttemptInv /\ Sent BY DEF ClientsInv
<1>2. ASSUME AttemptInv, Sent, One(State), [DaemonNext]_allVars, [~EnabledAtWork]_allVars
      PROVE  One(State)'
  <2>1. CASE ~EnabledAtWork
    BY <1>2, <2>1, DaemonKept, PrimedFacts DEF KeptUnlessReleased
  <2>2. CASE UNCHANGED allVars
    <3>1. State' = State BY <2>2 DEF allVars, vars, State
    <3> QED BY <1>2, <3>1, PrimedFacts
  <2> QED BY <1>2, <2>1, <2>2
<1> QED BY DaemonInv, OneIsOne, ExclusionStarts, <1>1, <1>2, PTL DEF DaemonSpec

(* A worker holds all leases of what it works on, and two workers never     *)
(* work in one repository, with every request of operators and every        *)
(* offline report that does not come while work goes on under it: no crash, *)
(* lost answer or late start or result of an earlier process breaks the     *)
(* exclusion.                                                               *)
THEOREM DaemonRepoIsExclusive ==
    DaemonSpec /\ [][~ReleasesUnderWork]_allVars => [](WorkHoldsLeases /\ RepoIsExclusive)
<1> DEFINE Inv == Last(State) /\ One(State) /\ Held(State)
<1>1. ClientsInv => AttemptInv /\ Sent BY DEF ClientsInv
<1>2. ClientInit => Inv BY ExclusionStarts
<1>3. ASSUME AttemptInv, Sent, Inv, [DaemonNext]_allVars, [~ReleasesUnderWork]_allVars
      PROVE  Inv'
  <2>1. CASE ~ReleasesUnderWork
    BY <1>3, <2>1, DaemonKept, PrimedFacts DEF KeptUnlessReleased, Kept
  <2>2. CASE UNCHANGED allVars
    <3>1. State' = State BY <2>2 DEF allVars, vars, State
    <3> QED BY <1>3, <3>1, PrimedFacts
  <2> QED BY <1>3, <2>1, <2>2
<1>4. AttemptInv /\ Inv => WorkHoldsLeases /\ RepoIsExclusive BY HeldIsHeld, HoldersAreApart
<1> HIDE DEF Inv
<1> QED BY DaemonInv, <1>1, <1>2, <1>3, <1>4, PTL DEF DaemonSpec

-----------------------------------------------------------------------------
(* The daemon and the lifecycle: with crashes, losses and late requests     *)
(* every step of the clients is a step of the runtime state                 *)

LEMMA DaemonSteps ==
    ASSUME ClientsInv, [DaemonNext]_allVars
    PROVE  Steps(State, State')
<1>1. AttemptInv /\ Sent BY DEF ClientsInv
<1> QED BY <1>1, DaemonProper, StutterProper

(* Attempts are an audit trail under the clients too: a late start or       *)
(* result changes no attempt that has ended, and none changes hands while   *)
(* it runs.                                                                 *)
THEOREM DaemonKeepsHistory == DaemonSpec => AttemptHistoryKept
<1>1. ClientsInv /\ [DaemonNext]_allVars =>
      [\A t \in TaskIds : \A i \in DOMAIN taskAttempts[t] :
            LET before == taskAttempts[t][i]
                after == taskAttempts'[t][i]
            IN /\ i \in DOMAIN taskAttempts'[t]
               /\ Terminal(before) => after = before
               /\ before.status = "running" => after.worker = before.worker]_vars
  BY DaemonSteps, StepsKeepHistory, HistoryIsKept DEF ClientsInv
<1> QED BY <1>1, DaemonInv, PTL DEF DaemonSpec, AttemptHistoryKept

(* The composition implements the lifecycle: whatever happens to processes  *)
(* and requests, every task goes through TaskLifecycle, step by step.       *)
THEOREM DaemonFollowsLifecycle == DaemonSpec => EveryTaskFollowsLifecycle
<1>1. ClientInit => NotHeld(State) /\ \A t \in TaskIds : Lifecycle(t)!Init
  BY LifecyclesStart DEF ClientInit, Init, NotHeld, State
<1>2. ClientsInv /\ NotHeld(State) /\ [DaemonNext]_allVars => NotHeld(State)'
  <2> SUFFICES ASSUME ClientsInv, NotHeld(State), [DaemonNext]_allVars PROVE NotHeld(State)'
    OBVIOUS
  <2>1. NotHeld(State') BY DaemonSteps, StepsNotHeld
  <2> QED BY <2>1 DEF NotHeld
<1>3. ClientsInv /\ ClientsInv' /\ NotHeld(State) /\ NotHeld(State)' /\ [DaemonNext]_allVars
        => [\A t \in TaskIds : [Lifecycle(t)!Next]_(Abstract(t))]_vars
  <2> SUFFICES ASSUME ClientsInv, ClientsInv', NotHeld(State), NotHeld(State)',
                      [DaemonNext]_allVars
               PROVE  \A t \in TaskIds : [Lifecycle(t)!Next]_(Abstract(t))
    OBVIOUS
  <2>1. Steps(State, State') BY DaemonSteps
  <2>2. LifecycleInv /\ LifecycleInv' BY DEF LifecycleInv, ClientsInv
  <2> QED BY <2>1, <2>2, StepsFollow
<1> QED BY <1>1, <1>2, <1>3, DaemonInv, PTL DEF DaemonSpec, EveryTaskFollowsLifecycle


-----------------------------------------------------------------------------
(* The routes of the Trae worker: a request may be two handlers at once, a  *)
(* claim and a start; attempts and leases end together all the same         *)

(* What a request leaves of the leases and of the attempts. *)
Careful(s, u) ==
    /\ Last(s) => Last(u)
    /\ \A t \in TaskIds : HistoryKept(s.taskAttempts[t], u.taskAttempts[t])

LEMMA StepCareful ==
    ASSUME NEW s, Good(s), NEW u, Steps(s, u), Kept(s, u)
    PROVE  Careful(s, u)
BY StepsGood DEF Good, Careful, Kept

LEMMA CarefulReflexive ==
    ASSUME NEW s
    PROVE  Careful(s, s)
BY DEF Careful, HistoryKept

(* Before or after it the attempts stay as they are. *)
LEMMA CarefulWith ==
    ASSUME NEW s, NEW u, NEW v, Last(s) => Last(u), Last(u) => Last(v),
           \/ u.taskAttempts = s.taskAttempts /\ Careful(u, v)
           \/ v.taskAttempts = u.taskAttempts /\ Careful(s, u)
    PROVE  Careful(s, v)
BY DEF Careful

LEMMA KnownSame ==
    ASSUME NEW s, Good(s), NEW w \in Workers
    PROVE  Known(s, w).taskAttempts = s.taskAttempts /\ Kept(s, Known(s, w))
<1>1. Sound(s) /\ s \in RuntimeState BY DEF Good, Sound
<1>2. RegisterWorker(s, w).taskAttempts = s.taskAttempts BY <1>1 DEF RegisterWorker, RuntimeState
<1>3. Kept(s, RegisterWorker(s, w)) BY <1>1, RegisterWorkerKept
<1> QED BY <1>2, <1>3, KeptReflexive DEF Known

LEMMA ClaimCareful ==
    ASSUME NEW s, Good(s), NEW w \in Workers, WithinBounds(ClaimAssignedTask(s, w))
    PROVE  Careful(s, ClaimAssignedTask(s, w))
<1> DEFINE u == ClaimAssignedTask(s, w)
<1>1. Sound(s) /\ AttemptsGood(s) /\ Follows(s) BY DEF Good, Ordered
<1>2. Good(u) /\ Steps(s, u) BY ClaimGood, QuietIsStep
<1>3. Kept(s, u) BY <1>1, <1>2, ClaimAssignedTaskKept DEF Good
<1> HIDE DEF u
<1> QED BY <1>2, <1>3, StepCareful DEF u

(* A task is handed out anew: only the worker's record changes. *)
LEMMA BusyCareful ==
    ASSUME NEW s, Good(s), NEW w \in Workers, NEW t
    PROVE  LET u == [s EXCEPT !.workers[w] = Busy(s.workers[w], t)]
           IN u.taskAttempts = s.taskAttempts /\ (Last(s) => Last(u))
<1> DEFINE u == [s EXCEPT !.workers[w] = Busy(s.workers[w], t)]
<1>1. /\ u.tasks = s.tasks /\ u.leases = s.leases /\ u.taskAttempts = s.taskAttempts
  BY DEF Good, Sound, RuntimeState
<1> HIDE DEF u
<1>2. Last(s) => Last(u)
  BY <1>1 DEF Last, LeasesLast, Engaged, TtlOf, ResourcesOf
<1> QED BY <1>1, <1>2 DEF u

LEMMA FetchCareful ==
    ASSUME AttemptInv, NEW w \in Workers, WithinBounds(FetchState(w))
    PROVE  Careful(State, FetchState(w))
<1> DEFINE known == Known(State, w)
           claimed == ClaimAssignedTask(known, w)
           u == FetchState(w)
<1>1. Good(State) BY InvIsGood
<1>2. /\ Good(known) /\ WithinBounds(claimed) /\ Good(claimed)
      /\ \/ u = claimed
         \/ \E t \in RecoverableTasks(claimed, w) :
                u = [claimed EXCEPT !.workers[w] = Busy(claimed.workers[w], t)]
  BY FetchedFrom
<1>3. known.taskAttempts = State.taskAttempts /\ (Last(State) => Last(known))
  BY <1>1, KnownSame DEF Kept
<1> HIDE DEF known
<1>4. Careful(known, claimed) BY <1>2, ClaimCareful
<1> HIDE DEF claimed
<1>5. Careful(State, claimed) BY <1>3, <1>4, CarefulWith DEF Careful
<1>6. u.taskAttempts = claimed.taskAttempts /\ (Last(claimed) => Last(u))
  <2> HIDE DEF u
  <2>1. CASE u = claimed BY <2>1
  <2>2. ASSUME NEW t, u = [claimed EXCEPT !.workers[w] = Busy(claimed.workers[w], t)]
        PROVE  u.taskAttempts = claimed.taskAttempts /\ (Last(claimed) => Last(u))
    BY <1>2, <2>2, BusyCareful
  <2> QED BY <1>2, <2>1, <2>2 DEF u
<1> HIDE DEF u
<1>7. Careful(State, u) BY <1>5, <1>6, CarefulWith DEF Careful
<1> QED BY <1>7 DEF u

(* A start changes the hands of no attempt. *)
LEMMA BegunHands ==
    ASSUME NEW s, Good(s), NEW w \in Workers, NEW t \in TaskIds, NEW i
    PROVE  \A v \in TaskIds : \A j \in DOMAIN s.taskAttempts[v] :
               Begun(s, w, t, i).taskAttempts[v][j].worker = s.taskAttempts[v][j].worker
<1> DEFINE u == Begun(s, w, t, i)
           seq == s.taskAttempts[t]
<1>1. CASE MayBegin(s, w, t, i)
  <2> DEFINE attempt == [Latest(seq) EXCEPT !.status = "running", !.ttl = LeaseTTL]
  <2>1. Begins(s, u, t) /\ KeepsAllBut(s, u, t)
    BY <1>1, BeginTaskBegins DEF Begun, Good
  <2> HIDE DEF u
  <2>2. seq \in Seq(Attempt) BY AttemptsType DEF Good
  <2>3. u.taskAttempts[t] = [seq EXCEPT ![Len(seq)] = attempt] BY <2>1 DEF Begins, WithLatest
  <2>4. attempt.worker = Latest(seq).worker /\ seq # <<>>
    BY <2>1, <2>2, LatestType DEF Begins, Ended, Attempt
  <2> HIDE DEF attempt
  <2>5. \A j \in DOMAIN seq : u.taskAttempts[t][j].worker = seq[j].worker
    BY <2>2, <2>3, <2>4 DEF Latest
  <2>6. \A v \in TaskIds \ {t} : u.taskAttempts[v] = s.taskAttempts[v]
    BY <2>1 DEF KeepsAllBut, Rests
  <2> QED BY <2>5, <2>6 DEF u
<1>2. CASE ~MayBegin(s, w, t, i) BY <1>2 DEF Begun
<1> QED BY <1>1, <1>2

LEMMA StartCareful ==
    ASSUME AttemptInv, NEW m, RequestShaped(m), WithinBounds(StartState(m))
    PROVE  Careful(State, StartState(m))
<1> DEFINE claimed == ClaimAssignedTask(State, m.worker)
           begun == Begun(claimed, m.worker, m.task, m.attempt)
           u == StartState(m)
<1>1. m.worker \in Workers /\ m.task \in TaskIds BY DEF RequestShaped, Request
<1>2. Good(State) BY InvIsGood
<1>3. CASE u = State BY <1>3, CarefulReflexive
<1>4. CASE WithinBounds(claimed) /\ u \in {claimed, begun}
  <2>1. Good(claimed) /\ Careful(State, claimed)
    BY <1>1, <1>2, <1>4, ClaimGood, ClaimCareful
  <2> HIDE DEF claimed
  <2>2. /\ Serves(claimed, begun) /\ Kept(claimed, begun)
        /\ \A t \in TaskIds : \A j \in DOMAIN claimed.taskAttempts[t] :
               begun.taskAttempts[t][j].worker = claimed.taskAttempts[t][j].worker
    BY <1>1, <2>1, BegunGood, BegunKept, BegunHands
  <2> HIDE DEF begun
  <2>3. Careful(State, begun)
    BY <2>1, <2>2 DEF Careful, Kept, HistoryKept, Serves, PastKept
  <2> HIDE DEF u
  <2> QED BY <1>4, <2>1, <2>3 DEF u
<1> QED BY <1>3, <1>4, StartedFrom


LEMMA SavedCareful ==
    ASSUME NEW u, Good(u), Save(u), Careful(State, u)
    PROVE  Careful(State, State')
BY SavedState DEF Good

LEMMA RestCareful ==
    ASSUME UNCHANGED vars
    PROVE  Careful(State, State')
<1>1. State' = State BY DEF vars, State
<1> QED BY <1>1, CarefulReflexive

LEMMA SaveResultCareful ==
    ASSUME AttemptInv, NEW m, RequestShaped(m), m.kind = "result", SaveResult(m),
           m \in late \/ \E w \in Workers : At(w, "submit") /\ m = RequestOf(w)
    PROVE  Careful(State, State')
<1>1. Steps(State, State') /\ Kept(State, State') BY SaveResultDispatched, SaveResultKept
<1> QED BY <1>1, InvIsGood, StepCareful

LEMMA TraeStepCareful ==
    ASSUME AttemptInv, Sent, NEW w \in Workers, TraeStep(w)
    PROVE  Careful(State, State')
<1>1. Good(State) BY InvIsGood
<1>2. CASE Join(w)
  <2> DEFINE u == Reconcile(RegisterWorker(State, w))
  <2>1. Good(u) /\ QuietSteps(State, u) /\ Kept(State, u)
    BY <1>1, RegisterGood, RegistrationKept DEF Good
  <2>2. Save(u) BY <1>2 DEF Join
  <2> HIDE DEF u
  <2> QED BY <1>1, <2>1, <2>2, QuietIsStep, StepCareful, SavedCareful
<1>3. CASE Fetch(w)
  <2> DEFINE u == FetchState(w)
  <2>1. WithinBounds(u) /\ Save(u) BY <1>3 DEF Fetch
  <2>2. Good(u) /\ Careful(State, u) BY <2>1, FetchGood, FetchCareful
  <2> HIDE DEF u
  <2> QED BY <2>1, <2>2, SavedCareful
<1>4. CASE TraeStartTask(w)
  <2> DEFINE m == RequestOf(w)
             u == StartState(m)
  <2>1. At(w, "claimed") /\ WithinBounds(u) /\ Save(u) BY <1>4 DEF TraeStartTask
  <2>2. RequestShaped(m) BY <2>1, RequestOfShaped DEF Sent, At
  <2> HIDE DEF m
  <2>3. Good(u) /\ Careful(State, u) BY <2>1, <2>2, StartGood, StartCareful
  <2> HIDE DEF u
  <2> QED BY <2>1, <2>3, SavedCareful
<1>5. CASE TraeBeat(w)
  <2> DEFINE known == Known(State, w)
             u == Reconcile(HeartbeatWorker(known, w))
  <2>1. Good(known) BY <1>1, KnownGood
  <2>2. known.taskAttempts = State.taskAttempts /\ (Last(State) => Last(known))
    BY <1>1, KnownSame DEF Kept
  <2>3. Save(u) BY <1>5 DEF TraeBeat, HeartbeatState
  <2> HIDE DEF known
  <2>4. Good(u) /\ QuietSteps(known, u) /\ Kept(known, u)
    BY <2>1, HeartbeatGood, BeatKept DEF Good
  <2> HIDE DEF u
  <2>5. Careful(known, u) BY <2>1, <2>4, QuietIsStep, StepCareful
  <2>6. Careful(State, u) BY <2>2, <2>5, CarefulWith DEF Careful
  <2> QED BY <2>3, <2>4, <2>6, SavedCareful
<1>6. CASE TraeSubmitResult(w)
  <2> DEFINE m == RequestOf(w)
  <2>1. /\ At(w, "submit") /\ client[w].pc = "submit"
        /\ SaveResult(m) \/ UNCHANGED vars
    BY <1>6 DEF TraeSubmitResult, At
  <2>2. RequestShaped(m) /\ m.kind = "result" BY <2>1, RequestOfShaped DEF Sent
  <2> HIDE DEF m
  <2>3. CASE SaveResult(m) BY <2>1, <2>2, <2>3, SaveResultCareful DEF m
  <2>4. CASE UNCHANGED vars BY <2>4, RestCareful
  <2> QED BY <2>1, <2>3, <2>4
<1>7. CASE Crash(w) \/ StartFails(w) \/ Execute(w) \/ SubmitUnheard(w)
  BY <1>7, RestCareful DEF Crash, StartFails, Execute, SubmitUnheard
<1> QED BY <1>2, <1>3, <1>4, <1>5, <1>6, <1>7 DEF TraeStep

LEMMA TraeCareful ==
    ASSUME AttemptInv, Sent, [TraeNext]_allVars
    PROVE  Careful(State, State')
<1>1. ASSUME NEW w \in Workers, TraeStep(w) PROVE Careful(State, State')
  BY <1>1, TraeStepCareful
<1>2. ASSUME NEW m \in late, TraeArrive(m) PROVE Careful(State, State')
  <2>1. RequestShaped(m) BY DEF Sent
  <2>2. CASE m.kind = "result"
    <3>1. SaveResult(m) BY <1>2, <2>2 DEF TraeArrive
    <3> QED BY <2>1, <2>2, <3>1, SaveResultCareful
  <2>3. CASE m.kind # "result"
    <3> DEFINE u == StartState(m)
    <3>1. WithinBounds(u) /\ Save(u) BY <1>2, <2>3 DEF TraeArrive
    <3>2. Good(u) /\ Careful(State, u) BY <2>1, <3>1, StartGood, StartCareful
    <3> HIDE DEF u
    <3> QED BY <3>1, <3>2, SavedCareful
  <2> QED BY <2>2, <2>3
<1>3. CASE Elsewhere
  <2>1. [Next]_vars BY <1>3 DEF Elsewhere, Next, WorkerRequest
  <2>2. \A t \in TaskIds : HistoryKept(State.taskAttempts[t], State'.taskAttempts[t])
    BY <2>1, NextSteps, StepsKeepHistory
  <2> QED BY <2>1, <2>2, NextKept DEF KeptUnlessReleased, Careful
<1>4. CASE UNCHANGED allVars
  <2>1. UNCHANGED vars BY <1>4 DEF allVars, vars
  <2> QED BY <2>1, RestCareful
<1> QED BY <1>1, <1>2, <1>3, <1>4 DEF TraeNext

(* Attempts are an audit trail under the routes too, which claim and start  *)
(* in one request.                                                          *)
THEOREM TraeKeepsHistory == TraeSpec => AttemptHistoryKept
<1>1. ClientsInv /\ [TraeNext]_allVars =>
      [\A t \in TaskIds : \A i \in DOMAIN taskAttempts[t] :
            LET before == taskAttempts[t][i]
                after == taskAttempts'[t][i]
            IN /\ i \in DOMAIN taskAttempts'[t]
               /\ Terminal(before) => after = before
               /\ before.status = "running" => after.worker = before.worker]_vars
  BY TraeCareful, HistoryIsKept DEF ClientsInv, Careful
<1> QED BY <1>1, TraeInv, PTL DEF TraeSpec, AttemptHistoryKept

(* No lease that a Trae worker holds for a running attempt ends before it,  *)
(* although a fetch writes the worker's current task by itself.             *)
THEOREM TraeLeasesOutlastAttempt == TraeSpec => []LeasesOutlastAttempt
<1>1. ClientsInv => AttemptInv /\ Sent BY DEF ClientsInv
<1>2. AttemptInv /\ Sent /\ Last(State) /\ [TraeNext]_allVars => Last(State)'
  BY TraeCareful, PrimedFacts DEF Careful
<1> QED BY TraeInv, LastIsOutlasting, ExclusionStarts, <1>1, <1>2, PTL DEF TraeSpec
=============================================================================
