---------------------- MODULE DispatcherAttemptProofs ----------------------
(***************************************************************************)
(* The attempts of a task agree with the task, their history is never      *)
(* rewritten, expiries are bounded and a review is of the latest attempt,  *)
(* for every number of workers and tasks, every dispatch and every         *)
(* timeout; and the dispatcher implements TaskLifecycle.                   *)
(*                                                                         *)
(* Every function of runtime-state.ts is first characterised by what it    *)
(* does to a task: the task rests, is requeued, expires, is claimed...     *)
(* (Rests, Requeues, Expires, Claims and so on).  What the moves mean for  *)
(* the invariant is then a question of one task, its attempts and its      *)
(* review, whatever the rest of the state is.                              *)
(***************************************************************************)
EXTENDS DispatcherProofs, DispatcherLifecycle

(* An attempt that has ended; nothing reads its expiry again. *)
Over(attempt) == Terminal(attempt) /\ attempt.ttl = 0

Ended(seq) == \A i \in DOMAIN seq : Over(seq[i])

Latest(seq) == seq[Len(seq)]

(* All attempts but the latest have ended, and that one has such a status. *)
LatestIs(seq, S) ==
    /\ seq # <<>> /\ Latest(seq).status \in S
    /\ \A i \in DOMAIN seq : i # Len(seq) => Over(seq[i])

Active == {"leased", "running", "checkpointed"}

Expiries(seq) == {i \in DOMAIN seq : seq[i].status = "expired"}

(* What the status of a task says of its attempts. *)
AttemptsFit(task, seq) ==
    /\ task.status = "absent" => seq = <<>>
    /\ task.status \in {"planned", "review", "merged", "blocked", "failed", "cancelled"} =>
         Ended(seq)
    /\ task.status \in {"ready", "assigned"} =>
         Ended(seq) \/ LatestIs(seq, {"leased", "checkpointed"})
    /\ task.status = "in_progress" =>
         LatestIs(seq, {"running"}) /\ Latest(seq).worker = task.worker
    /\ task.status = "waiting_for_input" =>
         \/ Ended(seq) /\ task.waitingAttempt = 0
         \/ LatestIs(seq, {"checkpointed"}) /\ task.waitingAttempt = Len(seq)

(* Expiring at the limit is the end of a task. *)
InBudget(task, seq) ==
    \A i \in Expiries(seq) : i >= MaxTaskAttempts => task.status = "failed" /\ i = Len(seq)

ReviewFits(task, seq, review) ==
    task.status \in {"review", "merged"} =>
        /\ seq # <<>> /\ Latest(seq).status = "succeeded" /\ review.material = Len(seq)
        /\ task.status = "merged" => review.decision = "merge" /\ review.reviewed = Len(seq)

TaskGood(task, seq, review) ==
    AttemptsFit(task, seq) /\ InBudget(task, seq) /\ ReviewFits(task, seq, review)

Fits(s, t) == TaskGood(s.tasks[t], s.taskAttempts[t], s.reviews[t])

(* What CurrentTaskIsOwn says of a state. *)
Owned(s) ==
    \A w \in Workers : s.workers[w].currentTask # NoTask =>
        LET task == s.tasks[s.workers[w].currentTask]
        IN task.worker = w /\ task.status \in {"assigned", "in_progress"}

AttemptsGood(s) == Owned(s) /\ \A t \in TaskIds : Fits(s, t)

(* How the attempts of a task may go on: ended ones stay, a running one     *)
(* stays or ends, and keeps its worker.                                     *)
Continues(seq, new) ==
    \A i \in DOMAIN seq :
        /\ i \in DOMAIN new
        /\ Over(seq[i]) => new[i] = seq[i]
        /\ seq[i].status = "running" =>
              new[i].worker = seq[i].worker /\ (new[i].status = "running" \/ Over(new[i]))

-----------------------------------------------------------------------------
(* Sequences of attempts *)

LEMMA AttemptsType ==
    ASSUME NEW s, Sound(s), NEW t \in TaskIds
    PROVE  s.taskAttempts[t] \in Seq(Attempt)
BY DEF Sound, RuntimeState

(* A task that has attempts has a latest one. *)
LEMMA LatestType ==
    ASSUME NEW seq \in Seq(Attempt), seq # <<>>
    PROVE  /\ Len(seq) \in Nat \ {0} /\ Len(seq) \in DOMAIN seq /\ DOMAIN seq = 1..Len(seq)
           /\ Latest(seq) \in Attempt
BY DEF Latest

(* The attempts that expired are counted by a natural number. *)
LEMMA ExpiriesCount ==
    ASSUME NEW seq \in Seq(Attempt)
    PROVE  /\ IsFiniteSet(Expiries(seq))
           /\ Cardinality(Expiries(seq)) \in Nat /\ Cardinality(Expiries(seq)) <= Len(seq)
<1>1. DOMAIN seq = 1..Len(seq) /\ Len(seq) \in Nat OBVIOUS
<1>2. IsFiniteSet(1..Len(seq)) /\ Cardinality(1..Len(seq)) = Len(seq) BY <1>1, FS_Interval
<1>3. Expiries(seq) \subseteq 1..Len(seq) BY <1>1 DEF Expiries
<1> QED BY <1>2, <1>3, FS_Subset, FS_CardinalityType

(* A latest attempt that is replaced. *)
LEMMA ReplaceLatest ==
    ASSUME NEW seq \in Seq(Attempt), seq # <<>>, NEW attempt \in Attempt
    PROVE  LET new == [seq EXCEPT ![Len(seq)] = attempt]
           IN /\ new \in Seq(Attempt) /\ new # <<>> /\ Len(new) = Len(seq)
              /\ DOMAIN new = DOMAIN seq /\ Latest(new) = attempt
              /\ \A i \in DOMAIN seq : i # Len(seq) => new[i] = seq[i]
BY LatestType DEF Latest

(* It expires, or none does. *)
LEMMA ReplaceLatestExpiries ==
    ASSUME NEW seq \in Seq(Attempt), seq # <<>>, NEW attempt \in Attempt,
           Latest(seq).status # "expired"
    PROVE  LET new == [seq EXCEPT ![Len(seq)] = attempt]
           IN /\ attempt.status # "expired" => Expiries(new) = Expiries(seq)
              /\ Expiries(new) \subseteq Expiries(seq) \cup {Len(seq)}
              /\ Cardinality(Expiries(new)) <= 1 + Cardinality(Expiries(seq))
              /\ attempt.status = "expired" =>
                    Cardinality(Expiries(new)) = 1 + Cardinality(Expiries(seq))
<1> DEFINE new == [seq EXCEPT ![Len(seq)] = attempt]
           n == Len(seq)
<1>1. /\ DOMAIN new = DOMAIN seq /\ n \in DOMAIN seq /\ new[n] = attempt
      /\ \A i \in DOMAIN seq : i # n => new[i] = seq[i]
  BY LatestType, ReplaceLatest DEF Latest
<1>2. seq[n].status # "expired" BY DEF Latest
<1>3. IsFiniteSet(Expiries(seq)) /\ Cardinality(Expiries(seq)) \in Nat BY ExpiriesCount
<1> HIDE DEF new, n
<1>4. n \notin Expiries(seq) BY <1>2 DEF Expiries
<1>5. CASE attempt.status = "expired"
  <2>1. Expiries(new) = Expiries(seq) \cup {n} BY <1>1, <1>5 DEF Expiries
  <2>2. Cardinality(Expiries(new)) = Cardinality(Expiries(seq)) + 1
    BY <1>3, <1>4, <2>1, FS_AddElement
  <2>3. Expiries(new) \subseteq Expiries(seq) \cup {n} BY <2>1
  <2>4. Cardinality(Expiries(new)) <= 1 + Cardinality(Expiries(seq)) BY <1>3, <2>2
  <2>5. Cardinality(Expiries(new)) = 1 + Cardinality(Expiries(seq)) BY <1>3, <2>2
  <2> QED BY <1>5, <2>3, <2>4, <2>5 DEF new, n
<1>6. CASE attempt.status # "expired"
  <2>1. Expiries(new) = Expiries(seq) BY <1>1, <1>2, <1>6 DEF Expiries
  <2>2. Cardinality(Expiries(new)) <= 1 + Cardinality(Expiries(seq)) BY <1>3, <2>1
  <2>3. Expiries(new) \subseteq Expiries(seq) \cup {n} BY <2>1
  <2> QED BY <1>6, <2>1, <2>2, <2>3 DEF new, n
<1> QED BY <1>5, <1>6

(* A latest attempt that is added. *)
LEMMA AppendLatest ==
    ASSUME NEW seq \in Seq(Attempt), NEW attempt \in Attempt, attempt.status # "expired"
    PROVE  LET new == Append(seq, attempt)
           IN /\ new \in Seq(Attempt) /\ new # <<>> /\ Len(new) = Len(seq) + 1
              /\ Latest(new) = attempt
              /\ \A i \in DOMAIN seq : i \in DOMAIN new /\ new[i] = seq[i]
              /\ \A i \in DOMAIN new : i # Len(new) => i \in DOMAIN seq
              /\ Expiries(new) = Expiries(seq)
<1> DEFINE new == Append(seq, attempt)
<1>1. /\ new \in Seq(Attempt) /\ Len(new) = Len(seq) + 1 /\ Len(seq) \in Nat
      /\ new[Len(seq) + 1] = attempt /\ \A i \in 1..Len(seq) : new[i] = seq[i]
      /\ DOMAIN new = 1..(Len(seq) + 1) /\ DOMAIN seq = 1..Len(seq)
  OBVIOUS
<1> HIDE DEF new
<1>2. new # <<>> BY <1>1
<1>3. \A i \in DOMAIN new : i # Len(new) => i \in DOMAIN seq BY <1>1
<1>4. Expiries(new) = Expiries(seq) BY <1>1, <1>3 DEF Expiries
<1> QED BY <1>1, <1>2, <1>3, <1>4 DEF new, Latest

-----------------------------------------------------------------------------
(* The active attempt *)

(* The attempt that findActiveTaskAttempt finds is the latest. *)
LEMMA ActiveIsLatest ==
    ASSUME NEW s, Sound(s), NEW t \in TaskIds, LatestIs(s.taskAttempts[t], Active)
    PROVE  /\ ActiveAttempts(s, t) = {Len(s.taskAttempts[t])} /\ HasActiveAttempt(s, t)
           /\ ActiveNo(s, t) = Len(s.taskAttempts[t])
           /\ ActiveAttempt(s, t) = Latest(s.taskAttempts[t])
<1> DEFINE seq == s.taskAttempts[t]
<1>1. seq \in Seq(Attempt) /\ seq # <<>> BY AttemptsType DEF LatestIs
<1>2. Len(seq) \in DOMAIN seq /\ Len(seq) \in Nat BY <1>1, LatestType
<1>3. ~Terminal(seq[Len(seq)]) BY DEF LatestIs, Latest, Active, Terminal
<1>4. \A i \in DOMAIN seq : i # Len(seq) => Terminal(seq[i]) BY DEF LatestIs, Over
<1>5. ActiveAttempts(s, t) = {Len(seq)} BY <1>2, <1>3, <1>4 DEF ActiveAttempts
<1>6. HasActiveAttempt(s, t) BY <1>5 DEF HasActiveAttempt
<1>7. ActiveNo(s, t) = Len(seq)
  <2>1. ActiveNo(s, t) = FirstOf(ActiveAttempts(s, t)) BY DEF ActiveNo, FirstOf
  <2>2. FirstOf(ActiveAttempts(s, t)) \in ActiveAttempts(s, t) BY <1>2, <1>5, FirstIsLeast
  <2> QED BY <1>5, <2>1, <2>2
<1> QED BY <1>5, <1>6, <1>7 DEF ActiveAttempt, Latest

(* A task whose attempts have ended has none. *)
LEMMA EndedHasNone ==
    ASSUME NEW s, NEW t, Ended(s.taskAttempts[t])
    PROVE  ActiveAttempts(s, t) = {} /\ ~HasActiveAttempt(s, t)
BY DEF Ended, Over, ActiveAttempts, HasActiveAttempt

(* The statuses in which a task may have an active attempt. *)
LEMMA AttemptOpen ==
    ASSUME NEW s, Sound(s), NEW t \in TaskIds, Fits(s, t)
    PROVE  \/ Ended(s.taskAttempts[t]) /\ ~HasActiveAttempt(s, t)
           \/ /\ LatestIs(s.taskAttempts[t], Active) /\ HasActiveAttempt(s, t)
              /\ s.tasks[t].status \in {"ready", "assigned", "in_progress", "waiting_for_input"}
<1> DEFINE seq == s.taskAttempts[t]
<1>1. s.tasks[t].status \in {"absent", "planned", "ready", "assigned", "in_progress", "review",
                   "merged", "blocked", "failed", "cancelled", "waiting_for_input"}
  BY DEF Sound, RuntimeState, Task
<1>2. Ended(<<>>) BY DEF Ended
<1>3. \A S \in SUBSET Active : LatestIs(seq, S) => LatestIs(seq, Active) BY DEF LatestIs
<1>4. LatestIs(seq, {"leased", "checkpointed"}) \/ LatestIs(seq, {"running"})
         \/ LatestIs(seq, {"checkpointed"}) => LatestIs(seq, Active)
  BY DEF LatestIs, Active
<1> HIDE DEF seq
<1>5. \/ Ended(seq)
      \/ /\ LatestIs(seq, Active)
         /\ s.tasks[t].status \in {"ready", "assigned", "in_progress", "waiting_for_input"}
  BY <1>1, <1>2, <1>4 DEF Fits, TaskGood, AttemptsFit, seq
<1> QED BY <1>5, ActiveIsLatest, EndedHasNone DEF seq

-----------------------------------------------------------------------------
(* What a function does to one task *)

(* Nothing. *)
Rests(s, u, t) ==
    /\ u.tasks[t] = s.tasks[t] /\ u.taskAttempts[t] = s.taskAttempts[t]
    /\ u.reviews[t] = s.reviews[t]

(* The task is queued: its dependencies are merged, or its worker is lost. *)
Requeues(s, u, t) ==
    /\ s.tasks[t].status \in {"planned", "assigned"}
    /\ u.tasks[t].status = "ready" /\ u.tasks[t].worker = None
    /\ u.taskAttempts[t] = s.taskAttempts[t] /\ u.reviews[t] = s.reviews[t]

WithLatest(seq, attempt) == [seq EXCEPT ![Len(seq)] = attempt]

EndLatest(seq, status) ==
    IF Ended(seq) THEN seq
    ELSE WithLatest(seq, [Latest(seq) EXCEPT !.status = status, !.ttl = 0])

(* Its attempt expires; the task is queued again, or fails. *)
Expires(s, u, t) ==
    /\ s.tasks[t].status = "in_progress"
    /\ u.taskAttempts[t] = EndLatest(s.taskAttempts[t], "expired")
    /\ u.reviews[t] = s.reviews[t]
    /\ IF Len(s.taskAttempts[t]) < MaxTaskAttempts
       THEN u.tasks[t].status = "ready" /\ u.tasks[t].worker = None
       ELSE u.tasks[t].status = "failed" /\ u.tasks[t].worker = s.tasks[t].worker

CleansUp(s, u, t) == Rests(s, u, t) \/ Requeues(s, u, t) \/ Expires(s, u, t)

(* The attempt of a claim: the next one, or the open one taken over. *)
Taken(seq, w) ==
    IF Ended(seq) THEN Append(seq, [worker |-> w, status |-> "leased", ttl |-> LeaseTTL])
    ELSE WithLatest(seq, [worker |-> w,
                          status |-> IF Latest(seq).status = "checkpointed" THEN "leased"
                                     ELSE Latest(seq).status,
                          ttl |-> LeaseTTL])

Claims(s, u, t, w) ==
    /\ \/ /\ s.tasks[t].status = "ready"
          /\ u.tasks[t].status = "assigned" /\ u.tasks[t].worker = w
       \/ /\ s.tasks[t].status \in {"assigned", "in_progress"} /\ s.tasks[t].worker = w
          /\ u.tasks[t] = s.tasks[t]
    /\ u.taskAttempts[t] = Taken(s.taskAttempts[t], w)
    /\ u.reviews[t] = s.reviews[t]

(* Expiries of the attempts move, and no more. *)
Refreshes(s, u, t) ==
    /\ u.tasks[t].status = s.tasks[t].status /\ u.tasks[t].worker = s.tasks[t].worker
    /\ u.tasks[t].waitingAttempt = s.tasks[t].waitingAttempt
    /\ u.reviews[t] = s.reviews[t]
    /\ Len(u.taskAttempts[t]) = Len(s.taskAttempts[t])
    /\ \A i \in DOMAIN s.taskAttempts[t] :
        /\ u.taskAttempts[t][i].status = s.taskAttempts[t][i].status
        /\ u.taskAttempts[t][i].worker = s.taskAttempts[t][i].worker
        /\ Over(s.taskAttempts[t][i]) => u.taskAttempts[t][i] = s.taskAttempts[t][i]

(* The task's worker starts the open attempt. *)
Begins(s, u, t) ==
    /\ s.tasks[t].status = "assigned" /\ ~Ended(s.taskAttempts[t])
    /\ Latest(s.taskAttempts[t]).worker = s.tasks[t].worker
    /\ u.tasks[t].status = "in_progress" /\ u.tasks[t].worker = s.tasks[t].worker
    /\ u.taskAttempts[t] = WithLatest(s.taskAttempts[t],
            [Latest(s.taskAttempts[t]) EXCEPT !.status = "running", !.ttl = LeaseTTL])
    /\ u.reviews[t] = s.reviews[t]

(* It delivers the result of the open attempt. *)
Delivers(s, u, t) ==
    /\ s.tasks[t].status \in {"assigned", "in_progress"} /\ ~Ended(s.taskAttempts[t])
    /\ u.tasks[t].worker = s.tasks[t].worker
    /\ \/ /\ u.tasks[t].status = "review"
          /\ u.taskAttempts[t] = EndLatest(s.taskAttempts[t], "succeeded")
          /\ u.reviews[t].material = Len(s.taskAttempts[t])
       \/ /\ u.tasks[t].status = "failed"
          /\ u.taskAttempts[t] = EndLatest(s.taskAttempts[t], "failed")

(* A reviewer who read the delivery decides. *)
Decides(s, u, t) ==
    /\ s.tasks[t].status = "review"
    /\ u.taskAttempts[t] = s.taskAttempts[t] /\ u.tasks[t].worker = s.tasks[t].worker
    /\ u.reviews[t].material = s.reviews[t].material
    /\ \/ /\ u.tasks[t].status = "merged" /\ u.reviews[t].decision = "merge"
          /\ u.reviews[t].reviewed = s.reviews[t].material
       \/ u.tasks[t].status = "blocked"

(* The open attempt is parked under the number its resumption presents. *)
Asks(s, u, t) ==
    /\ s.tasks[t].status \in {"ready", "assigned", "in_progress", "blocked"}
    /\ u.tasks[t].status = "waiting_for_input" /\ u.tasks[t].worker = None
    /\ u.reviews[t] = s.reviews[t]
    /\ IF Ended(s.taskAttempts[t])
       THEN u.tasks[t].waitingAttempt = 0 /\ u.taskAttempts[t] = s.taskAttempts[t]
       ELSE /\ u.tasks[t].waitingAttempt = Len(s.taskAttempts[t])
            /\ u.taskAttempts[t] = WithLatest(s.taskAttempts[t],
                    [Latest(s.taskAttempts[t]) EXCEPT !.status = "checkpointed"])

Resumes(s, u, t) ==
    /\ s.tasks[t].status = "waiting_for_input"
    /\ u.tasks[t].status = "ready" /\ u.tasks[t].worker = None
    /\ u.taskAttempts[t] = s.taskAttempts[t] /\ u.reviews[t] = s.reviews[t]

Cancels(s, u, t) ==
    /\ s.tasks[t].status \notin Final \cup {"absent"}
    /\ u.tasks[t].status = "cancelled" /\ u.tasks[t].worker = s.tasks[t].worker
    /\ u.taskAttempts[t] = EndLatest(s.taskAttempts[t], "cancelled")

(* A task is dispatched to a worker, or to nobody. *)
Creates(s, u, t) ==
    /\ s.tasks[t].status = "absent"
    /\ \/ u.tasks[t].status \in {"planned", "ready"} /\ u.tasks[t].worker = None
       \/ u.tasks[t].status = "assigned" /\ u.tasks[t].worker \in Workers
    /\ u.taskAttempts[t] = s.taskAttempts[t]

-----------------------------------------------------------------------------
(* What the moves mean for the attempts *)

EndStatuses == {"succeeded", "failed", "expired", "cancelled"}

(* Ends the open attempt, if there is one. *)
LEMMA EndLatestKeeps ==
    ASSUME NEW seq \in Seq(Attempt), Ended(seq) \/ LatestIs(seq, Active), NEW status \in EndStatuses
    PROVE  LET new == EndLatest(seq, status)
           IN /\ new \in Seq(Attempt) /\ Ended(new) /\ Len(new) = Len(seq) /\ Continues(seq, new)
              /\ status # "expired" => Expiries(new) = Expiries(seq)
              /\ Expiries(new) \subseteq Expiries(seq) \cup {Len(seq)}
              /\ Cardinality(Expiries(new)) <= 1 + Cardinality(Expiries(seq))
              /\ ~Ended(seq) => new # <<>> /\ Latest(new).status = status
              /\ ~Ended(seq) /\ status = "expired" =>
                    Cardinality(Expiries(new)) = 1 + Cardinality(Expiries(seq))
<1>1. CASE Ended(seq)
  <2>1. Continues(seq, seq) BY <1>1 DEF Continues, Ended, Over, Terminal
  <2>2. Cardinality(Expiries(seq)) \in Nat BY ExpiriesCount
  <2> QED BY <1>1, <2>1, <2>2 DEF EndLatest
<1>2. CASE ~Ended(seq)
  <2> DEFINE attempt == [Latest(seq) EXCEPT !.status = status, !.ttl = 0]
             new == WithLatest(seq, attempt)
             n == Len(seq)
  <2>1. LatestIs(seq, Active) /\ seq # <<>> BY <1>2 DEF LatestIs
  <2>2. Latest(seq) \in Attempt /\ Latest(seq).status # "expired" /\ n \in DOMAIN seq
    BY <2>1, LatestType DEF LatestIs, Active
  <2>3. attempt \in Attempt /\ attempt.status = status /\ Over(attempt)
    BY <2>2, ConstantTypes DEF Attempt, EndStatuses, Over, Terminal
  <2> HIDE DEF attempt
  <2>4. /\ new \in Seq(Attempt) /\ new # <<>> /\ Len(new) = n /\ DOMAIN new = DOMAIN seq
        /\ Latest(new) = attempt /\ \A i \in DOMAIN seq : i # n => new[i] = seq[i]
    BY <2>1, <2>3, ReplaceLatest DEF WithLatest
  <2>5. /\ status # "expired" => Expiries(new) = Expiries(seq)
        /\ Expiries(new) \subseteq Expiries(seq) \cup {Len(seq)}
        /\ Cardinality(Expiries(new)) <= 1 + Cardinality(Expiries(seq))
        /\ status = "expired" => Cardinality(Expiries(new)) = 1 + Cardinality(Expiries(seq))
    BY <2>1, <2>2, <2>3, ReplaceLatestExpiries DEF WithLatest
  <2>6. EndLatest(seq, status) = new BY <1>2 DEF EndLatest, attempt
  <2> HIDE DEF new, n
  <2>7. \A i \in DOMAIN seq : i # n => Over(seq[i]) BY <2>1 DEF LatestIs, n
  <2>8. new[n] = attempt BY <2>4 DEF Latest, n
  <2>9. Ended(new) BY <2>3, <2>4, <2>7, <2>8 DEF Ended
  <2>10. ~Terminal(seq[n]) BY <2>1 DEF LatestIs, Latest, Active, Terminal, n
  <2>11. attempt.worker = seq[n].worker
    BY <2>2 DEF attempt, Latest, n, Attempt
  <2>12. Continues(seq, new)
    BY <2>2, <2>3, <2>4, <2>7, <2>8, <2>10, <2>11 DEF Continues, Over, Terminal
  <2> QED BY <1>2, <2>3, <2>4, <2>5, <2>6, <2>9, <2>12 DEF n
<1> QED BY <1>1, <1>2

(* Goes on with it in another active status; a running one runs on. *)
LEMMA WithLatestKeeps ==
    ASSUME NEW seq \in Seq(Attempt), LatestIs(seq, Active), NEW attempt \in Attempt,
           attempt.status \in Active
    PROVE  LET new == WithLatest(seq, attempt)
           IN /\ new \in Seq(Attempt) /\ LatestIs(new, {attempt.status}) /\ Len(new) = Len(seq)
              /\ Latest(new) = attempt /\ Expiries(new) = Expiries(seq)
              /\ \A i \in DOMAIN seq : i \in DOMAIN new /\ (i # Len(seq) => new[i] = seq[i])
              /\ (Latest(seq).status = "running" =>
                    attempt.status = "running" /\ attempt.worker = Latest(seq).worker)
                 => Continues(seq, new)
<1> DEFINE new == WithLatest(seq, attempt)
           n == Len(seq)
<1>1. seq # <<>> /\ Latest(seq).status # "expired" /\ attempt.status # "expired"
  BY DEF LatestIs, Active
<1>2. n \in DOMAIN seq BY <1>1, LatestType
<1>3. /\ new \in Seq(Attempt) /\ new # <<>> /\ Len(new) = n /\ DOMAIN new = DOMAIN seq
      /\ Latest(new) = attempt /\ \A i \in DOMAIN seq : i # n => new[i] = seq[i]
  BY <1>1, ReplaceLatest DEF WithLatest
<1>4. Expiries(new) = Expiries(seq) BY <1>1, ReplaceLatestExpiries DEF WithLatest
<1> HIDE DEF new, n
<1>5. \A i \in DOMAIN seq : i # n => Over(seq[i]) BY DEF LatestIs, n
<1>6. LatestIs(new, {attempt.status}) BY <1>3, <1>5 DEF LatestIs
<1>7. new[n] = attempt /\ seq[n] = Latest(seq) BY <1>3 DEF Latest, n
<1>8. ~Terminal(seq[n]) BY <1>7 DEF LatestIs, Active, Terminal
<1>9. (Latest(seq).status = "running" =>
            attempt.status = "running" /\ attempt.worker = Latest(seq).worker)
      => Continues(seq, new)
  BY <1>3, <1>5, <1>7, <1>8 DEF Continues, Over, Terminal
<1> QED BY <1>2, <1>3, <1>4, <1>6, <1>9 DEF new, n

(* What one function leaves the next continues. *)
LEMMA ContinuesTransitive ==
    ASSUME NEW seq, NEW mid, NEW new, Continues(seq, mid), Continues(mid, new)
    PROVE  Continues(seq, new)
BY DEF Continues

(* Nothing at all continues the attempts. *)
LEMMA ContinuesReflexive ==
    ASSUME NEW seq
    PROVE  Continues(seq, seq)
BY DEF Continues

(* The attempts and the review of a task stay good. *)
KeepsGood(s, u, t) ==
    Fits(u, t) /\ Continues(s.taskAttempts[t], u.taskAttempts[t])

(* As long as nothing expires the budget is kept, and what has failed stays so. *)
LEMMA SameExpiries ==
    ASSUME NEW task, NEW seq, NEW other, NEW new, InBudget(task, seq),
           Expiries(new) = Expiries(seq),
           task.status = "failed" => other.status = "failed" /\ Len(new) = Len(seq)
    PROVE  InBudget(other, new)
BY DEF InBudget

(* A task that rests. *)
LEMMA RestsGood ==
    ASSUME NEW s, NEW u, NEW t, Fits(s, t), Rests(s, u, t)
    PROVE  KeepsGood(s, u, t)
BY ContinuesReflexive DEF Fits, Rests, KeepsGood

(* A task that is queued with the attempts it has. *)
LEMMA RequeuesGood ==
    ASSUME NEW s, NEW u, NEW t, Fits(s, t), Requeues(s, u, t)
    PROVE  KeepsGood(s, u, t)
<1> DEFINE task == s.tasks[t]
           seq == s.taskAttempts[t]
<1>1. Ended(seq) \/ LatestIs(seq, {"leased", "checkpointed"})
  BY DEF Fits, TaskGood, AttemptsFit, Requeues
<1>2. AttemptsFit(u.tasks[t], u.taskAttempts[t]) BY <1>1 DEF AttemptsFit, Requeues
<1>3. InBudget(u.tasks[t], u.taskAttempts[t]) BY SameExpiries DEF Fits, TaskGood, Requeues
<1>4. ReviewFits(u.tasks[t], u.taskAttempts[t], u.reviews[t]) BY DEF ReviewFits, Requeues
<1> QED BY <1>2, <1>3, <1>4, ContinuesReflexive DEF Fits, TaskGood, KeepsGood, Requeues

(* A running attempt that expires: it is the latest, and its task is queued *)
(* again only below MaxTaskAttempts.                                        *)
LEMMA ExpiresGood ==
    ASSUME NEW s, Sound(s), NEW u, NEW t \in TaskIds, Fits(s, t), Expires(s, u, t)
    PROVE  KeepsGood(s, u, t)
<1> DEFINE seq == s.taskAttempts[t]
           new == EndLatest(seq, "expired")
<1>1. seq \in Seq(Attempt) BY AttemptsType
<1>2. LatestIs(seq, {"running"}) BY DEF Fits, TaskGood, AttemptsFit, Expires
<1>3. LatestIs(seq, Active) /\ ~Ended(seq)
  <2>1. Len(seq) \in DOMAIN seq BY <1>1, <1>2, LatestType DEF LatestIs
  <2>2. ~Terminal(seq[Len(seq)]) BY <1>2 DEF LatestIs, Latest, Terminal
  <2> QED BY <1>2, <2>1, <2>2 DEF LatestIs, Active, Ended, Over
<1>4. "expired" \in EndStatuses BY DEF EndStatuses
<1>5. /\ Ended(new) /\ Len(new) = Len(seq) /\ Continues(seq, new) /\ new \in Seq(Attempt)
      /\ Expiries(new) \subseteq Expiries(seq) \cup {Len(seq)}
  BY <1>1, <1>3, <1>4, EndLatestKeeps
<1>6. Len(seq) \in Nat /\ MaxTaskAttempts \in Nat BY <1>1, DispatcherAssumption
<1>7. u.taskAttempts[t] = new BY DEF Expires
<1> HIDE DEF new
<1>8. AttemptsFit(u.tasks[t], new) BY <1>5 DEF AttemptsFit, Expires
<1>9. \A i \in Expiries(seq) : ~(i >= MaxTaskAttempts)
  BY DEF Fits, TaskGood, InBudget, Expires
<1>10. InBudget(u.tasks[t], new)
  <2>1. ASSUME NEW i \in Expiries(new), i >= MaxTaskAttempts
        PROVE  u.tasks[t].status = "failed" /\ i = Len(new)
    <3>1. i = Len(seq) BY <1>5, <1>9, <2>1
    <3>2. ~(Len(seq) < MaxTaskAttempts) BY <1>6, <2>1, <3>1
    <3> QED BY <1>5, <3>1, <3>2 DEF Expires
  <2> QED BY <2>1 DEF InBudget
<1>11. ReviewFits(u.tasks[t], new, u.reviews[t]) BY DEF ReviewFits, Expires
<1> QED BY <1>5, <1>7, <1>8, <1>10, <1>11 DEF Fits, TaskGood, KeepsGood

(* Whatever a clean-up does to a task. *)
LEMMA CleansUpGood ==
    ASSUME NEW s, Sound(s), NEW u, NEW t \in TaskIds, Fits(s, t), CleansUp(s, u, t)
    PROVE  KeepsGood(s, u, t)
BY RestsGood, RequeuesGood, ExpiresGood DEF CleansUp

(* Two clean-ups do to a task what one of them does. *)
LEMMA CleansUpTransitive ==
    ASSUME NEW s, NEW u, NEW v, NEW t, CleansUp(s, u, t), CleansUp(u, v, t)
    PROVE  CleansUp(s, v, t)
<1>1. CASE Rests(s, u, t)
  BY <1>1 DEF CleansUp, Rests, Requeues, Expires
<1>2. CASE ~Rests(s, u, t)
  <2>1. u.tasks[t].status \in {"ready", "failed"}
    BY <1>2 DEF CleansUp, Requeues, Expires
  <2>2. Rests(u, v, t) BY <2>1 DEF CleansUp, Requeues, Expires
  <2> QED BY <2>2 DEF CleansUp, Rests, Requeues, Expires
<1> QED BY <1>1, <1>2

(* An open attempt of a task is its latest. *)
LEMMA OpenIsLatest ==
    ASSUME NEW s, Sound(s), NEW t \in TaskIds, Fits(s, t), ~Ended(s.taskAttempts[t])
    PROVE  /\ LatestIs(s.taskAttempts[t], Active) /\ HasActiveAttempt(s, t)
           /\ s.taskAttempts[t] # <<>> /\ Latest(s.taskAttempts[t]) \in Attempt
           /\ s.tasks[t].status \in {"ready", "assigned"} =>
                Latest(s.taskAttempts[t]).status \in {"leased", "checkpointed"}
           /\ s.tasks[t].status = "in_progress" =>
                /\ Latest(s.taskAttempts[t]).status = "running"
                /\ Latest(s.taskAttempts[t]).worker = s.tasks[t].worker
           /\ s.tasks[t].status = "waiting_for_input" =>
                Latest(s.taskAttempts[t]).status = "checkpointed"
<1> DEFINE seq == s.taskAttempts[t]
<1>1. LatestIs(seq, Active) /\ HasActiveAttempt(s, t) BY AttemptOpen
<1>2. seq \in Seq(Attempt) BY AttemptsType
<1>3. seq # <<>> /\ Latest(seq) \in Attempt BY <1>1, <1>2, LatestType DEF LatestIs
<1>4. /\ s.tasks[t].status \in {"ready", "assigned"} => LatestIs(seq, {"leased", "checkpointed"})
      /\ s.tasks[t].status = "in_progress" =>
            LatestIs(seq, {"running"}) /\ Latest(seq).worker = s.tasks[t].worker
      /\ s.tasks[t].status = "waiting_for_input" => LatestIs(seq, {"checkpointed"})
  BY DEF Fits, TaskGood, AttemptsFit
<1> QED BY <1>1, <1>3, <1>4 DEF LatestIs

(* A claim opens the next attempt or goes on with the open one, which the   *)
(* claiming worker runs itself if it runs.                                  *)
LEMMA ClaimsGood ==
    ASSUME NEW s, Sound(s), NEW u, NEW t \in TaskIds, NEW w \in Workers,
           Fits(s, t), Claims(s, u, t, w)
    PROVE  KeepsGood(s, u, t)
<1> DEFINE seq == s.taskAttempts[t]
           new == u.taskAttempts[t]
<1>1. seq \in Seq(Attempt) /\ new = Taken(seq, w) BY AttemptsType DEF Claims
<1>2. s.tasks[t].status \in {"ready", "assigned", "in_progress"} BY DEF Claims
<1>3. ReviewFits(u.tasks[t], new, u.reviews[t]) BY DEF ReviewFits, Claims
<1>4. s.tasks[t].status # "failed" BY <1>2
<1>5. InBudget(s.tasks[t], seq) BY DEF Fits, TaskGood
<1>6. CASE Ended(seq)
  <2> DEFINE attempt == [worker |-> w, status |-> "leased", ttl |-> LeaseTTL]
  <2>1. attempt \in Attempt BY ConstantTypes DEF Attempt
  <2>2. attempt.status = "leased" OBVIOUS
  <2>3. new = Append(seq, attempt) BY <1>1, <1>6 DEF Taken
  <2> HIDE DEF attempt
  <2>4. /\ new # <<>> /\ Latest(new) = attempt /\ Expiries(new) = Expiries(seq)
        /\ \A i \in DOMAIN seq : i \in DOMAIN new /\ new[i] = seq[i]
        /\ \A i \in DOMAIN new : i # Len(new) => i \in DOMAIN seq
    BY <1>1, <2>1, <2>2, <2>3, AppendLatest
  <2> HIDE DEF new, seq
  <2>5. LatestIs(new, {"leased", "checkpointed"}) BY <1>6, <2>2, <2>4 DEF LatestIs, Ended
  <2>6. Continues(seq, new) BY <1>6, <2>4 DEF Continues, Ended, Over, Terminal
  <2>7. s.tasks[t].status # "in_progress"
    <3>1. s.tasks[t].status = "in_progress" => LatestIs(seq, {"running"})
      BY DEF Fits, TaskGood, AttemptsFit, seq
    <3>2. LatestIs(seq, {"running"}) => Len(seq) \in DOMAIN seq
      BY <1>1, LatestType DEF LatestIs, seq
    <3> QED BY <1>6, <3>1, <3>2 DEF Ended, LatestIs, Latest, Over, Terminal
  <2>8. u.tasks[t].status = "assigned" BY <1>2, <2>7 DEF Claims
  <2>9. AttemptsFit(u.tasks[t], new) BY <2>5, <2>8 DEF AttemptsFit
  <2>10. InBudget(u.tasks[t], new) BY <1>4, <1>5, <2>4, SameExpiries
  <2> QED BY <1>3, <2>6, <2>9, <2>10 DEF KeepsGood, Fits, TaskGood, new, seq
<1>7. CASE ~Ended(seq)
  <2> DEFINE status == IF Latest(seq).status = "checkpointed" THEN "leased" ELSE Latest(seq).status
             attempt == [worker |-> w, status |-> status, ttl |-> LeaseTTL]
  <2>1. /\ LatestIs(seq, Active) /\ Latest(seq) \in Attempt
        /\ s.tasks[t].status \in {"ready", "assigned"} =>
                Latest(seq).status \in {"leased", "checkpointed"}
        /\ s.tasks[t].status = "in_progress" =>
                Latest(seq).status = "running" /\ Latest(seq).worker = s.tasks[t].worker
    BY <1>7, OpenIsLatest
  <2>2. /\ s.tasks[t].status \in {"ready", "assigned"} => status = "leased"
        /\ s.tasks[t].status = "in_progress" => status = "running"
    BY <2>1
  <2>3. status \in Active BY <1>2, <2>2 DEF Active
  <2>4. new = WithLatest(seq, attempt) BY <1>1, <1>7 DEF Taken
  <2> HIDE DEF status, seq
  <2>5. attempt \in Attempt BY <2>3, ConstantTypes DEF Attempt, Active
  <2>6. attempt.status = status /\ attempt.worker = w OBVIOUS
  <2> HIDE DEF attempt
  <2>7. /\ s.tasks[t].status = "in_progress" => s.tasks[t].worker = w
        /\ Latest(seq).status = "running" => s.tasks[t].status = "in_progress"
    <3>1. s.tasks[t].status = "in_progress" => s.tasks[t].worker = w BY DEF Claims
    <3>2. s.tasks[t].status \in {"ready", "assigned"} => Latest(seq).status # "running" BY <2>1
    <3> QED BY <1>2, <3>1, <3>2
  <2>8. Latest(seq).status = "running" =>
           attempt.status = "running" /\ attempt.worker = Latest(seq).worker
    BY <2>1, <2>2, <2>6, <2>7
  <2>9. /\ LatestIs(new, {status}) /\ Latest(new) = attempt /\ Expiries(new) = Expiries(seq)
        /\ Continues(seq, new)
    BY <1>1, <2>1, <2>3, <2>4, <2>5, <2>6, <2>8, WithLatestKeeps
  <2> HIDE DEF new
  <2>10. InBudget(u.tasks[t], new) BY <1>4, <1>5, <2>9, SameExpiries
  <2>11. AttemptsFit(u.tasks[t], new)
    <3>1. CASE u.tasks[t].status = "assigned"
      <4>1. s.tasks[t].status \in {"ready", "assigned"} BY <3>1 DEF Claims
      <4>2. LatestIs(new, {"leased", "checkpointed"}) BY <2>2, <2>9, <4>1 DEF LatestIs
      <4> QED BY <3>1, <4>2 DEF AttemptsFit
    <3>2. CASE u.tasks[t].status = "in_progress"
      <4>1. s.tasks[t].status = "in_progress" /\ u.tasks[t].worker = w BY <3>2 DEF Claims
      <4>2. LatestIs(new, {"running"}) /\ Latest(new).worker = w BY <2>2, <2>6, <2>9, <4>1
      <4> QED BY <3>2, <4>1, <4>2 DEF AttemptsFit
    <3>3. u.tasks[t].status \in {"assigned", "in_progress"} BY DEF Claims
    <3> QED BY <3>1, <3>2, <3>3
  <2> QED BY <1>3, <2>9, <2>10, <2>11 DEF KeepsGood, Fits, TaskGood, new, seq
<1> QED BY <1>6, <1>7

(* Renewing an attempt, and time. *)
LEMMA RefreshesGood ==
    ASSUME NEW s, Sound(s), NEW u, NEW t \in TaskIds, Fits(s, t), Refreshes(s, u, t),
           u.taskAttempts[t] \in Seq(Attempt)
    PROVE  KeepsGood(s, u, t)
<1> DEFINE seq == s.taskAttempts[t]
           new == u.taskAttempts[t]
<1>1. seq \in Seq(Attempt) /\ Len(new) = Len(seq) BY AttemptsType DEF Refreshes
<1>2. DOMAIN new = DOMAIN seq /\ DOMAIN seq = 1..Len(seq) /\ (seq = <<>> <=> new = <<>>)
      /\ (seq # <<>> => Len(seq) \in DOMAIN seq)
  BY <1>1
<1>3. \A i \in DOMAIN seq : /\ new[i].status = seq[i].status /\ new[i].worker = seq[i].worker
                            /\ Over(seq[i]) => new[i] = seq[i]
  BY DEF Refreshes
<1> HIDE DEF seq, new
<1>4. Ended(seq) => Ended(new) BY <1>2, <1>3 DEF Ended
<1>5. \A S : LatestIs(seq, S) => LatestIs(new, S) BY <1>1, <1>2, <1>3 DEF LatestIs, Latest
<1>6. seq # <<>> => /\ Latest(new).worker = Latest(seq).worker
                    /\ Latest(new).status = Latest(seq).status
  BY <1>1, <1>2, <1>3 DEF Latest
<1>7. \A S : LatestIs(seq, S) => seq # <<>> BY DEF LatestIs
<1>8. Expiries(new) = Expiries(seq) BY <1>2, <1>3 DEF Expiries
<1>9. Continues(seq, new) BY <1>2, <1>3 DEF Continues
<1>10. /\ u.tasks[t].status = s.tasks[t].status /\ u.tasks[t].worker = s.tasks[t].worker
       /\ u.tasks[t].waitingAttempt = s.tasks[t].waitingAttempt /\ u.reviews[t] = s.reviews[t]
  BY DEF Refreshes
<1>11. TaskGood(s.tasks[t], seq, s.reviews[t]) BY DEF Fits, seq
<1>12. AttemptsFit(u.tasks[t], new)
  BY <1>1, <1>2, <1>4, <1>5, <1>6, <1>7, <1>10, <1>11 DEF TaskGood, AttemptsFit
<1>13. InBudget(u.tasks[t], new) BY <1>1, <1>8, <1>10, <1>11, SameExpiries DEF TaskGood
<1>14. ReviewFits(u.tasks[t], new, u.reviews[t])
  BY <1>1, <1>2, <1>6, <1>10, <1>11 DEF TaskGood, ReviewFits
<1> QED BY <1>9, <1>12, <1>13, <1>14 DEF KeepsGood, Fits, TaskGood, seq, new

(* The open attempt starts to run. *)
LEMMA BeginsGood ==
    ASSUME NEW s, Sound(s), NEW u, NEW t \in TaskIds, Fits(s, t), Begins(s, u, t)
    PROVE  KeepsGood(s, u, t)
<1> DEFINE seq == s.taskAttempts[t]
           new == u.taskAttempts[t]
           attempt == [Latest(seq) EXCEPT !.status = "running", !.ttl = LeaseTTL]
<1>1. seq \in Seq(Attempt) BY AttemptsType
<1>2. s.tasks[t].status = "assigned" /\ ~Ended(seq) /\ Latest(seq).worker = s.tasks[t].worker
  BY DEF Begins
<1>3. LatestIs(seq, Active) /\ Latest(seq) \in Attempt /\ Latest(seq).status # "running"
  BY <1>2, OpenIsLatest
<1>4. new = WithLatest(seq, attempt) BY DEF Begins
<1>5. attempt \in Attempt /\ attempt.status = "running" /\ attempt.worker = Latest(seq).worker
  BY <1>3, ConstantTypes DEF Attempt
<1>6. "running" \in Active BY DEF Active
<1> HIDE DEF attempt, seq
<1>7. /\ LatestIs(new, {"running"}) /\ Latest(new) = attempt /\ Expiries(new) = Expiries(seq)
      /\ Continues(seq, new)
  BY <1>1, <1>3, <1>4, <1>5, <1>6, WithLatestKeeps
<1> HIDE DEF new
<1>8. u.tasks[t].status = "in_progress" /\ u.tasks[t].worker = s.tasks[t].worker BY DEF Begins
<1>9. AttemptsFit(u.tasks[t], new) BY <1>2, <1>5, <1>7, <1>8 DEF AttemptsFit
<1>10. InBudget(u.tasks[t], new) BY <1>2, <1>7, SameExpiries DEF Fits, TaskGood, seq
<1>11. ReviewFits(u.tasks[t], new, u.reviews[t]) BY <1>8 DEF ReviewFits
<1> QED BY <1>7, <1>9, <1>10, <1>11 DEF KeepsGood, Fits, TaskGood, seq, new

(* The open attempt ends with what its worker delivers. *)
LEMMA DeliversGood ==
    ASSUME NEW s, Sound(s), NEW u, NEW t \in TaskIds, Fits(s, t), Delivers(s, u, t)
    PROVE  KeepsGood(s, u, t)
<1> DEFINE seq == s.taskAttempts[t]
           new == u.taskAttempts[t]
<1>1. seq \in Seq(Attempt) BY AttemptsType
<1>2. ~Ended(seq) /\ s.tasks[t].status # "failed" BY DEF Delivers
<1>3. LatestIs(seq, Active) BY <1>2, OpenIsLatest
<1>4. PICK status \in {"succeeded", "failed"} :
        /\ new = EndLatest(seq, status)
        /\ u.tasks[t].status = IF status = "succeeded" THEN "review" ELSE "failed"
        /\ status = "succeeded" => u.reviews[t].material = Len(seq)
  BY DEF Delivers
<1>5. status \in EndStatuses /\ status # "expired" BY DEF EndStatuses
<1>6. /\ Ended(new) /\ Len(new) = Len(seq) /\ Continues(seq, new) /\ Expiries(new) = Expiries(seq)
      /\ new # <<>> /\ Latest(new).status = status
  BY <1>1, <1>2, <1>3, <1>4, <1>5, EndLatestKeeps
<1> HIDE DEF seq, new
<1>7. AttemptsFit(u.tasks[t], new) BY <1>4, <1>6 DEF AttemptsFit
<1>8. InBudget(u.tasks[t], new) BY <1>2, <1>6, SameExpiries DEF Fits, TaskGood, seq
<1>9. ReviewFits(u.tasks[t], new, u.reviews[t]) BY <1>4, <1>6 DEF ReviewFits
<1> QED BY <1>6, <1>7, <1>8, <1>9 DEF KeepsGood, Fits, TaskGood, seq, new

(* A decision leaves the delivery it is about the latest attempt. *)
LEMMA DecidesGood ==
    ASSUME NEW s, Sound(s), NEW u, NEW t \in TaskIds, Fits(s, t), Decides(s, u, t)
    PROVE  KeepsGood(s, u, t)
<1>1. AttemptsFit(u.tasks[t], u.taskAttempts[t])
  BY DEF Fits, TaskGood, AttemptsFit, Decides
<1>2. InBudget(u.tasks[t], u.taskAttempts[t]) BY SameExpiries DEF Fits, TaskGood, Decides
<1>3. ReviewFits(u.tasks[t], u.taskAttempts[t], u.reviews[t])
  BY DEF Fits, TaskGood, ReviewFits, Decides
<1> QED BY <1>1, <1>2, <1>3, ContinuesReflexive DEF KeepsGood, Fits, TaskGood, Decides

(* A task that is resumed goes on with the attempt that was parked. *)
LEMMA ResumesGood ==
    ASSUME NEW s, NEW u, NEW t \in TaskIds, Fits(s, t), Resumes(s, u, t)
    PROVE  KeepsGood(s, u, t)
<1>1. LatestIs(s.taskAttempts[t], {"checkpointed"}) =>
            LatestIs(s.taskAttempts[t], {"leased", "checkpointed"})
  BY DEF LatestIs
<1>2. AttemptsFit(u.tasks[t], u.taskAttempts[t])
  BY <1>1 DEF Fits, TaskGood, AttemptsFit, Resumes
<1>3. InBudget(u.tasks[t], u.taskAttempts[t]) BY SameExpiries DEF Fits, TaskGood, Resumes
<1>4. ReviewFits(u.tasks[t], u.taskAttempts[t], u.reviews[t]) BY DEF ReviewFits, Resumes
<1> QED BY <1>2, <1>3, <1>4, ContinuesReflexive DEF KeepsGood, Fits, TaskGood, Resumes

(* The open attempt of a cancelled task ends. *)
LEMMA CancelsGood ==
    ASSUME NEW s, Sound(s), NEW u, NEW t \in TaskIds, Fits(s, t), Cancels(s, u, t)
    PROVE  KeepsGood(s, u, t)
<1> DEFINE seq == s.taskAttempts[t]
           new == u.taskAttempts[t]
<1>1. seq \in Seq(Attempt) BY AttemptsType
<1>2. Ended(seq) \/ LatestIs(seq, Active) BY AttemptOpen
<1>3. new = EndLatest(seq, "cancelled") /\ u.tasks[t].status = "cancelled"
      /\ s.tasks[t].status # "failed"
  BY DEF Cancels, Final
<1>4. "cancelled" \in EndStatuses /\ "cancelled" # "expired" BY DEF EndStatuses
<1>5. Ended(new) /\ Continues(seq, new) /\ Expiries(new) = Expiries(seq)
  BY <1>1, <1>2, <1>3, <1>4, EndLatestKeeps
<1> HIDE DEF seq, new
<1>6. AttemptsFit(u.tasks[t], new) BY <1>3, <1>5 DEF AttemptsFit
<1>7. InBudget(u.tasks[t], new) BY <1>3, <1>5, SameExpiries DEF Fits, TaskGood, seq
<1>8. ReviewFits(u.tasks[t], new, u.reviews[t]) BY <1>3 DEF ReviewFits
<1> QED BY <1>5, <1>6, <1>7, <1>8 DEF KeepsGood, Fits, TaskGood, seq, new

(* A new task has no attempts. *)
LEMMA CreatesGood ==
    ASSUME NEW s, NEW u, NEW t \in TaskIds, Fits(s, t), Creates(s, u, t)
    PROVE  KeepsGood(s, u, t)
<1>1. u.taskAttempts[t] = s.taskAttempts[t] /\ s.taskAttempts[t] = <<>>
  BY DEF Fits, TaskGood, AttemptsFit, Creates
<1>2. Ended(<<>>) BY DEF Ended
<1>3. AttemptsFit(u.tasks[t], <<>>) BY <1>2 DEF AttemptsFit, Creates
<1>4. InBudget(u.tasks[t], u.taskAttempts[t])
  BY <1>1, SameExpiries DEF Fits, TaskGood, Creates
<1>5. ReviewFits(u.tasks[t], <<>>, u.reviews[t]) BY DEF ReviewFits, Creates
<1> QED BY <1>1, <1>3, <1>4, <1>5, ContinuesReflexive DEF KeepsGood, Fits, TaskGood

(* The open attempt of a task that waits for input is parked.  This is the  *)
(* one move by which an attempt stops running and may go on later, with     *)
(* another worker.                                                          *)
LEMMA AsksGood ==
    ASSUME NEW s, Sound(s), NEW u, NEW t \in TaskIds, Fits(s, t), Asks(s, u, t)
    PROVE  /\ Fits(u, t)
           /\ \A i \in DOMAIN s.taskAttempts[t] :
                LET before == s.taskAttempts[t][i]
                    after == u.taskAttempts[t][i]
                IN /\ i \in DOMAIN u.taskAttempts[t] /\ (Over(before) => after = before)
                   /\ after.worker = before.worker
<1> DEFINE seq == s.taskAttempts[t]
           new == u.taskAttempts[t]
<1>1. seq \in Seq(Attempt) BY AttemptsType
<1>2. /\ u.tasks[t].status = "waiting_for_input" /\ s.tasks[t].status # "failed"
      /\ u.reviews[t] = s.reviews[t]
  BY DEF Asks
<1>3. ReviewFits(u.tasks[t], new, u.reviews[t]) BY <1>2 DEF ReviewFits
<1>4. InBudget(s.tasks[t], seq) BY DEF Fits, TaskGood
<1>5. CASE Ended(seq)
  <2>1. new = seq /\ u.tasks[t].waitingAttempt = 0 BY <1>5 DEF Asks
  <2>2. AttemptsFit(u.tasks[t], new) BY <1>2, <1>5, <2>1 DEF AttemptsFit
  <2>3. InBudget(u.tasks[t], new) BY <1>2, <1>4, <2>1, SameExpiries
  <2> QED BY <1>3, <2>1, <2>2, <2>3 DEF Fits, TaskGood
<1>6. CASE ~Ended(seq)
  <2> DEFINE attempt == [Latest(seq) EXCEPT !.status = "checkpointed"]
  <2>1. new = WithLatest(seq, attempt) /\ u.tasks[t].waitingAttempt = Len(seq) BY <1>6 DEF Asks
  <2>2. LatestIs(seq, Active) /\ Latest(seq) \in Attempt /\ seq # <<>> BY <1>6, OpenIsLatest
  <2>3. attempt \in Attempt /\ attempt.status = "checkpointed"
        /\ attempt.worker = Latest(seq).worker
    BY <2>2 DEF Attempt
  <2>4. "checkpointed" \in Active BY DEF Active
  <2>5. ~Over(Latest(seq)) BY <2>2 DEF LatestIs, Active, Over, Terminal
  <2> HIDE DEF attempt, seq
  <2>6. LET with == WithLatest(seq, attempt)
        IN /\ LatestIs(with, {attempt.status}) /\ Len(with) = Len(seq) /\ Latest(with) = attempt
           /\ Expiries(with) = Expiries(seq)
           /\ \A i \in DOMAIN seq : i \in DOMAIN with /\ (i # Len(seq) => with[i] = seq[i])
    BY <1>1, <2>2, <2>3, <2>4, WithLatestKeeps
  <2> HIDE DEF new
  <2>7. AttemptsFit(u.tasks[t], new) BY <1>2, <2>1, <2>3, <2>6 DEF AttemptsFit
  <2>8. InBudget(u.tasks[t], new) BY <1>2, <1>4, <2>1, <2>6, SameExpiries
  <2>9. new[Len(seq)] = attempt /\ seq[Len(seq)] = Latest(seq) BY <2>1, <2>6 DEF Latest
  <2>10. \A i \in DOMAIN seq : /\ i \in DOMAIN new /\ (Over(seq[i]) => new[i] = seq[i])
                               /\ new[i].worker = seq[i].worker
    BY <2>1, <2>3, <2>5, <2>6, <2>9
  <2> QED BY <1>3, <2>7, <2>8, <2>10 DEF Fits, TaskGood, new, seq
<1> QED BY <1>5, <1>6

-----------------------------------------------------------------------------
(* reconcileRuntimeState *)

(* A state in which every task rests, or is cleaned up, is a good one as    *)
(* long as the workers' tasks are their own.                                *)
LEMMA CleansUpAttemptsGood ==
    ASSUME NEW s, Sound(s), AttemptsGood(s), NEW u, Owned(u),
           \A t \in TaskIds : CleansUp(s, u, t)
    PROVE  AttemptsGood(u)
BY CleansUpGood DEF AttemptsGood, KeepsGood

(* Leases are not attempts. *)
LEMMA ReclaimLeasesCleans ==
    ASSUME NEW s, Sound(s), Owned(s)
    PROVE  LET u == ReclaimLeases(s)
           IN Sound(u) /\ Owned(u) /\ \A t \in TaskIds : CleansUp(s, u, t)
<1>1. LET u == ReclaimLeases(s)
      IN /\ u.tasks = s.tasks /\ u.taskAttempts = s.taskAttempts /\ u.reviews = s.reviews
         /\ u.workers = s.workers
  BY DEF ReclaimLeases, Sound, RuntimeState
<1> QED BY <1>1, ReclaimLeasesSound DEF Owned, CleansUp, Rests

(* Running attempts whose lease has run out expire, and their workers let   *)
(* go of them.                                                              *)
LEMMA ReconcileExpiredAttemptsCleans ==
    ASSUME NEW s, Sound(s), AttemptsGood(s)
    PROVE  LET u == ReconcileExpiredAttempts(s)
           IN Sound(u) /\ Owned(u) /\ \A t \in TaskIds : CleansUp(s, u, t)
<1> DEFINE expired == ExpiredRunning(s)
           failed == {t \in expired : ~MayRetry(s, t)}
           retried == {t \in expired : MayRetry(s, t)}
           ended == EndExpiredAttempts(s)
           u == RequeueTasks(ended, retried)
<1>1. /\ s.tasks \in [TaskIds -> Task] /\ s.taskAttempts \in [TaskIds -> Seq(Attempt)]
      /\ s.workers \in [Workers -> Worker] /\ s \in RuntimeState
  BY DEF Sound, RuntimeState
<1>2. ended \in RuntimeState /\ Sound(ended) BY EndExpiredAttemptsSound DEF Sound
<1>3. /\ ended.reviews = s.reviews
      /\ \A t \in TaskIds \ failed : ended.tasks[t] = s.tasks[t]
      /\ \A t \in failed : ended.tasks[t] = [s.tasks[t] EXCEPT !.status = "failed"]
      /\ \A t \in TaskIds \ expired : ended.taskAttempts[t] = s.taskAttempts[t]
  BY <1>1 DEF EndExpiredAttempts, RuntimeState, ExpiredRunning
<1>4. \A t \in expired : ended.taskAttempts[t] =
        [s.taskAttempts[t] EXCEPT ![ActiveNo(s, t)].status = "expired", ![ActiveNo(s, t)].ttl = 0]
  BY <1>1 DEF EndExpiredAttempts, RuntimeState, ExpiredRunning
<1>5. \A w \in Workers :
        /\ (\E t \in expired : s.tasks[t].worker = w) => ended.workers[w].currentTask = NoTask
        /\ ~(\E t \in expired : s.tasks[t].worker = w) => ended.workers[w] = s.workers[w]
  <2>1. \A w \in Workers : ended.workers[w] =
            IF \E t \in expired : s.tasks[t].worker = w
            THEN [s.workers[w] EXCEPT !.status = "offline", !.currentTask = NoTask]
            ELSE s.workers[w]
    BY <1>1 DEF EndExpiredAttempts, RuntimeState
  <2> SUFFICES ASSUME NEW w \in Workers
               PROVE  /\ (\E t \in expired : s.tasks[t].worker = w) =>
                            ended.workers[w].currentTask = NoTask
                      /\ ~(\E t \in expired : s.tasks[t].worker = w) =>
                            ended.workers[w] = s.workers[w]
    OBVIOUS
  <2> DEFINE x == s.workers[w]
             gone == \E t \in expired : s.tasks[t].worker = w
  <2>2. x \in Worker BY <1>1
  <2>3. [x EXCEPT !.status = "offline", !.currentTask = NoTask].currentTask = NoTask
    BY <2>2 DEF Worker
  <2>4. ended.workers[w] =
            IF gone THEN [x EXCEPT !.status = "offline", !.currentTask = NoTask] ELSE x
    BY <2>1
  <2> HIDE DEF ended, gone, x
  <2>5. (gone => ended.workers[w].currentTask = NoTask) /\ (~gone => ended.workers[w] = x)
    BY <2>3, <2>4
  <2> QED BY <2>5 DEF gone, x
<1>6. /\ u.taskAttempts = ended.taskAttempts /\ u.reviews = ended.reviews
      /\ u.workers = ended.workers
      /\ \A t \in TaskIds \ retried : u.tasks[t] = ended.tasks[t]
      /\ \A t \in TaskIds : t \in retried =>
            u.tasks[t] = [ended.tasks[t] EXCEPT !.status = "ready", !.worker = None,
                                                !.lastWorker = ended.tasks[t].worker]
  <2> HIDE DEF ended, retried
  <2> QED BY <1>2 DEF RequeueTasks, RuntimeState
<1>7. \A t \in expired : t \in TaskIds /\ s.tasks[t].status = "in_progress" /\ HasActiveAttempt(s, t)
  BY DEF ExpiredRunning
<1>8. Sound(u) BY <1>2, RequeueTasksSound
<1>9. ReconcileExpiredAttempts(s) = u BY DEF ReconcileExpiredAttempts
<1>10. ended.tasks \in [TaskIds -> Task] BY <1>2 DEF RuntimeState
<1> HIDE DEF ended, u
<1>11. ASSUME NEW t \in TaskIds, t \notin expired PROVE Rests(s, u, t)
  BY <1>3, <1>6, <1>11 DEF Rests
<1>12. ASSUME NEW t \in expired PROVE Expires(s, u, t)
  <2> DEFINE seq == s.taskAttempts[t]
  <2>1. LatestIs(seq, {"running"}) BY <1>7 DEF AttemptsGood, Fits, TaskGood, AttemptsFit
  <2>2. LatestIs(seq, Active) BY <2>1 DEF LatestIs, Active
  <2>3. ActiveNo(s, t) = Len(seq) /\ HasActiveAttempt(s, t) BY <1>7, <2>2, ActiveIsLatest
  <2>4. seq \in Seq(Attempt) /\ seq # <<>> BY <1>1, <1>7, <2>1 DEF LatestIs
  <2>5. Latest(seq) \in Attempt /\ Len(seq) \in DOMAIN seq BY <2>4, LatestType
  <2>6. ~Ended(seq) BY <2>1, <2>5 DEF LatestIs, Latest, Ended, Over, Terminal
  <2>7. u.taskAttempts[t] = [seq EXCEPT ![Len(seq)].status = "expired", ![Len(seq)].ttl = 0]
    BY <1>4, <1>6, <2>3
  <2>8. u.taskAttempts[t] = EndLatest(seq, "expired")
    BY <2>5, <2>6, <2>7 DEF EndLatest, WithLatest, Latest
  <2>9. u.reviews[t] = s.reviews[t] BY <1>3, <1>6
  <2>10. CASE MayRetry(s, t)
    <3>1. u.tasks[t] = [ended.tasks[t] EXCEPT !.status = "ready", !.worker = None,
                                              !.lastWorker = ended.tasks[t].worker]
      BY <1>6, <1>7, <2>10
    <3>2. ended.tasks[t] \in Task BY <1>7, <1>10
    <3>3. u.tasks[t].status = "ready" /\ u.tasks[t].worker = None BY <3>1, <3>2 DEF Task
    <3> QED BY <1>7, <2>8, <2>9, <2>10, <3>3 DEF Expires, MayRetry
  <2>11. CASE ~MayRetry(s, t)
    <3>1. u.tasks[t] = [s.tasks[t] EXCEPT !.status = "failed"] BY <1>3, <1>6, <1>7, <2>11
    <3>2. s.tasks[t] \in Task BY <1>1, <1>7
    <3>3. u.tasks[t].status = "failed" /\ u.tasks[t].worker = s.tasks[t].worker
      BY <3>1, <3>2 DEF Task
    <3> QED BY <1>7, <2>8, <2>9, <2>11, <3>3 DEF Expires, MayRetry
  <2> QED BY <2>10, <2>11
<1>13. Owned(u)
  <2> SUFFICES ASSUME NEW w \in Workers, u.workers[w].currentTask # NoTask
               PROVE  LET task == u.tasks[u.workers[w].currentTask]
                      IN task.worker = w /\ task.status \in {"assigned", "in_progress"}
    BY DEF Owned
  <2> DEFINE c == u.workers[w].currentTask
  <2>1. u.workers[w] = s.workers[w] /\ ~(\E t \in expired : s.tasks[t].worker = w) BY <1>5, <1>6
  <2>2. c \in TaskIds BY <1>1, <2>1 DEF Worker
  <2>3. s.tasks[c].worker = w /\ s.tasks[c].status \in {"assigned", "in_progress"}
    BY <2>1 DEF AttemptsGood, Owned
  <2>4. c \notin expired BY <2>1, <2>3
  <2> QED BY <1>11, <2>2, <2>3, <2>4 DEF Rests
<1> QED BY <1>8, <1>9, <1>11, <1>12, <1>13 DEF CleansUp

(* Tasks of lost workers are queued again, and the workers let go of them. *)
LEMMA ReconcileWorkersCleans ==
    ASSUME NEW s, Sound(s), AttemptsGood(s)
    PROVE  LET u == ReconcileWorkers(s)
           IN Sound(u) /\ Owned(u) /\ \A t \in TaskIds : CleansUp(s, u, t)
<1> DEFINE lost == LostWorkers(s)
           T == {s.workers[w].currentTask : w \in lost}
           offline == GoOffline(s)
           u == RequeueTasks(offline, T)
<1>1. /\ s.tasks \in [TaskIds -> Task] /\ s.workers \in [Workers -> Worker] /\ s \in RuntimeState
  BY DEF Sound, RuntimeState
<1>2. offline \in RuntimeState /\ Sound(offline) BY GoOfflineSound DEF Sound
<1>3. /\ offline.tasks = s.tasks /\ offline.taskAttempts = s.taskAttempts
      /\ offline.reviews = s.reviews
  BY <1>1 DEF GoOffline, RuntimeState
<1>4. \A w \in Workers : offline.workers[w].currentTask =
            IF w \in lost THEN NoTask ELSE s.workers[w].currentTask
  <2> SUFFICES ASSUME NEW w \in Workers
               PROVE  offline.workers[w].currentTask =
                        IF w \in lost THEN NoTask ELSE s.workers[w].currentTask
    OBVIOUS
  <2> DEFINE gone == {v \in Workers : Registered(s, v)
                                      /\ (ResolvedStatus(s, v) = "offline" \/ v \in lost)}
             c == IF w \in lost THEN NoTask ELSE s.workers[w].currentTask
             x == s.workers[w]
  <2>1. offline.workers[w] =
            IF w \in gone THEN [x EXCEPT !.status = "offline", !.currentTask = c] ELSE x
    BY <1>1 DEF GoOffline, RuntimeState
  <2>2. w \in lost => w \in gone BY DEF LostWorkers
  <2>3. x \in Worker BY <1>1
  <2>4. [x EXCEPT !.status = "offline", !.currentTask = c].currentTask = c BY <2>3 DEF Worker
  <2> HIDE DEF offline, gone, lost
  <2> QED BY <2>1, <2>2, <2>4
<1>5. /\ u.taskAttempts = offline.taskAttempts /\ u.reviews = offline.reviews
      /\ u.workers = offline.workers
      /\ \A t \in TaskIds \ T : u.tasks[t] = offline.tasks[t]
      /\ \A t \in TaskIds : t \in T =>
            u.tasks[t] = [offline.tasks[t] EXCEPT !.status = "ready", !.worker = None,
                                                  !.lastWorker = offline.tasks[t].worker]
  <2> HIDE DEF offline, T
  <2> QED BY <1>2 DEF RequeueTasks, RuntimeState
<1>6. Sound(u) BY <1>2, RequeueTasksSound
<1>7. ReconcileWorkers(s) = u BY DEF ReconcileWorkers
<1>8. \A w \in lost : /\ w \in Workers /\ s.workers[w].currentTask # NoTask
                      /\ s.tasks[s.workers[w].currentTask].status = "assigned"
  BY DEF LostWorkers, LostBeforeClaim, TimedOutBeforeClaim, BoundUnstarted
<1> HIDE DEF offline, u, lost
<1>9. ASSUME NEW t \in TaskIds, t \notin T PROVE Rests(s, u, t)
  BY <1>3, <1>5, <1>9 DEF Rests
<1>10. ASSUME NEW t \in TaskIds, t \in T PROVE Requeues(s, u, t)
  <2>1. s.tasks[t].status = "assigned" BY <1>8, <1>10
  <2>2. u.tasks[t] = [s.tasks[t] EXCEPT !.status = "ready", !.worker = None,
                                        !.lastWorker = s.tasks[t].worker]
    BY <1>3, <1>5, <1>10
  <2>3. s.tasks[t] \in Task BY <1>1
  <2>4. u.tasks[t].status = "ready" /\ u.tasks[t].worker = None BY <2>2, <2>3 DEF Task
  <2> QED BY <1>3, <1>5, <2>1, <2>4 DEF Requeues
<1>11. Owned(u)
  <2> SUFFICES ASSUME NEW w \in Workers, u.workers[w].currentTask # NoTask
               PROVE  LET task == u.tasks[u.workers[w].currentTask]
                      IN task.worker = w /\ task.status \in {"assigned", "in_progress"}
    BY DEF Owned
  <2> DEFINE c == u.workers[w].currentTask
  <2>1. c = s.workers[w].currentTask /\ w \notin lost BY <1>4, <1>5
  <2>2. c \in TaskIds BY <1>1, <2>1 DEF Worker
  <2>3. s.tasks[c].worker = w /\ s.tasks[c].status \in {"assigned", "in_progress"}
    BY <2>1 DEF AttemptsGood, Owned
  <2>4. c \notin T
    <3> SUFFICES ASSUME NEW v \in lost, s.workers[v].currentTask = c PROVE FALSE OBVIOUS
    <3>1. s.tasks[c].worker = v BY <1>8 DEF AttemptsGood, Owned
    <3> QED BY <2>1, <2>3, <3>1
  <2> QED BY <1>9, <2>2, <2>3, <2>4 DEF Rests
<1> QED BY <1>6, <1>7, <1>9, <1>10, <1>11 DEF CleansUp

(* A planned task that is unlocked has nobody working on it. *)
LEMMA UnlockPlannedCleans ==
    ASSUME NEW s, Sound(s), AttemptsGood(s)
    PROVE  LET u == UnlockPlanned(s)
           IN Sound(u) /\ Owned(u) /\ \A t \in TaskIds : CleansUp(s, u, t)
<1> DEFINE unlocked == {t \in TaskIds : /\ s.tasks[t].status = "planned"
                                        /\ s.tasks[t].input.deps # {}
                                        /\ Merged(s, s.tasks[t].input.deps)}
           u == UnlockPlanned(s)
<1>1. /\ s.tasks \in [TaskIds -> Task] /\ s.workers \in [Workers -> Worker] /\ s \in RuntimeState
  BY DEF Sound, RuntimeState
<1>2. /\ u.taskAttempts = s.taskAttempts /\ u.reviews = s.reviews /\ u.workers = s.workers
      /\ \A t \in TaskIds \ unlocked : u.tasks[t] = s.tasks[t]
      /\ \A t \in unlocked : u.tasks[t] = [s.tasks[t] EXCEPT !.status = "ready", !.worker = None]
  BY <1>1 DEF UnlockPlanned, RuntimeState
<1>3. Sound(u) BY UnlockPlannedSound
<1> HIDE DEF u
<1>4. ASSUME NEW t \in TaskIds, t \notin unlocked PROVE Rests(s, u, t) BY <1>2, <1>4 DEF Rests
<1>5. ASSUME NEW t \in TaskIds, t \in unlocked PROVE Requeues(s, u, t)
  <2>1. u.tasks[t] = [s.tasks[t] EXCEPT !.status = "ready", !.worker = None] BY <1>2, <1>5
  <2>2. s.tasks[t] \in Task BY <1>1
  <2>3. u.tasks[t].status = "ready" /\ u.tasks[t].worker = None BY <2>1, <2>2 DEF Task
  <2>4. s.tasks[t].status = "planned" BY <1>5
  <2> QED BY <1>2, <2>3, <2>4 DEF Requeues
<1>6. Owned(u)
  <2> SUFFICES ASSUME NEW w \in Workers, s.workers[w].currentTask # NoTask
               PROVE  LET task == u.tasks[s.workers[w].currentTask]
                      IN task.worker = w /\ task.status \in {"assigned", "in_progress"}
    BY <1>2 DEF Owned
  <2> DEFINE c == s.workers[w].currentTask
  <2>1. c \in TaskIds BY <1>1 DEF Worker
  <2>2. s.tasks[c].worker = w /\ s.tasks[c].status \in {"assigned", "in_progress"}
    BY DEF AttemptsGood, Owned
  <2>3. c \notin unlocked BY <2>2
  <2> QED BY <1>4, <2>1, <2>2, <2>3 DEF Rests
<1> QED BY <1>3, <1>4, <1>5, <1>6 DEF CleansUp, u

(* reconcileRuntimeState does no more to a task than clean it up once. *)
LEMMA ReconcileCleans ==
    ASSUME NEW s, Sound(s), AttemptsGood(s)
    PROVE  LET u == Reconcile(s)
           IN Sound(u) /\ AttemptsGood(u) /\ \A t \in TaskIds : CleansUp(s, u, t)
<1> DEFINE s1 == ReclaimLeases(s)
           s2 == ReconcileExpiredAttempts(s1)
           s3 == ReconcileWorkers(s2)
           s4 == UnlockPlanned(s3)
           Cleans(a, b) == \A t \in TaskIds : CleansUp(a, b, t)
<1>1. Sound(s1) /\ AttemptsGood(s1) /\ Cleans(s, s1)
  BY ReclaimLeasesCleans, CleansUpAttemptsGood DEF AttemptsGood
<1> HIDE DEF s1
<1>2. Sound(s2) /\ AttemptsGood(s2) /\ Cleans(s1, s2)
  BY <1>1, ReconcileExpiredAttemptsCleans, CleansUpAttemptsGood
<1> HIDE DEF s2
<1>3. Sound(s3) /\ AttemptsGood(s3) /\ Cleans(s2, s3)
  BY <1>2, ReconcileWorkersCleans, CleansUpAttemptsGood
<1> HIDE DEF s3
<1>4. Sound(s4) /\ AttemptsGood(s4) /\ Cleans(s3, s4)
  BY <1>3, UnlockPlannedCleans, CleansUpAttemptsGood
<1> HIDE DEF s4
<1>5. Cleans(s, s4) BY <1>1, <1>2, <1>3, <1>4, CleansUpTransitive
<1> QED BY <1>4, <1>5 DEF Reconcile, s1, s2, s3, s4

-----------------------------------------------------------------------------
(* The functions that write the attempt of one task *)

(* What is not tasks, attempts, reviews or the workers' tasks. *)
KeepsAllBut(s, u, t) ==
    /\ \A v \in TaskIds \ {t} : Rests(s, u, v)
    /\ u.reviews[t] = s.reviews[t]

(* Leases and workers are not attempts. *)
LEMMA OthersKeepAttempts ==
    ASSUME NEW s, Sound(s), NEW t \in TaskIds
    PROVE  /\ LET u == ReleaseOwnTaskLeases(s, t)
              IN /\ u.taskAttempts = s.taskAttempts /\ u.reviews = s.reviews
                 /\ u.workers = s.workers
           /\ LET u == ReleaseWorkers(s, t)
              IN /\ u.taskAttempts = s.taskAttempts /\ u.reviews = s.reviews
                 /\ \A w \in Workers : u.workers[w].currentTask =
                        IF s.workers[w].currentTask = t THEN NoTask ELSE s.workers[w].currentTask
           /\ \A status : LET u == SetStatus(s, t, status)
                          IN /\ u.taskAttempts = s.taskAttempts /\ u.reviews = s.reviews
                             /\ u.workers = s.workers
           /\ \A w \in Workers :
                /\ LET u == AcquireTaskLeases(s, t, w)
                   IN /\ u.taskAttempts = s.taskAttempts /\ u.reviews = s.reviews
                      /\ u.workers = s.workers
                /\ LET u == ReleaseTaskLeases(s, t, w)
                   IN /\ u.taskAttempts = s.taskAttempts /\ u.reviews = s.reviews
                      /\ u.workers = s.workers
<1>1. s \in RuntimeState BY DEF Sound
<1>2. \A w : /\ LET u == AcquireTaskLeases(s, t, w)
                IN /\ u.taskAttempts = s.taskAttempts /\ u.reviews = s.reviews
                   /\ u.workers = s.workers
             /\ LET u == ReleaseTaskLeases(s, t, w)
                IN /\ u.taskAttempts = s.taskAttempts /\ u.reviews = s.reviews
                   /\ u.workers = s.workers
  BY <1>1 DEF AcquireTaskLeases, ReleaseTaskLeases, RuntimeState
<1>3. LET u == ReleaseOwnTaskLeases(s, t)
      IN u.taskAttempts = s.taskAttempts /\ u.reviews = s.reviews /\ u.workers = s.workers
  BY <1>2 DEF ReleaseOwnTaskLeases
<1>4. \A status : LET u == SetStatus(s, t, status)
                  IN /\ u.taskAttempts = s.taskAttempts /\ u.reviews = s.reviews
                     /\ u.workers = s.workers
  BY <1>1 DEF SetStatus, RuntimeState
<1>5. LET u == ReleaseWorkers(s, t) IN u.taskAttempts = s.taskAttempts /\ u.reviews = s.reviews
  BY <1>1 DEF ReleaseWorkers, RuntimeState
<1>6. \A w \in Workers : ReleaseWorkers(s, t).workers[w].currentTask =
            IF s.workers[w].currentTask = t THEN NoTask ELSE s.workers[w].currentTask
  <2> SUFFICES ASSUME NEW w \in Workers
               PROVE  ReleaseWorkers(s, t).workers[w].currentTask =
                        IF s.workers[w].currentTask = t THEN NoTask ELSE s.workers[w].currentTask
    OBVIOUS
  <2> DEFINE x == s.workers[w]
             status == IF x.disabled THEN "disabled" ELSE "idle"
             y == [x EXCEPT !.status = status, !.currentTask = NoTask, !.age = 0]
  <2>1. ReleaseWorkers(s, t).workers[w] = IF x.currentTask = t THEN y ELSE x
    BY <1>1 DEF ReleaseWorkers, RuntimeState
  <2>2. x \in Worker BY <1>1 DEF RuntimeState
  <2> HIDE DEF x, status
  <2>3. y.currentTask = NoTask BY <2>2 DEF Worker
  <2> HIDE DEF y
  <2>4. ReleaseWorkers(s, t).workers[w].currentTask =
            IF x.currentTask = t THEN NoTask ELSE x.currentTask
    BY <2>1, <2>3
  <2> QED BY <2>4 DEF x
<1> QED BY <1>2, <1>3, <1>4, <1>5, <1>6

(* updateActiveTaskAttempt writes the latest attempt, unless it has ended. *)
LEMMA WithActiveAttemptEffect ==
    ASSUME NEW s, Sound(s), NEW t \in TaskIds, NEW attempt,
           Ended(s.taskAttempts[t]) \/ LatestIs(s.taskAttempts[t], Active)
    PROVE  LET u == WithActiveAttempt(s, t, attempt)
           IN /\ u.tasks = s.tasks /\ u.reviews = s.reviews /\ u.workers = s.workers
              /\ \A v \in TaskIds \ {t} : u.taskAttempts[v] = s.taskAttempts[v]
              /\ u.taskAttempts[t] = IF Ended(s.taskAttempts[t]) THEN s.taskAttempts[t]
                                     ELSE WithLatest(s.taskAttempts[t], attempt)
<1>1. s \in RuntimeState /\ s.taskAttempts \in [TaskIds -> Seq(Attempt)]
  BY DEF Sound, RuntimeState
<1>2. CASE Ended(s.taskAttempts[t])
  <2>1. ~HasActiveAttempt(s, t) BY <1>2, EndedHasNone
  <2> QED BY <1>2, <2>1 DEF WithActiveAttempt
<1>3. CASE ~Ended(s.taskAttempts[t])
  <2>1. HasActiveAttempt(s, t) /\ ActiveNo(s, t) = Len(s.taskAttempts[t]) BY <1>3, ActiveIsLatest
  <2> DEFINE n == Len(s.taskAttempts[t])
             u == [s EXCEPT !.taskAttempts[t][n] = attempt]
  <2>2. WithActiveAttempt(s, t, attempt) = u BY <2>1 DEF WithActiveAttempt
  <2> HIDE DEF n
  <2>3. /\ u.tasks = s.tasks /\ u.reviews = s.reviews /\ u.workers = s.workers
        /\ \A v \in TaskIds \ {t} : u.taskAttempts[v] = s.taskAttempts[v]
        /\ u.taskAttempts[t] = [s.taskAttempts[t] EXCEPT ![n] = attempt]
    BY <1>1 DEF RuntimeState
  <2> HIDE DEF u
  <2> QED BY <1>3, <2>2, <2>3 DEF WithLatest, n
<1> QED BY <1>2, <1>3

(* createOrReuseTaskAttempt goes on with the open attempt or adds one. *)
LEMMA TakeTaskEffect ==
    ASSUME NEW s, Sound(s), NEW t \in TaskIds, NEW w \in Workers, Fits(s, t)
    PROVE  LET u == TakeTask(s, t, w)
           IN /\ u.tasks = s.tasks /\ u.reviews = s.reviews /\ u.workers = s.workers
              /\ \A v \in TaskIds \ {t} : u.taskAttempts[v] = s.taskAttempts[v]
              /\ u.taskAttempts[t] = Taken(s.taskAttempts[t], w)
<1> DEFINE acquired == AcquireTaskLeases(s, t, w)
           seq == s.taskAttempts[t]
           u == CreateOrReuseTaskAttempt(acquired, t, w)
<1>1. /\ Sound(acquired) /\ acquired.tasks = s.tasks /\ acquired.reviews = s.reviews
      /\ acquired.workers = s.workers /\ acquired.taskAttempts = s.taskAttempts
  BY TaskLeasesSound, OthersKeepTasks, OthersKeepAttempts DEF KeepsTasks
<1>2. TakeTask(s, t, w) = u BY DEF TakeTask
<1>3. Ended(seq) \/ LatestIs(seq, Active) BY AttemptOpen
<1> HIDE DEF acquired
<1>4. CASE Ended(seq)
  <2> DEFINE attempt == [worker |-> w, status |-> "leased", ttl |-> LeaseTTL]
  <2>1. ~HasActiveAttempt(acquired, t) BY <1>1, <1>4, EndedHasNone
  <2>2. u = [acquired EXCEPT !.taskAttempts[t] = Append(acquired.taskAttempts[t], attempt)]
    BY <2>1 DEF CreateOrReuseTaskAttempt
  <2>3. Taken(seq, w) = Append(seq, attempt) BY <1>4 DEF Taken
  <2> HIDE DEF attempt, u
  <2> QED BY <1>1, <1>2, <2>2, <2>3 DEF Sound, RuntimeState
<1>5. CASE ~Ended(seq)
  <2>1. LatestIs(acquired.taskAttempts[t], Active) BY <1>1, <1>3, <1>5
  <2>2. HasActiveAttempt(acquired, t) /\ ActiveAttempt(acquired, t) = Latest(seq)
    BY <1>1, <2>1, ActiveIsLatest
  <2> DEFINE attempt == [worker |-> w,
                         status |-> IF Latest(seq).status = "checkpointed" THEN "leased"
                                    ELSE Latest(seq).status,
                         ttl |-> LeaseTTL]
  <2>3. u = WithActiveAttempt(acquired, t, attempt) BY <2>2 DEF CreateOrReuseTaskAttempt
  <2>4. Taken(seq, w) = WithLatest(seq, attempt) BY <1>5 DEF Taken
  <2> HIDE DEF attempt, u
  <2> QED BY <1>1, <1>2, <1>5, <2>1, <2>3, <2>4, WithActiveAttemptEffect
<1> QED BY <1>4, <1>5

-----------------------------------------------------------------------------
(* Claim and start *)

(* What a claim by w does once the state is reconciled. *)
ClaimsOrRests(s, u, w) ==
    Owned(u) /\ \A t \in TaskIds : Rests(s, u, t) \/ Claims(s, u, t, w)

(* A claim that finds a lease taken leaves the tasks alone. *)
LEMMA AcquireRests ==
    ASSUME NEW s, Sound(s), Owned(s), NEW t \in TaskIds, NEW w \in Workers
    PROVE  ClaimsOrRests(s, AcquireTaskLeases(s, t, w), w)
<1>1. LET u == AcquireTaskLeases(s, t, w)
      IN /\ u.tasks = s.tasks /\ u.taskAttempts = s.taskAttempts /\ u.reviews = s.reviews
         /\ u.workers = s.workers
  BY OthersKeepTasks, OthersKeepAttempts DEF KeepsTasks
<1> QED BY <1>1 DEF ClaimsOrRests, Owned, Rests

(* A claim that finds the worker's own task. *)
LEMMA ClaimBoundClaims ==
    ASSUME NEW s, Sound(s), AttemptsGood(s), NEW t \in TaskIds, NEW w \in Workers,
           s.workers[w].currentTask = t, t # NoTask
    PROVE  ClaimsOrRests(s, ClaimBound(s, t, w), w)
<1>1. CASE LeaseConflicts(s, t, w) # {}
  BY <1>1, AcquireRests DEF ClaimBound, AttemptsGood
<1>2. CASE LeaseConflicts(s, t, w) = {}
  <2> DEFINE u == TakeTask(s, t, w)
             v == ClaimBound(s, t, w)
  <2>1. /\ u \in RuntimeState /\ u.tasks = s.tasks /\ u.reviews = s.reviews
        /\ u.workers = s.workers
        /\ \A x \in TaskIds \ {t} : u.taskAttempts[x] = s.taskAttempts[x]
        /\ u.taskAttempts[t] = Taken(s.taskAttempts[t], w)
    BY TakeTaskType, TakeTaskEffect DEF AttemptsGood
  <2>2. /\ v.tasks = u.tasks /\ v.reviews = u.reviews /\ v.workers = u.workers
        /\ v.taskAttempts = u.taskAttempts
    <3> HIDE DEF u, v
    <3>1. \A claimed : LET y == [u EXCEPT !.assignments[t].claimed = claimed]
                       IN /\ y.tasks = u.tasks /\ y.reviews = u.reviews /\ y.workers = u.workers
                          /\ y.taskAttempts = u.taskAttempts
      BY <2>1 DEF RuntimeState
    <3>2. PICK claimed : v = [u EXCEPT !.assignments[t].claimed = claimed]
      BY <1>2 DEF ClaimBound, u, v
    <3> QED BY <3>1, <3>2
  <2> HIDE DEF u, v
  <2>3. s.tasks[t].worker = w /\ s.tasks[t].status \in {"assigned", "in_progress"}
    BY DEF AttemptsGood, Owned
  <2>4. Claims(s, v, t, w) BY <2>1, <2>2, <2>3 DEF Claims
  <2>5. \A x \in TaskIds \ {t} : Rests(s, v, x) BY <2>1, <2>2 DEF Rests
  <2>6. Owned(v) BY <2>1, <2>2 DEF AttemptsGood, Owned
  <2> QED BY <2>4, <2>5, <2>6 DEF ClaimsOrRests, v
<1> QED BY <1>1, <1>2

(* A claim that finds a task that was assigned before. *)
LEMMA ClaimPreAssignedClaims ==
    ASSUME NEW s, Sound(s), AttemptsGood(s), NEW t \in TaskIds, NEW w \in Workers,
           t \in PreAssigned(s, w)
    PROVE  ClaimsOrRests(s, ClaimPreAssigned(s, t, w), w)
<1>1. CASE LeaseConflicts(s, t, w) # {}
  BY <1>1, AcquireRests DEF ClaimPreAssigned, AttemptsGood
<1>2. CASE LeaseConflicts(s, t, w) = {}
  <2> DEFINE u == TakeTask(s, t, w)
             v == ClaimPreAssigned(s, t, w)
  <2>1. /\ u \in RuntimeState /\ u.tasks = s.tasks /\ u.reviews = s.reviews
        /\ u.workers = s.workers
        /\ \A x \in TaskIds \ {t} : u.taskAttempts[x] = s.taskAttempts[x]
        /\ u.taskAttempts[t] = Taken(s.taskAttempts[t], w)
    BY TakeTaskType, TakeTaskEffect DEF AttemptsGood
  <2>2. /\ v.tasks = u.tasks /\ v.reviews = u.reviews /\ v.taskAttempts = u.taskAttempts
        /\ v.workers = [u.workers EXCEPT ![w] = Busy(u.workers[w], t)]
    <3> HIDE DEF u, v
    <3>1. v = [u EXCEPT !.assignments[t].claimed = TRUE, !.workers[w] = Busy(@, t)]
      BY <1>2 DEF ClaimPreAssigned, u, v
    <3> QED BY <2>1, <3>1 DEF RuntimeState
  <2> HIDE DEF u, v
  <2>3. s.tasks[t].worker = w /\ s.tasks[t].status = "assigned" BY DEF PreAssigned
  <2>4. Claims(s, v, t, w) BY <2>1, <2>2, <2>3 DEF Claims
  <2>5. \A x \in TaskIds \ {t} : Rests(s, v, x) BY <2>1, <2>2 DEF Rests
  <2>6. u.workers[w] \in Worker /\ u.workers \in [Workers -> Worker] BY <2>1 DEF RuntimeState
  <2>7. v.workers[w].currentTask = t /\ \A x \in Workers \ {w} : v.workers[x] = s.workers[x]
    BY <2>1, <2>2, <2>6 DEF Busy, Worker
  <2>8. Owned(v) BY <2>1, <2>2, <2>3, <2>7 DEF AttemptsGood, Owned
  <2> QED BY <2>4, <2>5, <2>8 DEF ClaimsOrRests, v
<1> QED BY <1>1, <1>2

(* A claim that selects a ready task, which nobody has. *)
LEMMA ClaimReadyClaims ==
    ASSUME NEW s, Sound(s), AttemptsGood(s), NEW t \in TaskIds, NEW w \in Workers,
           s.tasks[t].status = "ready"
    PROVE  ClaimsOrRests(s, ClaimReady(s, t, w), w)
<1>1. CASE LeaseConflicts(s, t, w) # {}
  BY <1>1, AcquireRests DEF ClaimReady, AttemptsGood
<1>2. CASE LeaseConflicts(s, t, w) = {}
  <2> DEFINE u == TakeTask(s, t, w)
             v == ClaimReady(s, t, w)
             task == [s.tasks[t] EXCEPT !.status = "assigned", !.worker = w, !.lastWorker = w]
  <2>1. /\ u \in RuntimeState /\ u.tasks = s.tasks /\ u.reviews = s.reviews
        /\ u.workers = s.workers
        /\ \A x \in TaskIds \ {t} : u.taskAttempts[x] = s.taskAttempts[x]
        /\ u.taskAttempts[t] = Taken(s.taskAttempts[t], w)
    BY TakeTaskType, TakeTaskEffect DEF AttemptsGood
  <2>2. /\ v.tasks = [s.tasks EXCEPT ![t] = task]
        /\ v.reviews = u.reviews /\ v.taskAttempts = u.taskAttempts
        /\ v.workers = [u.workers EXCEPT ![w] = Busy(u.workers[w], t)]
    <3> HIDE DEF u, v
    <3>1. v = [u EXCEPT
                !.tasks[t] = [@ EXCEPT !.status = "assigned", !.worker = w, !.lastWorker = w],
                !.assignments[t] = AssignedTo(w), !.workers[w] = Busy(@, t)]
      BY <1>2 DEF ClaimReady, u, v
    <3> QED BY <2>1, <3>1 DEF RuntimeState
  <2>3. s.tasks \in [TaskIds -> Task] BY DEF Sound, RuntimeState
  <2>4. task.status = "assigned" /\ task.worker = w BY <2>3 DEF Task
  <2> HIDE DEF u, v, task
  <2>5. v.tasks[t] = task /\ \A x \in TaskIds \ {t} : v.tasks[x] = s.tasks[x] BY <2>2, <2>3
  <2>6. Claims(s, v, t, w) BY <2>1, <2>2, <2>4, <2>5 DEF Claims
  <2>7. \A x \in TaskIds \ {t} : Rests(s, v, x) BY <2>1, <2>2, <2>5 DEF Rests
  <2>8. u.workers[w] \in Worker /\ u.workers \in [Workers -> Worker] BY <2>1 DEF RuntimeState
  <2>9. v.workers[w].currentTask = t /\ \A x \in Workers \ {w} : v.workers[x] = s.workers[x]
    BY <2>1, <2>2, <2>8 DEF Busy, Worker
  <2>10. Owned(v)
    <3> SUFFICES ASSUME NEW x \in Workers, v.workers[x].currentTask # NoTask
                 PROVE  LET job == v.tasks[v.workers[x].currentTask]
                        IN job.worker = x /\ job.status \in {"assigned", "in_progress"}
      BY DEF Owned
    <3>1. CASE x = w BY <2>4, <2>5, <2>9, <3>1
    <3>2. CASE x # w
      <4>1. v.workers[x] = s.workers[x] BY <2>9, <3>2
      <4> DEFINE c == s.workers[x].currentTask
      <4>2. c \in TaskIds BY <2>1, <2>8, <4>1 DEF Worker
      <4>3. s.tasks[c].worker = x /\ s.tasks[c].status \in {"assigned", "in_progress"}
        BY <4>1 DEF AttemptsGood, Owned
      <4>4. c # t BY <4>3
      <4> QED BY <2>5, <4>1, <4>2, <4>3, <4>4
    <3> QED BY <3>1, <3>2
  <2> QED BY <2>6, <2>7, <2>10 DEF ClaimsOrRests, v
<1> QED BY <1>1, <1>2

(* claimAssignedTaskForWorker cleans up, then gives the worker a task or    *)
(* none.                                                                    *)
LEMMA ClaimAssignedTaskClaims ==
    ASSUME NEW s, Sound(s), AttemptsGood(s), NEW w \in Workers
    PROVE  LET u == ClaimAssignedTask(s, w)
           IN \E mid : /\ Sound(mid) /\ AttemptsGood(mid)
                       /\ \A t \in TaskIds : CleansUp(s, mid, t)
                       /\ ClaimsOrRests(mid, u, w)
<1> DEFINE reconciled == Reconcile(s)
           u == Revive(s, reconciled, w)
           claimed == ClaimOnceReconciled(u, w)
<1>1. Sound(reconciled) /\ AttemptsGood(reconciled)
      /\ \A t \in TaskIds : CleansUp(s, reconciled, t)
  BY ReconcileCleans
<1>2. ClaimAssignedTask(s, w) = IF reconciled.workers[w].disabled THEN reconciled ELSE claimed
  BY DEF ClaimAssignedTask
<1> HIDE DEF reconciled
<1>3. reconciled \in RuntimeState /\ reconciled.workers \in [Workers -> Worker]
  BY <1>1 DEF Sound, RuntimeState
<1>4. /\ Sound(u) /\ u.tasks = reconciled.tasks /\ u.taskAttempts = reconciled.taskAttempts
      /\ u.reviews = reconciled.reviews
      /\ \A x \in Workers : u.workers[x].currentTask = reconciled.workers[x].currentTask
  <2> DEFINE y == [reconciled.workers[w] EXCEPT !.status = "idle", !.age = 0]
  <2>1. y \in Worker /\ y.currentTask = reconciled.workers[w].currentTask
    BY <1>3, ConstantTypes DEF Worker
  <2>2. u = reconciled \/ u = [reconciled EXCEPT !.workers[w] = y] BY DEF Revive
  <2> HIDE DEF y, u
  <2>3. Sound(u) BY <1>1, <2>1, <2>2, WorkerSound
  <2> QED BY <1>3, <2>1, <2>2, <2>3 DEF RuntimeState
<1> HIDE DEF u
<1>5. (\A t \in TaskIds : CleansUp(s, u, t)) /\ AttemptsGood(u)
  BY <1>1, <1>4 DEF CleansUp, Rests, Requeues, Expires, AttemptsGood, Fits, Owned
<1>6. ClaimsOrRests(u, claimed, w)
  <2>1. BoundTask(u, w) # NoTask =>
          BoundTask(u, w) \in TaskIds /\ u.workers[w].currentTask = BoundTask(u, w)
    BY <1>4 DEF BoundTask, Sound, RuntimeState, Worker
  <2>2. PreAssigned(u, w) # {} =>
          FirstOf(PreAssigned(u, w)) \in TaskIds /\ FirstOf(PreAssigned(u, w)) \in PreAssigned(u, w)
    BY FirstIsLeast, ConstantTypes DEF PreAssigned
  <2>3. Claimable(u, w) # {} => /\ FirstOf(Claimable(u, w)) \in TaskIds
                                /\ u.tasks[FirstOf(Claimable(u, w))].status = "ready"
    <3>1. Claimable(u, w) \in SUBSET Nat BY ConstantTypes DEF Claimable
    <3>2. \A t \in Claimable(u, w) : t \in TaskIds /\ u.tasks[t].status = "ready"
      BY DEF Claimable
    <3> QED BY <3>1, <3>2, FirstIsLeast
  <2>4. ClaimsOrRests(u, u, w) BY <1>5 DEF ClaimsOrRests, Rests, AttemptsGood
  <2> QED BY <1>4, <1>5, <2>1, <2>2, <2>3, <2>4,
             ClaimBoundClaims, ClaimPreAssignedClaims, ClaimReadyClaims
          DEF ClaimOnceReconciled
<1>7. ClaimsOrRests(reconciled, reconciled, w) BY <1>1 DEF ClaimsOrRests, Rests, AttemptsGood
<1>8. CASE reconciled.workers[w].disabled BY <1>1, <1>2, <1>7, <1>8
<1>9. CASE ~reconciled.workers[w].disabled BY <1>2, <1>4, <1>5, <1>6, <1>9
<1> QED BY <1>8, <1>9

(* A start runs the attempt the worker was given. *)
LEMMA BeginTaskBegins ==
    ASSUME NEW s, Sound(s), AttemptsGood(s), NEW t \in TaskIds, NEW w \in Workers, NEW i,
           MayBegin(s, w, t, i)
    PROVE  LET u == BeginTask(s, w, t)
           IN Begins(s, u, t) /\ KeepsAllBut(s, u, t) /\ Owned(u)
<1> DEFINE acquired == AcquireTaskLeases(s, t, w)
           seq == s.taskAttempts[t]
           attempt == [ActiveAttempt(s, t) EXCEPT !.status = "running", !.ttl = LeaseTTL]
           running == WithActiveAttempt(acquired, t, attempt)
           started == SetStatus(running, t, "in_progress")
           u == [started EXCEPT !.assignments[t].claimed = TRUE,
                                !.workers[w] = Busy(started.workers[w], t)]
<1>1. /\ HasActiveAttempt(s, t) /\ s.tasks[t].status = "assigned" /\ s.tasks[t].worker = w
      /\ ActiveAttempt(s, t).worker = w
  BY DEF MayBegin, OwnsActiveAttempt
<1>2. LatestIs(seq, Active) /\ ~Ended(seq) BY <1>1, AttemptOpen, EndedHasNone DEF AttemptsGood
<1>3. ActiveAttempt(s, t) = Latest(seq) BY <1>2, ActiveIsLatest
<1>4. attempt \in Attempt BY <1>1, ActiveAttemptType, ConstantTypes DEF Sound, Attempt
<1>5. BeginTask(s, w, t) = u BY DEF BeginTask
<1>6. attempt = [Latest(seq) EXCEPT !.status = "running", !.ttl = LeaseTTL] BY <1>3
<1> HIDE DEF attempt
<1>7. /\ Sound(acquired) /\ acquired.tasks = s.tasks /\ acquired.reviews = s.reviews
      /\ acquired.workers = s.workers /\ acquired.taskAttempts = s.taskAttempts
  BY TaskLeasesSound, OthersKeepTasks, OthersKeepAttempts DEF KeepsTasks
<1> HIDE DEF acquired
<1>8. /\ Sound(running) /\ running.tasks = s.tasks /\ running.reviews = s.reviews
      /\ running.workers = s.workers
      /\ \A v \in TaskIds \ {t} : running.taskAttempts[v] = s.taskAttempts[v]
      /\ running.taskAttempts[t] = WithLatest(seq, attempt)
  BY <1>2, <1>4, <1>7, WithActiveAttemptSound, WithActiveAttemptEffect
<1> HIDE DEF running
<1>9. /\ Sound(started) /\ started.taskAttempts = running.taskAttempts
      /\ started.reviews = s.reviews /\ started.workers = s.workers
  BY <1>8, SetStatusSound, OthersKeepAttempts
<1>10. started.tasks = [s.tasks EXCEPT ![t].status = "in_progress"]
  BY <1>8 DEF SetStatus, Sound, RuntimeState
<1> HIDE DEF started
<1>11. /\ u.tasks = started.tasks /\ u.taskAttempts = started.taskAttempts
       /\ u.reviews = started.reviews
       /\ u.workers = [s.workers EXCEPT ![w] = Busy(s.workers[w], t)]
  BY <1>9 DEF Sound, RuntimeState
<1> HIDE DEF u
<1>12. s.tasks \in [TaskIds -> Task] /\ s.workers \in [Workers -> Worker]
  BY DEF Sound, RuntimeState
<1>13. /\ u.tasks[t].status = "in_progress" /\ u.tasks[t].worker = s.tasks[t].worker
       /\ \A v \in TaskIds \ {t} : u.tasks[v] = s.tasks[v]
  BY <1>10, <1>11, <1>12 DEF Task
<1>14. Begins(s, u, t)
  BY <1>1, <1>2, <1>3, <1>6, <1>8, <1>9, <1>11, <1>13 DEF Begins
<1>15. KeepsAllBut(s, u, t) BY <1>8, <1>9, <1>11, <1>13 DEF KeepsAllBut, Rests
<1>16. u.workers[w].currentTask = t /\ \A x \in Workers \ {w} : u.workers[x] = s.workers[x]
  BY <1>11, <1>12 DEF Busy, Worker
<1>17. Owned(u)
  <2> SUFFICES ASSUME NEW x \in Workers, u.workers[x].currentTask # NoTask
               PROVE  LET task == u.tasks[u.workers[x].currentTask]
                      IN task.worker = x /\ task.status \in {"assigned", "in_progress"}
    BY DEF Owned
  <2>1. CASE x = w BY <1>1, <1>13, <1>16, <2>1
  <2>2. CASE x # w
    <3> DEFINE c == s.workers[x].currentTask
    <3>1. u.workers[x] = s.workers[x] BY <1>16, <2>2
    <3>2. c \in TaskIds BY <1>12, <3>1 DEF Worker
    <3>3. s.tasks[c].worker = x /\ s.tasks[c].status \in {"assigned", "in_progress"}
      BY <3>1 DEF AttemptsGood, Owned
    <3>4. c # t BY <1>1, <2>2, <3>3
    <3> QED BY <1>13, <3>1, <3>2, <3>3, <3>4
  <2> QED BY <2>1, <2>2
<1> QED BY <1>5, <1>14, <1>15, <1>17

-----------------------------------------------------------------------------
(* Results, reviews and operator requests *)

(* The workers of a task let go of it, and only its record is written. *)
LEMMA ReleasedOwned ==
    ASSUME NEW s, Sound(s), AttemptsGood(s), NEW u, NEW t \in TaskIds,
           \A v \in TaskIds \ {t} : u.tasks[v] = s.tasks[v],
           \A w \in Workers : \/ u.workers[w].currentTask = NoTask
                              \/ /\ u.workers[w].currentTask = s.workers[w].currentTask
                                 /\ s.workers[w].currentTask # t
    PROVE  Owned(u)
<1>1. s.workers \in [Workers -> Worker] BY DEF Sound, RuntimeState
<1>2. \A w \in Workers : s.workers[w].currentTask \in TaskIds \cup {NoTask} BY <1>1 DEF Worker
<1> QED BY <1>2 DEF AttemptsGood, Owned

(* Nobody has a task that is neither assigned nor in progress. *)
LEMMA NobodyHas ==
    ASSUME NEW s, Owned(s), NEW t \in TaskIds, s.tasks[t].status \notin {"assigned", "in_progress"}
    PROVE  \A w \in Workers : s.workers[w].currentTask # t
<1>1. t # NoTask BY ConstantTypes
<1> QED BY <1>1 DEF Owned

(* A result ends the attempt and frees its worker. *)
LEMMA RecordResultDelivers ==
    ASSUME NEW s, Sound(s), AttemptsGood(s), NEW t \in TaskIds, NEW w \in Workers, NEW i,
           MayRecordResult(s, w, t, i),
           NEW outcome \in {"passed", "recoverable", "unrecoverable"}
    PROVE  LET u == RecordResult(s, w, t, outcome)
           IN /\ Delivers(s, u, t) /\ Owned(u)
              /\ u.taskAttempts[t] = EndLatest(s.taskAttempts[t],
                                               IF outcome = "passed" THEN "succeeded" ELSE "failed")
              /\ \A v \in TaskIds \ {t} : Rests(s, u, v)
<1> DEFINE passed == outcome = "passed"
           status == IF passed THEN "review" ELSE "failed"
           ending == IF passed THEN "succeeded" ELSE "failed"
           seq == s.taskAttempts[t]
           set == SetStatus(s, t, status)
           review == [set.reviews[t] EXCEPT !.decision = "pending",
                                            !.material = IF passed THEN ActiveNo(s, t) ELSE 0,
                                            !.result = outcome]
           recorded == [set EXCEPT !.workers[w] = Freed(set.workers[w]), !.reviews[t] = review]
           attempt == [ActiveAttempt(recorded, t) EXCEPT !.status = ending, !.ttl = 0]
           ended == WithActiveAttempt(recorded, t, attempt)
           u == ReleaseTaskLeases(ended, t, w)
<1>1. /\ s.tasks[t].status \in {"assigned", "in_progress"} /\ s.tasks[t].worker = w
      /\ HasActiveAttempt(s, t)
  BY DEF MayRecordResult, OwnsActiveAttempt
<1>2. LatestIs(seq, Active) /\ ~Ended(seq) BY <1>1, AttemptOpen, EndedHasNone DEF AttemptsGood
<1>3. RecordResult(s, w, t, outcome) = u BY DEF RecordResult, EndAttempt
<1>4. status \in {"review", "failed"} /\ ending \in {"succeeded", "failed"} OBVIOUS
<1>5. status = "review" <=> passed OBVIOUS
<1>6. ActiveNo(s, t) = Len(seq) BY <1>2, ActiveIsLatest
<1>7. /\ s.tasks \in [TaskIds -> Task] /\ s.workers \in [Workers -> Worker]
      /\ s.reviews \in [TaskIds -> Review] /\ s \in RuntimeState
  BY DEF Sound, RuntimeState
<1> HIDE DEF ending
<1>8. /\ Sound(set) /\ set.taskAttempts = s.taskAttempts /\ set.reviews = s.reviews
      /\ set.workers = s.workers /\ set.tasks = [s.tasks EXCEPT ![t].status = status]
  <2> HIDE DEF status
  <2>1. Sound(set) BY <1>4, SetStatusSound
  <2>2. set.tasks = [s.tasks EXCEPT ![t].status = status] BY <1>7 DEF SetStatus, RuntimeState
  <2> QED BY <2>1, <2>2, OthersKeepAttempts
<1>9. review.material = (IF passed THEN Len(seq) ELSE 0) /\ review \in Review
  <2>1. ActiveNo(s, t) \in 0..AttemptBound
    BY <1>1, ActiveNoBound DEF AttemptNoOrZero
  <2>2. set.reviews[t] \in Review BY <1>7, <1>8
  <2>3. 0 \in 0..AttemptBound BY ConstantTypes
  <2> QED BY <1>6, <2>1, <2>2, <2>3 DEF Review
<1> HIDE DEF set, status, review
<1>10. /\ Sound(recorded) /\ recorded.tasks = set.tasks
       /\ recorded.taskAttempts = s.taskAttempts
       /\ recorded.reviews = [s.reviews EXCEPT ![t] = review]
       /\ recorded.workers = [s.workers EXCEPT ![w] = Freed(s.workers[w])]
  <2>1. Freed(s.workers[w]) \in Worker
    <3>1. s.workers[w] \in Worker BY <1>7
    <3> QED BY <1>1, <3>1, WorkerType
  <2>2. set \in RuntimeState /\ WithinBounds(set) BY <1>8 DEF Sound
  <2> QED BY <1>8, <1>9, <2>1, <2>2 DEF Sound, RuntimeState, WithinBounds
<1> HIDE DEF recorded
<1>11. /\ ActiveAttempt(recorded, t) = Latest(seq) /\ HasActiveAttempt(recorded, t)
  BY <1>2, <1>10, ActiveIsLatest
<1>12. attempt = [Latest(seq) EXCEPT !.status = ending, !.ttl = 0] BY <1>11
<1>13. attempt \in Attempt
  <2>1. Latest(seq) \in Attempt BY <1>10, <1>11, ActiveAttemptType DEF Sound
  <2> QED BY <1>4, <1>12, <2>1, ConstantTypes DEF Attempt
<1> HIDE DEF attempt
<1>14. /\ Sound(ended) /\ ended.tasks = recorded.tasks /\ ended.reviews = recorded.reviews
       /\ ended.workers = recorded.workers
       /\ \A v \in TaskIds \ {t} : ended.taskAttempts[v] = s.taskAttempts[v]
       /\ ended.taskAttempts[t] = WithLatest(seq, attempt)
  BY <1>2, <1>10, <1>13, WithActiveAttemptSound, WithActiveAttemptEffect
<1> HIDE DEF ended
<1>15. /\ u.tasks = ended.tasks /\ u.reviews = ended.reviews /\ u.workers = ended.workers
       /\ u.taskAttempts = ended.taskAttempts
  BY <1>14, OthersKeepTasks, OthersKeepAttempts DEF KeepsTasks
<1> HIDE DEF u
<1>16. /\ u.tasks[t].status = status /\ u.tasks[t].worker = s.tasks[t].worker
       /\ \A v \in TaskIds \ {t} : u.tasks[v] = s.tasks[v]
  BY <1>7, <1>8, <1>10, <1>14, <1>15 DEF Task
<1>17. u.taskAttempts[t] = EndLatest(seq, ending) BY <1>2, <1>12, <1>14, <1>15 DEF EndLatest
<1>18. u.reviews[t] = review /\ \A v \in TaskIds \ {t} : u.reviews[v] = s.reviews[v]
  BY <1>7, <1>10, <1>14, <1>15
<1>19. Delivers(s, u, t)
  <2>1. CASE passed BY <1>1, <1>2, <1>9, <1>16, <1>17, <1>18, <2>1 DEF Delivers, status, ending
  <2>2. CASE ~passed BY <1>1, <1>2, <1>16, <1>17, <2>2 DEF Delivers, status, ending
  <2> QED BY <2>1, <2>2
<1>20. \A v \in TaskIds \ {t} : Rests(s, u, v) BY <1>14, <1>15, <1>16, <1>18 DEF Rests
<1>21. u.workers[w].currentTask = NoTask /\ \A x \in Workers \ {w} : u.workers[x] = s.workers[x]
  BY <1>7, <1>10, <1>14, <1>15 DEF Freed, Worker
<1>22. \A x \in Workers \ {w} : s.workers[x].currentTask # t
  <2>1. t # NoTask BY ConstantTypes
  <2> QED BY <1>1, <2>1 DEF AttemptsGood, Owned
<1>23. Owned(u) BY <1>16, <1>21, <1>22, ReleasedOwned
<1> QED BY <1>3, <1>17, <1>19, <1>20, <1>23 DEF ending

(* A decision is about the delivery that was read. *)
LEMMA DecideReviewDecides ==
    ASSUME NEW s, Sound(s), AttemptsGood(s), NEW t \in TaskIds, NEW i \in 1..AttemptBound,
           NEW decision \in {"merge", "block", "rework"}, NEW canRedrive \in BOOLEAN,
           MayDecide(s, t, i)
    PROVE  LET u == DecideReview(s, t, i, decision, canRedrive)
           IN /\ Decides(s, u, t) /\ Owned(u)
              /\ \A v \in TaskIds \ {t} : Rests(s, u, v)
<1> DEFINE status == IF decision = "merge" THEN "merged" ELSE "blocked"
           set == SetStatus(s, t, status)
           review == [set.reviews[t] EXCEPT !.decision = decision, !.reviewed = i,
                                            !.canRedrive = canRedrive]
           decided == [set EXCEPT !.reviews[t] = review]
           u == ReleaseOwnTaskLeases(decided, t)
<1>1. s.tasks[t].status = "review" /\ i = s.reviews[t].material BY DEF MayDecide
<1>2. DecideReview(s, t, i, decision, canRedrive) = u BY DEF DecideReview
<1>3. status \in {"merged", "blocked"} /\ (status = "merged" => decision = "merge") OBVIOUS
<1>4. /\ s.tasks \in [TaskIds -> Task] /\ s.reviews \in [TaskIds -> Review] /\ s \in RuntimeState
  BY DEF Sound, RuntimeState
<1> HIDE DEF status
<1>5. /\ Sound(set) /\ set.taskAttempts = s.taskAttempts /\ set.reviews = s.reviews
      /\ set.workers = s.workers /\ set.tasks = [s.tasks EXCEPT ![t].status = status]
  <2>1. Sound(set) BY <1>3, SetStatusSound
  <2>2. set.tasks = [s.tasks EXCEPT ![t].status = status] BY <1>4 DEF SetStatus, RuntimeState
  <2> QED BY <2>1, <2>2, OthersKeepAttempts
<1> HIDE DEF set
<1>6. i \in 0..AttemptBound BY ConstantTypes
<1>7. /\ review \in Review /\ review.decision = decision /\ review.reviewed = i
      /\ review.material = s.reviews[t].material
  <2>1. set.reviews[t] \in Review BY <1>4, <1>5
  <2> QED BY <1>5, <1>6, <2>1 DEF Review
<1> HIDE DEF review
<1>8. /\ Sound(decided) /\ decided.tasks = set.tasks /\ decided.workers = s.workers
      /\ decided.taskAttempts = s.taskAttempts
      /\ decided.reviews = [s.reviews EXCEPT ![t] = review]
  BY <1>5, <1>7 DEF Sound, RuntimeState, WithinBounds
<1> HIDE DEF decided
<1>9. /\ u.tasks = set.tasks /\ u.workers = s.workers /\ u.taskAttempts = s.taskAttempts
      /\ u.reviews = [s.reviews EXCEPT ![t] = review]
  BY <1>8, OthersKeepTasks, OthersKeepAttempts DEF KeepsTasks
<1> HIDE DEF u
<1>10. /\ u.tasks[t].status = status /\ u.tasks[t].worker = s.tasks[t].worker
       /\ \A v \in TaskIds \ {t} : u.tasks[v] = s.tasks[v]
  BY <1>4, <1>5, <1>9 DEF Task
<1>11. u.reviews[t] = review /\ \A v \in TaskIds \ {t} : u.reviews[v] = s.reviews[v]
  BY <1>4, <1>9
<1>12. Decides(s, u, t) BY <1>1, <1>3, <1>7, <1>9, <1>10, <1>11 DEF Decides
<1>13. \A v \in TaskIds \ {t} : Rests(s, u, v) BY <1>9, <1>10, <1>11 DEF Rests
<1>14. \A w \in Workers : s.workers[w].currentTask # t BY <1>1, NobodyHas DEF AttemptsGood
<1>15. Owned(u) BY <1>9, <1>10, <1>14, ReleasedOwned
<1> QED BY <1>2, <1>12, <1>13, <1>15

(* An interruption parks the attempt and frees the worker. *)
LEMMA InterruptTaskAsks ==
    ASSUME NEW s, Sound(s), AttemptsGood(s), NEW t \in TaskIds, MayInterrupt(s, t),
           NEW inputTtl \in 0..NoExpiry
    PROVE  LET u == InterruptTask(s, t, inputTtl)
           IN /\ Asks(s, u, t) /\ Owned(u)
              /\ \A v \in TaskIds \ {t} : Rests(s, u, v)
<1> DEFINE freed == ReleaseWorkers(s, t)
           set == SetStatus(freed, t, "waiting_for_input")
           seq == s.taskAttempts[t]
           task == [set.tasks[t] EXCEPT !.worker = None, !.inputTtl = inputTtl,
                                        !.waitingAttempt = AttemptNoOrZero(s, t)]
           record == [set.assignments[t] EXCEPT !.worker = None]
           table == ReleaseOwnTaskLeases(s, t).leases
           waiting == [set EXCEPT !.tasks[t] = task, !.assignments[t] = record, !.leases = table]
           attempt == [ActiveAttempt(s, t) EXCEPT !.status = "checkpointed"]
           u == WithActiveAttempt(waiting, t, attempt)
<1>1. /\ s.tasks \in [TaskIds -> Task] /\ s.workers \in [Workers -> Worker] /\ s \in RuntimeState
  BY DEF Sound, RuntimeState
<1>2. /\ Sound(freed) /\ freed.tasks = s.tasks /\ freed.taskAttempts = s.taskAttempts
      /\ freed.reviews = s.reviews
      /\ \A w \in Workers : freed.workers[w].currentTask =
            IF s.workers[w].currentTask = t THEN NoTask ELSE s.workers[w].currentTask
  BY ReleaseWorkersSound, OthersKeepTasks, OthersKeepAttempts DEF KeepsTasks
<1> HIDE DEF freed
<1>3. /\ Sound(set) /\ set.taskAttempts = s.taskAttempts /\ set.reviews = s.reviews
      /\ set.workers = freed.workers
      /\ set.tasks = [s.tasks EXCEPT ![t].status = "waiting_for_input"]
  <2>1. Sound(set) BY <1>2, SetStatusSound
  <2>2. set.tasks = [freed.tasks EXCEPT ![t].status = "waiting_for_input"]
    BY <1>2 DEF SetStatus, Sound, RuntimeState
  <2> QED BY <1>2, <2>1, <2>2, OthersKeepAttempts
<1> HIDE DEF set
<1>4. InterruptTask(s, t, inputTtl) = u
  <2>1. /\ set \in RuntimeState BY <1>3 DEF Sound
  <2>2. InterruptTask(s, t, inputTtl) = WithActiveAttempt(
            [set EXCEPT !.tasks[t] = [@ EXCEPT !.worker = None, !.inputTtl = inputTtl,
                                               !.waitingAttempt = AttemptNoOrZero(s, t)],
                        !.assignments[t].worker = None,
                        !.leases = ReleaseOwnTaskLeases(s, t).leases],
            t, attempt)
    BY DEF InterruptTask, set, freed
  <2> QED BY <2>2
<1>5. AttemptNoOrZero(s, t) \in 0..AttemptBound BY ActiveNoBound
<1>6. /\ task \in Task /\ task.status = "waiting_for_input" /\ task.worker = None
      /\ task.waitingAttempt = AttemptNoOrZero(s, t)
  <2>1. set.tasks[t] \in Task /\ set.tasks[t].status = "waiting_for_input"
    BY <1>1, <1>3 DEF Task
  <2> QED BY <1>5, <2>1 DEF Task
<1>7. record \in Assignment
  <2>1. set.assignments[t] \in Assignment BY <1>3 DEF Sound, RuntimeState
  <2> QED BY <2>1 DEF Assignment
<1>8. table \in [Resources -> Lease] BY ReleaseOwnTaskLeasesSound DEF Sound, RuntimeState
<1> HIDE DEF task, record, table
<1>9. /\ Sound(waiting) /\ waiting.tasks = [set.tasks EXCEPT ![t] = task]
      /\ waiting.taskAttempts = s.taskAttempts /\ waiting.reviews = s.reviews
      /\ waiting.workers = freed.workers
  BY <1>3, <1>6, <1>7, <1>8 DEF Sound, RuntimeState, WithinBounds
<1> HIDE DEF waiting
<1>10. Ended(seq) \/ LatestIs(seq, Active) BY AttemptOpen DEF AttemptsGood
<1>11. /\ u.tasks = waiting.tasks /\ u.reviews = s.reviews /\ u.workers = freed.workers
       /\ \A v \in TaskIds \ {t} : u.taskAttempts[v] = s.taskAttempts[v]
       /\ u.taskAttempts[t] = IF Ended(seq) THEN seq ELSE WithLatest(seq, attempt)
  BY <1>9, <1>10, WithActiveAttemptEffect
<1> HIDE DEF u
<1>12. u.tasks[t] = task /\ \A v \in TaskIds \ {t} : u.tasks[v] = s.tasks[v]
  BY <1>1, <1>3, <1>9, <1>11
<1>13. Asks(s, u, t)
  <2>1. s.tasks[t].status \in {"ready", "assigned", "in_progress", "blocked"} BY DEF MayInterrupt
  <2>2. CASE Ended(seq)
    <3>1. AttemptNoOrZero(s, t) = 0 BY <2>2, EndedHasNone DEF AttemptNoOrZero
    <3> QED BY <1>6, <1>11, <1>12, <2>1, <2>2, <3>1 DEF Asks
  <2>3. CASE ~Ended(seq)
    <3>1. /\ AttemptNoOrZero(s, t) = Len(seq)
          /\ attempt = [Latest(seq) EXCEPT !.status = "checkpointed"]
      BY <1>10, <2>3, ActiveIsLatest DEF AttemptNoOrZero
    <3> QED BY <1>6, <1>11, <1>12, <2>1, <2>3, <3>1 DEF Asks
  <2> QED BY <2>2, <2>3
<1>14. \A v \in TaskIds \ {t} : Rests(s, u, v) BY <1>11, <1>12 DEF Rests
<1>15. Owned(u) BY <1>2, <1>11, <1>12, ReleasedOwned
<1> QED BY <1>4, <1>13, <1>14, <1>15

(* A resumption queues the task, which nobody has. *)
LEMMA ResumeTaskResumes ==
    ASSUME NEW s, Sound(s), AttemptsGood(s), NEW t \in TaskIds, MayResume(s, t)
    PROVE  LET u == ResumeTask(s, t)
           IN /\ Resumes(s, u, t) /\ Owned(u)
              /\ \A v \in TaskIds \ {t} : Rests(s, u, v)
<1> DEFINE u == ResumeTask(s, t)
           task == [s.tasks[t] EXCEPT !.status = "ready", !.worker = None,
                                      !.waitingAttempt = 0, !.inputTtl = 0]
<1>1. s.tasks \in [TaskIds -> Task] /\ s \in RuntimeState BY DEF Sound, RuntimeState
<1>2. /\ u.tasks = [s.tasks EXCEPT ![t] = task] /\ u.taskAttempts = s.taskAttempts
      /\ u.reviews = s.reviews /\ u.workers = s.workers
  BY <1>1 DEF ResumeTask, RuntimeState
<1>3. task.status = "ready" /\ task.worker = None BY <1>1 DEF Task
<1> HIDE DEF task, u
<1>4. u.tasks[t] = task /\ \A v \in TaskIds \ {t} : u.tasks[v] = s.tasks[v] BY <1>1, <1>2
<1>5. s.tasks[t].status = "waiting_for_input" BY DEF MayResume
<1>6. Resumes(s, u, t) BY <1>2, <1>3, <1>4, <1>5 DEF Resumes
<1>7. \A v \in TaskIds \ {t} : Rests(s, u, v) BY <1>2, <1>4 DEF Rests
<1>8. \A w \in Workers : s.workers[w].currentTask # t BY <1>5, NobodyHas DEF AttemptsGood
<1>9. \A w \in Workers : u.workers[w].currentTask = s.workers[w].currentTask BY <1>2
<1>10. Owned(u) BY <1>4, <1>8, <1>9, ReleasedOwned
<1> QED BY <1>6, <1>7, <1>10 DEF u

(* A cancellation ends the attempt and frees the worker. *)
LEMMA CancelTaskCancels ==
    ASSUME NEW s, Sound(s), AttemptsGood(s), NEW t \in TaskIds, MayCancel(s, t)
    PROVE  LET u == CancelTask(s, t)
           IN /\ Cancels(s, u, t) /\ Owned(u)
              /\ \A v \in TaskIds \ {t} : Rests(s, u, v)
<1> DEFINE freed == ReleaseWorkers(s, t)
           set == SetStatus(freed, t, "cancelled")
           released == ReleaseOwnTaskLeases(set, t)
           seq == s.taskAttempts[t]
           attempt == [ActiveAttempt(released, t) EXCEPT !.status = "cancelled", !.ttl = 0]
           u == WithActiveAttempt(released, t, attempt)
<1>1. s.tasks \in [TaskIds -> Task] /\ s \in RuntimeState BY DEF Sound, RuntimeState
<1>2. /\ Sound(freed) /\ freed.tasks = s.tasks /\ freed.taskAttempts = s.taskAttempts
      /\ freed.reviews = s.reviews
      /\ \A w \in Workers : freed.workers[w].currentTask =
            IF s.workers[w].currentTask = t THEN NoTask ELSE s.workers[w].currentTask
  BY ReleaseWorkersSound, OthersKeepTasks, OthersKeepAttempts DEF KeepsTasks
<1>3. CancelTask(s, t) = u BY DEF CancelTask, EndAttempt
<1> HIDE DEF freed
<1>4. /\ Sound(set) /\ set.taskAttempts = s.taskAttempts /\ set.reviews = s.reviews
      /\ set.workers = freed.workers
      /\ set.tasks = [s.tasks EXCEPT ![t].status = "cancelled"]
  <2>1. Sound(set) BY <1>2, SetStatusSound
  <2>2. set.tasks = [freed.tasks EXCEPT ![t].status = "cancelled"]
    BY <1>2 DEF SetStatus, Sound, RuntimeState
  <2> QED BY <1>2, <2>1, <2>2, OthersKeepAttempts
<1> HIDE DEF set
<1>5. /\ Sound(released) /\ released.tasks = set.tasks
      /\ released.taskAttempts = s.taskAttempts
      /\ released.reviews = s.reviews /\ released.workers = freed.workers
  BY <1>4, ReleaseOwnTaskLeasesSound, OthersKeepTasks, OthersKeepAttempts DEF KeepsTasks
<1> HIDE DEF released
<1>6. Ended(seq) \/ LatestIs(seq, Active) BY AttemptOpen DEF AttemptsGood
<1>7. /\ u.tasks = set.tasks /\ u.reviews = s.reviews /\ u.workers = freed.workers
      /\ \A v \in TaskIds \ {t} : u.taskAttempts[v] = s.taskAttempts[v]
      /\ u.taskAttempts[t] = IF Ended(seq) THEN seq ELSE WithLatest(seq, attempt)
  BY <1>5, <1>6, WithActiveAttemptEffect
<1>8. ~Ended(seq) => attempt = [Latest(seq) EXCEPT !.status = "cancelled", !.ttl = 0]
  BY <1>5, <1>6, ActiveIsLatest
<1> HIDE DEF u, attempt
<1>9. u.taskAttempts[t] = EndLatest(seq, "cancelled") BY <1>7, <1>8 DEF EndLatest
<1>10. /\ u.tasks[t].status = "cancelled" /\ u.tasks[t].worker = s.tasks[t].worker
       /\ \A v \in TaskIds \ {t} : u.tasks[v] = s.tasks[v]
  BY <1>1, <1>4, <1>7 DEF Task
<1>11. Cancels(s, u, t) BY <1>9, <1>10 DEF Cancels, MayCancel, Final
<1>12. \A v \in TaskIds \ {t} : Rests(s, u, v) BY <1>7, <1>10 DEF Rests
<1>13. Owned(u) BY <1>2, <1>7, <1>10, ReleasedOwned
<1> QED BY <1>3, <1>11, <1>12, <1>13

-----------------------------------------------------------------------------
(* A new task *)

(* A dispatch adds tasks and leaves the others as they are. *)
Grows(s, u, t) == Rests(s, u, t) \/ Creates(s, u, t)

LEMMA DispatchTaskGrows ==
    ASSUME NEW began, NEW s, Sound(s), AttemptsGood(s), Dense(s), NEW input \in TaskInput,
           NextTaskId(s) \in TaskIds, NEW u \in DispatchTask(began, s, input)
    PROVE  Owned(u) /\ \A t \in TaskIds : Grows(s, u, t)
<1> DEFINE n == NextTaskId(s)
<1>1. PICK w \in Candidates(began, s, input) : u = AddTask(s, n, input, w) BY DEF DispatchTask
<1>2. w \in Workers \cup {None} BY CandidatesType
<1>3. input.deps # {} => w = None BY DEF Candidates
<1>4. n \in Nat \ {0} BY NextTaskIdType
<1>5. ~Exists(s, n) BY <1>4 DEF Dense
<1>6. /\ s.tasks \in [TaskIds -> Task] /\ s.workers \in [Workers -> Worker]
      /\ s.reviews \in [TaskIds -> Review] /\ s \in RuntimeState
  BY DEF Sound, RuntimeState
<1> DEFINE status == IF input.deps # {} THEN "planned" ELSE IF w = None THEN "ready" ELSE "assigned"
           review == [decision |-> "pending", material |-> 0, reviewed |-> 0,
                      result |-> "none", canRedrive |-> TRUE]
<1>7. n \in TaskIds OBVIOUS
<1> HIDE DEF n
<1>8. /\ u.tasks[n].status = status /\ u.tasks[n].worker = w
      /\ u.taskAttempts = s.taskAttempts
      /\ \A t \in TaskIds \ {n} : u.tasks[t] = s.tasks[t] /\ u.reviews[t] = s.reviews[t]
      /\ u.workers = [v \in Workers |-> IF v = w THEN Busy(s.workers[v], n) ELSE s.workers[v]]
  BY <1>1, <1>6, <1>7 DEF AddTask, RuntimeState
<1>9. Creates(s, u, n)
  <2>1. w = None => status \in {"planned", "ready"} OBVIOUS
  <2>2. w # None => status = "assigned" BY <1>3
  <2> HIDE DEF status
  <2> QED BY <1>2, <1>5, <1>8, <2>1, <2>2 DEF Creates, Exists
<1>10. \A t \in TaskIds \ {n} : Rests(s, u, t) BY <1>8 DEF Rests
<1>11. Owned(u)
  <2> SUFFICES ASSUME NEW x \in Workers, u.workers[x].currentTask # NoTask
               PROVE  LET task == u.tasks[u.workers[x].currentTask]
                      IN task.worker = x /\ task.status \in {"assigned", "in_progress"}
    BY DEF Owned
  <2>1. CASE x = w
    <3>1. s.workers[x] \in Worker BY <1>6
    <3>2. u.workers[x].currentTask = n BY <1>8, <2>1, <3>1 DEF Busy, Worker
    <3>3. w # None BY <2>1, LeasesAssumption
    <3> QED BY <1>3, <1>8, <2>1, <3>2, <3>3
  <2>2. CASE x # w
    <3> DEFINE c == s.workers[x].currentTask
    <3>1. u.workers[x] = s.workers[x] BY <1>8, <2>2
    <3>2. c \in TaskIds BY <1>6, <3>1 DEF Worker
    <3>3. s.tasks[c].worker = x /\ s.tasks[c].status \in {"assigned", "in_progress"}
      BY <3>1 DEF AttemptsGood, Owned
    <3>4. c # n BY <1>5, <3>3 DEF Exists
    <3> QED BY <1>8, <3>1, <3>2, <3>3, <3>4
  <2> QED BY <2>1, <2>2
<1> QED BY <1>7, <1>9, <1>10, <1>11 DEF Grows

(* A task is created once. *)
LEMMA GrowsTransitive ==
    ASSUME NEW s, NEW u, NEW v, NEW t, Grows(s, u, t), Grows(u, v, t)
    PROVE  Grows(s, v, t)
BY DEF Grows, Rests, Creates

(* Its attempts are good. *)
LEMMA GrowsGood ==
    ASSUME NEW s, NEW u, NEW t \in TaskIds, Fits(s, t), Grows(s, u, t)
    PROVE  KeepsGood(s, u, t)
BY RestsGood, CreatesGood DEF Grows

(* createDispatch adds one task or two. *)
LEMMA CreateDispatchGrows ==
    ASSUME NEW s, Sound(s), AttemptsGood(s), Ordered(s), NEW d \in Dispatches,
           NextTaskId(s) + Len(d) - 1 \in TaskIds, NEW u \in CreateDispatch(s, d)
    PROVE  Owned(u) /\ \A t \in TaskIds : Grows(s, u, t)
<1>1. d \in Seq(TaskInput) /\ Len(d) \in {1, 2} /\ \A i \in 1..Len(d) : d[i] \in TaskInput
  BY DispatcherAssumption, ElementOfSeq
<1>2. NextTaskId(s) \in Nat \ {0} BY NextTaskIdType
<1>3. TaskIds = 1..MaxTasks /\ MaxTasks \in Nat BY ConstantTypes DEF TaskIds
<1>4. NextTaskId(s) \in TaskIds
  <2> DEFINE n == NextTaskId(s)
             k == Len(d)
  <2>1. n \in Nat \ {0} /\ k \in {1, 2} /\ n + k - 1 \in TaskIds BY <1>1, <1>2
  <2> HIDE DEF n, k
  <2>2. n \in TaskIds BY <1>3, <2>1
  <2> QED BY <2>2 DEF n
<1>5. CASE Len(d) = 1
  <2>1. d[1] \in TaskInput BY <1>1, <1>5
  <2>2. u \in DispatchTask(s, s, d[1]) BY <1>5 DEF CreateDispatch
  <2> QED BY <1>4, <2>1, <2>2, DispatchTaskGrows DEF Ordered
<1>6. CASE Len(d) = 2
  <2>1. d[1] \in TaskInput /\ d[2] \in TaskInput BY <1>1, <1>6
  <2>2. PICK first \in DispatchTask(s, s, d[1]) : u \in DispatchTask(s, first, d[2])
    BY <1>6 DEF CreateDispatch
  <2>3. Sound(first) /\ NextTaskId(first) \in 1..(NextTaskId(s) + 1)
    BY <1>4, <2>1, <2>2, DispatchTaskSound
  <2>4. NextTaskId(first) \in TaskIds BY <1>2, <1>3, <1>6, <2>3
  <2>5. Dense(first) BY <1>4, <2>1, <2>2, DispatchTaskMoves DEF Ordered
  <2>6. Owned(first) /\ \A t \in TaskIds : Grows(s, first, t)
    BY <1>4, <2>1, <2>2, DispatchTaskGrows DEF Ordered
  <2>7. AttemptsGood(first) BY <2>6, GrowsGood DEF AttemptsGood, KeepsGood
  <2>8. Owned(u) /\ \A t \in TaskIds : Grows(first, u, t)
    BY <2>1, <2>2, <2>3, <2>4, <2>5, <2>7, DispatchTaskGrows
  <2> QED BY <2>6, <2>8, GrowsTransitive
<1> QED BY <1>1, <1>5, <1>6

-----------------------------------------------------------------------------
(* The functions that write worker records, and time *)

SameCurrent(s, u) == \A w \in Workers : u.workers[w].currentTask = s.workers[w].currentTask

(* Resting is refreshing nothing. *)
LEMMA RestsRefreshes ==
    ASSUME NEW s, NEW u, NEW t, Rests(s, u, t)
    PROVE  Refreshes(s, u, t)
BY DEF Rests, Refreshes

(* A heartbeat renews the open attempt, which is the worker's. *)
LEMMA HeartbeatWorkerRefreshes ==
    ASSUME NEW s, Sound(s), AttemptsGood(s), NEW w \in Workers
    PROVE  LET u == HeartbeatWorker(s, w)
           IN SameCurrent(s, u) /\ \A t \in TaskIds : Refreshes(s, u, t)
<1> DEFINE t == s.workers[w].currentTask
           status == IF t # NoTask THEN "busy"
                     ELSE IF s.workers[w].status = "offline" THEN "idle" ELSE s.workers[w].status
           x == [s.workers[w] EXCEPT !.age = 0, !.status = status]
           beat == [s EXCEPT !.workers[w] = x]
           renewed == [beat EXCEPT !.leases = Acquire(beat.leases, ResourcesOf(beat, t), w)]
           attempt == [ActiveAttempt(beat, t) EXCEPT !.ttl = LeaseTTL]
<1>1. s.workers \in [Workers -> Worker] /\ s \in RuntimeState BY DEF Sound, RuntimeState
<1>2. HeartbeatWorker(s, w) = IF RenewsTask(beat, w) THEN Renew(beat, t, w) ELSE beat
  BY <1>1 DEF HeartbeatWorker, RuntimeState
<1>3. x \in Worker /\ x.currentTask = t
  <2>1. s.workers[w] \in Worker BY <1>1
  <2> QED BY <2>1, ConstantTypes DEF Worker
<1> HIDE DEF x
<1>4. /\ Sound(beat) /\ beat.tasks = s.tasks /\ beat.taskAttempts = s.taskAttempts
      /\ beat.reviews = s.reviews /\ SameCurrent(s, beat) /\ beat.workers[w].currentTask = t
  BY <1>1, <1>3, WorkerSound DEF SameCurrent, RuntimeState
<1> HIDE DEF beat
<1>5. CASE ~RenewsTask(beat, w) BY <1>2, <1>4, <1>5, RestsRefreshes DEF Rests
<1>6. CASE RenewsTask(beat, w)
  <2>1. HasActiveAttempt(beat, t) /\ t # NoTask BY <1>4, <1>6 DEF RenewsTask
  <2>2. t \in TaskIds BY <1>1, <2>1 DEF Worker
  <2>3. HasActiveAttempt(s, t) BY <1>4, <2>1, SameAttempts
  <2> DEFINE seq == s.taskAttempts[t]
  <2>4. LatestIs(seq, Active) /\ ~Ended(seq) /\ seq \in Seq(Attempt)
    BY <2>2, <2>3, AttemptOpen, EndedHasNone, AttemptsType DEF AttemptsGood
  <2>5. ActiveAttempt(beat, t) = Latest(seq) BY <1>4, <2>2, <2>4, ActiveIsLatest
  <2>6. Latest(seq) \in Attempt BY <2>4, LatestType DEF LatestIs
  <2>7. /\ attempt \in Attempt /\ attempt.status = Latest(seq).status
        /\ attempt.worker = Latest(seq).worker
    BY <2>5, <2>6, ConstantTypes DEF Attempt
  <2>8. /\ Sound(renewed) /\ renewed.tasks = s.tasks /\ renewed.taskAttempts = s.taskAttempts
        /\ renewed.reviews = s.reviews /\ renewed.workers = beat.workers
    <3>1. Acquire(beat.leases, ResourcesOf(beat, t), w) \in [Resources -> Lease]
      BY <1>4, LeaseTableType DEF Sound, RuntimeState
    <3> QED BY <1>4, <3>1, LeasesSound DEF Sound, RuntimeState
  <2>9. Renew(beat, t, w) = WithActiveAttempt(renewed, t, attempt)
    BY <1>4 DEF Renew, Sound, RuntimeState
  <2> HIDE DEF renewed, attempt
  <2> DEFINE u == HeartbeatWorker(s, w)
  <2>10. /\ u.tasks = s.tasks /\ u.reviews = s.reviews /\ u.workers = beat.workers
         /\ \A v \in TaskIds \ {t} : u.taskAttempts[v] = s.taskAttempts[v]
         /\ u.taskAttempts[t] = WithLatest(seq, attempt)
    BY <1>2, <1>6, <2>2, <2>4, <2>8, <2>9, WithActiveAttemptEffect
  <2> HIDE DEF u
  <2>11. \A v \in TaskIds \ {t} : Refreshes(s, u, v) BY <2>10, RestsRefreshes DEF Rests
  <2>12. LET new == WithLatest(seq, attempt)
         IN /\ Len(new) = Len(seq) /\ Len(seq) \in DOMAIN seq
            /\ new[Len(seq)] = attempt /\ \A i \in DOMAIN seq : i # Len(seq) => new[i] = seq[i]
    BY <2>4, <2>7, LatestType, ReplaceLatest DEF LatestIs, WithLatest, Latest
  <2>13. ~Over(Latest(seq)) BY <2>4 DEF LatestIs, Active, Over, Terminal
  <2>14. Refreshes(s, u, t) BY <2>7, <2>10, <2>12, <2>13 DEF Refreshes, Latest
  <2>15. SameCurrent(s, u) BY <1>4, <2>10 DEF SameCurrent
  <2> QED BY <2>2, <2>11, <2>14, <2>15 DEF u
<1> QED BY <1>5, <1>6

(* Registering, going offline, disabling and enabling: no attempt is touched. *)
LEMMA WorkerFunctionsRefresh ==
    ASSUME NEW s, Sound(s), NEW w \in Workers,
           NEW u \in {RegisterWorker(s, w), MarkWorkerOffline(s, w), DisableWorker(s, w),
                      EnableWorker(s, w)}
    PROVE  SameCurrent(s, u) /\ \A t \in TaskIds : Refreshes(s, u, t)
<1>1. s \in RuntimeState /\ s.workers \in [Workers -> Worker] BY DEF Sound, RuntimeState
<1>2. s.workers[w] \in Worker BY <1>1
<1>3. ASSUME NEW x, x.currentTask = s.workers[w].currentTask, NEW table,
             u = [s EXCEPT !.workers[w] = x] \/ u = [s EXCEPT !.leases = table, !.workers[w] = x]
      PROVE  SameCurrent(s, u) /\ \A t \in TaskIds : Refreshes(s, u, t)
  <2>1. /\ u.tasks = s.tasks /\ u.taskAttempts = s.taskAttempts /\ u.reviews = s.reviews
        /\ u.workers = [s.workers EXCEPT ![w] = x]
    BY <1>1, <1>3 DEF RuntimeState
  <2>2. SameCurrent(s, u) BY <1>1, <1>3, <2>1 DEF SameCurrent
  <2> QED BY <2>1, <2>2, RestsRefreshes DEF Rests
<1>4. CASE u = RegisterWorker(s, w)
  <2> DEFINE status == IF s.workers[w].status = "absent" THEN "idle" ELSE s.workers[w].status
             x == [status |-> status, disabled |-> FALSE, age |-> 0,
                   currentTask |-> s.workers[w].currentTask]
  <2>1. u = [s EXCEPT !.workers[w] = x] BY <1>4 DEF RegisterWorker
  <2>2. x.currentTask = s.workers[w].currentTask OBVIOUS
  <2> HIDE DEF x
  <2> QED BY <1>3, <2>1, <2>2
<1>5. CASE u = DisableWorker(s, w)
  <2> DEFINE x == [s.workers[w] EXCEPT !.status = "disabled", !.disabled = TRUE]
  <2>1. u = [s EXCEPT !.workers[w] = x] BY <1>5 DEF DisableWorker
  <2>2. x.currentTask = s.workers[w].currentTask BY <1>2 DEF Worker
  <2> HIDE DEF x
  <2> QED BY <1>3, <2>1, <2>2
<1>6. CASE u = EnableWorker(s, w)
  <2> DEFINE x == [s.workers[w] EXCEPT !.status = "idle", !.disabled = FALSE, !.age = 0]
  <2>1. u = [s EXCEPT !.workers[w] = x] BY <1>6 DEF EnableWorker
  <2>2. x.currentTask = s.workers[w].currentTask BY <1>2 DEF Worker
  <2> HIDE DEF x
  <2> QED BY <1>3, <2>1, <2>2
<1>7. CASE u = MarkWorkerOffline(s, w)
  <2> DEFINE t == s.workers[w].currentTask
             table == IF t = NoTask THEN s.leases ELSE Release(s.leases, ResourcesOf(s, t), w)
             released == IF t = NoTask THEN s ELSE ReleaseTaskLeases(s, t, w)
             x == [s.workers[w] EXCEPT !.status = "offline", !.age = 0]
  <2>1. released = [s EXCEPT !.leases = table] BY <1>1 DEF ReleaseTaskLeases, RuntimeState
  <2>2. u = [released EXCEPT !.workers[w] = [released.workers[w] EXCEPT !.status = "offline", !.age = 0]]
    BY <1>7 DEF MarkWorkerOffline
  <2>3. x.currentTask = s.workers[w].currentTask BY <1>2 DEF Worker
  <2> HIDE DEF table, released
  <2>4. u = [s EXCEPT !.leases = table, !.workers[w] = x] BY <1>1, <2>1, <2>2 DEF RuntimeState
  <2> HIDE DEF x
  <2> QED BY <1>3, <2>3, <2>4
<1> QED BY <1>4, <1>5, <1>6, <1>7

(* Whose tasks are whose does not depend on expiries. *)
LEMMA RefreshesAttemptsGood ==
    ASSUME NEW s, Sound(s), AttemptsGood(s), NEW u, Sound(u), SameCurrent(s, u),
           \A t \in TaskIds : Refreshes(s, u, t)
    PROVE  AttemptsGood(u)
<1>1. \A t \in TaskIds : Fits(u, t) BY AttemptsType, RefreshesGood DEF AttemptsGood, KeepsGood
<1>2. Owned(u)
  <2>1. \A w \in Workers : s.workers[w].currentTask \in TaskIds \cup {NoTask}
    BY DEF Sound, RuntimeState, Worker
  <2> QED BY <2>1 DEF SameCurrent, AttemptsGood, Owned, Refreshes
<1> QED BY <1>1, <1>2 DEF AttemptsGood
-----------------------------------------------------------------------------
(* What one request does to a task *)

(* Expiries move, what was lost is cleaned up, and the task may be claimed. *)
CleansUpAndClaims(s, u, t) ==
    \E fresh, clean :
        /\ Sound(fresh) /\ Fits(fresh, t) /\ Refreshes(s, fresh, t)
        /\ Sound(clean) /\ Fits(clean, t) /\ CleansUp(fresh, clean, t)
        /\ Rests(clean, u, t) \/ \E w \in Workers : Claims(clean, u, t, w)

(* What a task may go through without its worker. *)
QuietStep(s, u, t) ==
    \/ CleansUpAndClaims(s, u, t) \/ Decides(s, u, t) \/ Asks(s, u, t)
    \/ "resume" \in Handlers /\ Resumes(s, u, t)
    \/ Cancels(s, u, t) \/ Creates(s, u, t)

TaskStep(s, u, t) == QuietStep(s, u, t) \/ Begins(s, u, t) \/ Delivers(s, u, t)

QuietSteps(s, u) == Owned(u) /\ \A t \in TaskIds : QuietStep(s, u, t)

Steps(s, u) == Owned(u) /\ \A t \in TaskIds : TaskStep(s, u, t)

LEMMA QuietIsStep ==
    ASSUME NEW s, NEW u, QuietSteps(s, u)
    PROVE  Steps(s, u)
BY DEF QuietSteps, Steps, TaskStep

(* A handler that writes expiries and reconciles. *)
LEMMA CleansUpSteps ==
    ASSUME NEW s, Sound(s), AttemptsGood(s), NEW fresh, Sound(fresh), SameCurrent(s, fresh),
           \A t \in TaskIds : Refreshes(s, fresh, t)
    PROVE  QuietSteps(s, fresh) /\ QuietSteps(s, Reconcile(fresh))
<1>1. AttemptsGood(fresh) BY RefreshesAttemptsGood
<1> DEFINE clean == Reconcile(fresh)
<1>2. Sound(clean) /\ AttemptsGood(clean) /\ \A t \in TaskIds : CleansUp(fresh, clean, t)
  BY <1>1, ReconcileCleans
<1> HIDE DEF clean
<1>3. \A t \in TaskIds : Rests(clean, clean, t) /\ CleansUp(fresh, fresh, t)
                         /\ Rests(fresh, fresh, t)
  BY DEF Rests, CleansUp
<1>4. QuietSteps(s, fresh) BY <1>1, <1>3 DEF QuietSteps, QuietStep, CleansUpAndClaims, AttemptsGood
<1>5. QuietSteps(s, clean) BY <1>1, <1>2, <1>3 DEF QuietSteps, QuietStep, CleansUpAndClaims, AttemptsGood
<1> QED BY <1>4, <1>5 DEF clean

(* A task that is left alone. *)
LEMMA RestsSteps ==
    ASSUME NEW s, Sound(s), NEW u, NEW t, Fits(s, t), Rests(s, u, t)
    PROVE  QuietStep(s, u, t)
<1>1. Rests(s, s, t) /\ Refreshes(s, s, t) /\ CleansUp(s, s, t)
  BY RestsRefreshes DEF Rests, CleansUp
<1> QED BY <1>1 DEF QuietStep, CleansUpAndClaims

(* A claim. *)
LEMMA ClaimSteps ==
    ASSUME NEW s, Sound(s), AttemptsGood(s), NEW w \in Workers
    PROVE  QuietSteps(s, ClaimAssignedTask(s, w))
<1> DEFINE u == ClaimAssignedTask(s, w)
<1>1. PICK mid : /\ Sound(mid) /\ AttemptsGood(mid)
                 /\ \A t \in TaskIds : CleansUp(s, mid, t)
                 /\ ClaimsOrRests(mid, u, w)
  BY ClaimAssignedTaskClaims
<1> HIDE DEF u
<1>2. \A t \in TaskIds : Refreshes(s, s, t) BY RestsRefreshes DEF Rests
<1>3. ASSUME NEW t \in TaskIds PROVE QuietStep(s, u, t)
  <2>1. Rests(mid, u, t) \/ Claims(mid, u, t, w) BY <1>1 DEF ClaimsOrRests
  <2>2. Fits(s, t) /\ Fits(mid, t) BY <1>1 DEF AttemptsGood
  <2> QED BY <1>1, <1>2, <2>1, <2>2 DEF QuietStep, CleansUpAndClaims
<1>4. Owned(u) BY <1>1 DEF ClaimsOrRests
<1> QED BY <1>3, <1>4 DEF QuietSteps, u

(* A request about one task. *)
LEMMA OneSteps ==
    ASSUME NEW s, Sound(s), AttemptsGood(s), NEW u, Owned(u), NEW t \in TaskIds,
           TaskStep(s, u, t), \A v \in TaskIds \ {t} : Rests(s, u, v)
    PROVE  Steps(s, u)
BY RestsSteps DEF Steps, TaskStep, AttemptsGood

LEMMA QuietOneSteps ==
    ASSUME NEW s, Sound(s), AttemptsGood(s), NEW u, Owned(u), NEW t \in TaskIds,
           QuietStep(s, u, t), \A v \in TaskIds \ {t} : Rests(s, u, v)
    PROVE  QuietSteps(s, u)
BY RestsSteps DEF QuietSteps, AttemptsGood

(* A dispatch. *)
LEMMA GrowsSteps ==
    ASSUME NEW s, Sound(s), AttemptsGood(s), NEW u, Owned(u), \A t \in TaskIds : Grows(s, u, t)
    PROVE  QuietSteps(s, u)
<1> SUFFICES ASSUME NEW t \in TaskIds PROVE QuietStep(s, u, t) BY DEF QuietSteps
<1>1. CASE Rests(s, u, t) BY <1>1, RestsSteps DEF AttemptsGood
<1>2. CASE Creates(s, u, t) BY <1>2 DEF QuietStep
<1> QED BY <1>1, <1>2 DEF Grows

(* What no request does to the attempts of a task. *)
HistoryKept(seq, new) ==
    \A i \in DOMAIN seq :
        /\ i \in DOMAIN new
        /\ Over(seq[i]) => new[i] = seq[i]
        /\ seq[i].status = "running" => new[i].worker = seq[i].worker

(* Whatever the step, the attempts and the review of the task stay good. *)
LEMMA TaskStepGood ==
    ASSUME NEW s, Sound(s), NEW u, NEW t \in TaskIds, Fits(s, t), TaskStep(s, u, t)
    PROVE  Fits(u, t) /\ HistoryKept(s.taskAttempts[t], u.taskAttempts[t])
<1>1. SUFFICES KeepsGood(s, u, t) \/ Asks(s, u, t)
  <2>1. KeepsGood(s, u, t) => Fits(u, t) /\ HistoryKept(s.taskAttempts[t], u.taskAttempts[t])
    BY DEF KeepsGood, Continues, HistoryKept
  <2>2. Asks(s, u, t) => Fits(u, t) /\ HistoryKept(s.taskAttempts[t], u.taskAttempts[t])
    BY AsksGood DEF HistoryKept
  <2> QED BY <1>1, <2>1, <2>2
<1>2. CASE CleansUpAndClaims(s, u, t)
  <2>1. PICK fresh, clean :
            /\ Sound(fresh) /\ Fits(fresh, t) /\ Refreshes(s, fresh, t)
            /\ Sound(clean) /\ Fits(clean, t) /\ CleansUp(fresh, clean, t)
            /\ Rests(clean, u, t) \/ \E w \in Workers : Claims(clean, u, t, w)
    BY <1>2 DEF CleansUpAndClaims
  <2>2. KeepsGood(s, fresh, t) BY <2>1, AttemptsType, RefreshesGood
  <2>3. KeepsGood(fresh, clean, t) BY <2>1, CleansUpGood
  <2>4. KeepsGood(clean, u, t)
    <3>1. CASE Rests(clean, u, t) BY <2>1, <3>1, RestsGood
    <3>2. CASE \E w \in Workers : Claims(clean, u, t, w) BY <2>1, <3>2, ClaimsGood
    <3> QED BY <2>1, <3>1, <3>2
  <2> QED BY <2>2, <2>3, <2>4, ContinuesTransitive DEF KeepsGood
<1>3. CASE Begins(s, u, t) BY <1>3, BeginsGood
<1>4. CASE Delivers(s, u, t) BY <1>4, DeliversGood
<1>5. CASE Decides(s, u, t) BY <1>5, DecidesGood
<1>6. CASE Resumes(s, u, t) BY <1>6, ResumesGood
<1>7. CASE Cancels(s, u, t) BY <1>7, CancelsGood
<1>8. CASE Creates(s, u, t) BY <1>8, CreatesGood
<1> QED BY <1>2, <1>3, <1>4, <1>5, <1>6, <1>7, <1>8 DEF TaskStep, QuietStep

-----------------------------------------------------------------------------
(* The handlers *)

(* The inductive invariant: the records of a task agree (TaskInv), a        *)
(* worker's current task is its own, and the attempts and the review of     *)
(* every task are good.                                                     *)
AttemptInv == TaskInv /\ AttemptsGood(State)

LEMMA AttemptInvFacts ==
    AttemptInv => Sound(State) /\ AttemptsGood(State) /\ Ordered(State)
BY StateSound DEF AttemptInv, TaskInv

(* What a request of a worker does to every task. *)
LEMMA WorkerRequestSteps ==
    ASSUME AttemptInv, NEW w \in Workers, WorkerRequest(w)
    PROVE  Steps(State, State')
<1> DEFINE s == State
<1>1. Sound(s) /\ AttemptsGood(s) BY AttemptInvFacts
<1>2. State = s OBVIOUS
<1>3. taskAttempts = s.taskAttempts BY DEF State
<1> HIDE DEF s
<1>4. ASSUME Register(w) PROVE Steps(s, State')
  <2> DEFINE fresh == RegisterWorker(s, w)
  <2>1. Sound(fresh) BY <1>1, RegisterWorkerSound
  <2>2. SameCurrent(s, fresh) /\ \A t \in TaskIds : Refreshes(s, fresh, t)
    BY <1>1, WorkerFunctionsRefresh
  <2>3. Save(Reconcile(fresh)) BY <1>2, <1>4 DEF Register
  <2> HIDE DEF fresh
  <2>4. State' = Reconcile(fresh) BY <2>1, <2>3, ReconcileSound, SavedState
  <2> QED BY <1>1, <2>1, <2>2, <2>4, CleansUpSteps, QuietIsStep
<1>5. ASSUME Heartbeat(w) PROVE Steps(s, State')
  <2> DEFINE fresh == HeartbeatWorker(s, w)
  <2>1. Sound(fresh) BY <1>1, HeartbeatWorkerSound
  <2>2. SameCurrent(s, fresh) /\ \A t \in TaskIds : Refreshes(s, fresh, t)
    BY <1>1, HeartbeatWorkerRefreshes
  <2>3. Save(Reconcile(fresh)) BY <1>2, <1>5 DEF Heartbeat
  <2> HIDE DEF fresh
  <2>4. State' = Reconcile(fresh) BY <2>1, <2>3, ReconcileSound, SavedState
  <2> QED BY <1>1, <2>1, <2>2, <2>4, CleansUpSteps, QuietIsStep
<1>6. ASSUME Offline(w) PROVE Steps(s, State')
  <2> DEFINE fresh == MarkWorkerOffline(s, w)
  <2>1. Sound(fresh) BY <1>1, MarkWorkerOfflineSound
  <2>2. SameCurrent(s, fresh) /\ \A t \in TaskIds : Refreshes(s, fresh, t)
    BY <1>1, WorkerFunctionsRefresh
  <2>3. State' = fresh BY <1>2, <1>6, <2>1, SavedState DEF Offline
  <2> HIDE DEF fresh
  <2> QED BY <1>1, <2>1, <2>2, <2>3, CleansUpSteps, QuietIsStep
<1>7. ASSUME Claim(w) PROVE Steps(s, State')
  <2>1. Sound(ClaimAssignedTask(s, w))
    BY <1>1, <1>2, <1>7, ClaimAssignedTaskType DEF Claim, Sound
  <2>2. State' = ClaimAssignedTask(s, w) BY <1>2, <1>7, <2>1, SavedState DEF Claim
  <2> QED BY <1>1, <2>2, ClaimSteps, QuietIsStep
<1>8. ASSUME NEW t \in TaskIds, NEW i \in DOMAIN taskAttempts[t], Start(w, t, i)
      PROVE  Steps(s, State')
  <2> DEFINE u == BeginTask(s, w, t)
  <2>1. MayBegin(s, w, t, i) /\ Save(u) BY <1>2, <1>8 DEF Start
  <2>2. Sound(u) BY <1>1, <2>1, BeginTaskSound DEF MayBegin, OwnsActiveAttempt
  <2>3. Begins(s, u, t) /\ KeepsAllBut(s, u, t) /\ Owned(u) BY <1>1, <2>1, BeginTaskBegins
  <2>4. State' = u BY <2>1, <2>2, SavedState
  <2> HIDE DEF u
  <2>5. TaskStep(s, u, t) /\ \A v \in TaskIds \ {t} : Rests(s, u, v)
    BY <2>3 DEF TaskStep, KeepsAllBut
  <2> QED BY <1>1, <2>3, <2>4, <2>5, OneSteps
<1>9. ASSUME NEW t \in TaskIds, NEW i \in DOMAIN taskAttempts[t],
             NEW outcome \in {"passed", "recoverable", "unrecoverable"}, Result(w, t, i, outcome)
      PROVE  Steps(s, State')
  <2> DEFINE u == RecordResult(s, w, t, outcome)
  <2>1. MayRecordResult(s, w, t, i) /\ Save(u) BY <1>2, <1>9 DEF Result
  <2>2. Sound(u) BY <1>1, <2>1, RecordResultSound DEF MayRecordResult, OwnsActiveAttempt
  <2>3. Delivers(s, u, t) /\ Owned(u) /\ \A v \in TaskIds \ {t} : Rests(s, u, v)
    BY <1>1, <2>1, RecordResultDelivers
  <2>4. State' = u BY <2>1, <2>2, SavedState
  <2> HIDE DEF u
  <2>5. TaskStep(s, u, t) BY <2>3 DEF TaskStep
  <2> QED BY <1>1, <2>3, <2>4, <2>5, OneSteps
<1>10. ASSUME NEW t \in TaskIds, NEW i \in DOMAIN taskAttempts[t],
              NEW inputTtl \in {InputTTL, NoExpiry}, ResultAsksForInput(w, t, i, inputTtl)
       PROVE  Steps(s, State')
  <2> DEFINE u == InterruptTask(s, t, inputTtl)
  <2>1. MayRecordResult(s, w, t, i) /\ Save(u) BY <1>2, <1>10 DEF ResultAsksForInput
  <2>2. MayInterrupt(s, t) BY <2>1 DEF MayRecordResult, MayInterrupt
  <2>3. inputTtl \in 0..NoExpiry BY ConstantTypes
  <2>4. Sound(u) BY <1>1, <2>3, InterruptTaskSound
  <2>5. Asks(s, u, t) /\ Owned(u) /\ \A v \in TaskIds \ {t} : Rests(s, u, v)
    BY <1>1, <2>2, <2>3, InterruptTaskAsks
  <2>6. State' = u BY <2>1, <2>4, SavedState
  <2> HIDE DEF u
  <2>7. TaskStep(s, u, t) BY <2>5 DEF TaskStep, QuietStep
  <2> QED BY <1>1, <2>5, <2>6, <2>7, OneSteps
<1> QED BY <1>2, <1>4, <1>5, <1>6, <1>7, <1>8, <1>9, <1>10 DEF WorkerRequest

(* What a request of an operator does to every task. *)
LEMMA OperatorRequestSteps ==
    ASSUME AttemptInv, OperatorRequest
    PROVE  QuietSteps(State, State')
<1> DEFINE s == State
<1>1. Sound(s) /\ AttemptsGood(s) /\ Ordered(s) /\ Dense(s) BY AttemptInvFacts DEF Ordered
<1>2. State = s OBVIOUS
<1>3. tasks = s.tasks BY DEF State
<1> HIDE DEF s
<1>4. ASSUME NEW w \in Workers, Disable(w) \/ Enable(w) PROVE QuietSteps(s, State')
  <2>1. PICK fresh \in {DisableWorker(s, w), EnableWorker(s, w)} : Save(fresh)
    BY <1>2, <1>4 DEF Disable, Enable
  <2>2. Sound(fresh) BY <1>1, DisableWorkerSound
  <2>3. SameCurrent(s, fresh) /\ \A t \in TaskIds : Refreshes(s, fresh, t)
    BY <1>1, WorkerFunctionsRefresh
  <2>4. State' = fresh BY <2>1, <2>2, SavedState
  <2> QED BY <1>1, <2>2, <2>3, <2>4, CleansUpSteps
<1>5. ASSUME NEW d \in Dispatches, Dispatch(d) PROVE QuietSteps(s, State')
  <2>1. NextTaskId(s) + Len(d) - 1 \in TaskIds BY <1>2, <1>5 DEF Dispatch
  <2>2. PICK u \in CreateDispatch(s, d) : Save(u) BY <1>2, <1>5 DEF Dispatch
  <2>3. Sound(u) BY <1>1, <2>1, CreateDispatchSound
  <2>4. Owned(u) /\ \A t \in TaskIds : Grows(s, u, t) BY <1>1, <2>1, CreateDispatchGrows
  <2>5. State' = u BY <2>2, <2>3, SavedState
  <2> QED BY <1>1, <2>4, <2>5, GrowsSteps
<1>6. ASSUME NEW t \in TaskIds, Redrive(t) PROVE QuietSteps(s, State')
  <2>1. NextTaskId(s) \in TaskIds /\ FreeRounds(s, s.tasks[t].input.branch) # {}
    BY <1>2, <1>3, <1>6 DEF Redrive
  <2>2. PICK u \in RedriveTask(s, t) : Save(u) BY <1>2, <1>6 DEF Redrive
  <2>3. Sound(u) BY <1>1, <2>1, RedriveTaskSound
  <2>4. RedriveInput(s, t) \in TaskInput BY <1>1, <2>1, RedriveInputType
  <2>5. Owned(u) /\ \A v \in TaskIds : Grows(s, u, v)
    BY <1>1, <2>1, <2>2, <2>4, DispatchTaskGrows DEF RedriveTask
  <2>6. State' = u BY <2>2, <2>3, SavedState
  <2> QED BY <1>1, <2>5, <2>6, GrowsSteps
<1>7. ASSUME NEW t \in TaskIds, Resume(t) PROVE QuietSteps(s, State')
  <2> DEFINE u == ResumeTask(s, t)
  <2>1. "resume" \in Handlers /\ MayResume(s, t) /\ Save(u) BY <1>2, <1>7 DEF Resume
  <2>2. Resumes(s, u, t) /\ Owned(u) /\ \A v \in TaskIds \ {t} : Rests(s, u, v)
    BY <1>1, <2>1, ResumeTaskResumes
  <2>3. State' = u BY <1>1, <2>1, ResumeTaskSound, SavedState
  <2> HIDE DEF u
  <2>4. QuietStep(s, u, t) BY <2>1, <2>2 DEF QuietStep
  <2> QED BY <1>1, <2>2, <2>3, <2>4, QuietOneSteps
<1>8. ASSUME NEW t \in TaskIds, Cancel(t) PROVE QuietSteps(s, State')
  <2> DEFINE u == CancelTask(s, t)
  <2>1. MayCancel(s, t) /\ Save(u) BY <1>2, <1>8 DEF Cancel
  <2>2. Cancels(s, u, t) /\ Owned(u) /\ \A v \in TaskIds \ {t} : Rests(s, u, v)
    BY <1>1, <2>1, CancelTaskCancels
  <2>3. State' = u BY <1>1, <2>1, CancelTaskSound, SavedState
  <2> HIDE DEF u
  <2>4. QuietStep(s, u, t) BY <2>2 DEF QuietStep
  <2> QED BY <1>1, <2>2, <2>3, <2>4, QuietOneSteps
<1>9. ASSUME NEW t \in TaskIds, NEW inputTtl \in {InputTTL, NoExpiry}, Interrupt(t, inputTtl)
      PROVE  QuietSteps(s, State')
  <2> DEFINE u == InterruptTask(s, t, inputTtl)
  <2>1. MayInterrupt(s, t) /\ Save(u) BY <1>2, <1>9 DEF Interrupt
  <2>2. inputTtl \in 0..NoExpiry BY ConstantTypes
  <2>3. Asks(s, u, t) /\ Owned(u) /\ \A v \in TaskIds \ {t} : Rests(s, u, v)
    BY <1>1, <2>1, <2>2, InterruptTaskAsks
  <2>4. State' = u BY <1>1, <2>1, <2>2, InterruptTaskSound, SavedState
  <2> HIDE DEF u
  <2>5. QuietStep(s, u, t) BY <2>3 DEF QuietStep
  <2> QED BY <1>1, <2>3, <2>4, <2>5, QuietOneSteps
<1>10. ASSUME NEW t \in TaskIds, NEW i \in 1..AttemptBound,
              NEW decision \in {"merge", "block", "rework"}, NEW canRedrive \in BOOLEAN,
              Decide(t, i, decision, canRedrive)
       PROVE  QuietSteps(s, State')
  <2> DEFINE u == DecideReview(s, t, i, decision, canRedrive)
  <2>1. MayDecide(s, t, i) /\ Save(u) BY <1>2, <1>10 DEF Decide
  <2>2. Decides(s, u, t) /\ Owned(u) /\ \A v \in TaskIds \ {t} : Rests(s, u, v)
    BY <1>1, <2>1, DecideReviewDecides
  <2>3. State' = u BY <1>1, <2>1, DecideReviewSound, SavedState
  <2> HIDE DEF u
  <2>4. QuietStep(s, u, t) BY <2>2 DEF QuietStep
  <2> QED BY <1>1, <2>2, <2>3, <2>4, QuietOneSteps
<1> QED BY <1>2, <1>4, <1>5, <1>6, <1>7, <1>8, <1>9, <1>10 DEF OperatorRequest

(* Time only counts expiries down; what has ended has none. *)
LEMMA TickRefreshes ==
    ASSUME AttemptInv, Tick
    PROVE  /\ Sound(State') /\ SameCurrent(State, State')
           /\ \A t \in TaskIds : Refreshes(State, State', t)
<1>1. Sound(State) /\ AttemptsGood(State) BY AttemptInvFacts
<1>2. /\ workers \in [Workers -> Worker] /\ tasks \in [TaskIds -> Task]
      /\ taskAttempts \in [TaskIds -> Seq(Attempt)]
  BY <1>1 DEF Sound, State, RuntimeState
<1>3. \A w \in Workers : workers'[w].currentTask = workers[w].currentTask
  <2>1. \A x \in Worker : \A n : [x EXCEPT !.age = n].currentTask = x.currentTask BY DEF Worker
  <2> QED BY <1>2, <2>1 DEF Tick
<1>4. \A t \in TaskIds : /\ tasks'[t].status = tasks[t].status
                         /\ tasks'[t].worker = tasks[t].worker
                         /\ tasks'[t].waitingAttempt = tasks[t].waitingAttempt
  <2>1. \A x \in Task : \A n : LET y == [x EXCEPT !.inputTtl = n]
                               IN /\ y.status = x.status /\ y.worker = x.worker
                                  /\ y.waitingAttempt = x.waitingAttempt
    BY DEF Task
  <2> SUFFICES ASSUME NEW t \in TaskIds
               PROVE  /\ tasks'[t].status = tasks[t].status
                      /\ tasks'[t].worker = tasks[t].worker
                      /\ tasks'[t].waitingAttempt = tasks[t].waitingAttempt
    OBVIOUS
  <2> DEFINE n == IF tasks[t].inputTtl = NoExpiry THEN NoExpiry ELSE CountDown(tasks[t].inputTtl)
  <2>2. tasks'[t] = [tasks[t] EXCEPT !.inputTtl = n] /\ tasks[t] \in Task BY <1>2 DEF Tick
  <2> HIDE DEF n
  <2> QED BY <2>1, <2>2
<1>5. ASSUME NEW t \in TaskIds PROVE Refreshes(State, State', t)
  <2> DEFINE seq == taskAttempts[t]
             new == taskAttempts'[t]
  <2>1. seq \in Seq(Attempt) /\ DOMAIN seq = 1..Len(seq) /\ Len(seq) \in Nat BY <1>2
  <2>2. new = [i \in DOMAIN seq |-> [seq[i] EXCEPT !.ttl = CountDown(@)]] BY DEF Tick
  <2> HIDE DEF seq, new
  <2>3. Len(new) = Len(seq) BY <2>1, <2>2
  <2>4. \A x \in Attempt : LET y == [x EXCEPT !.ttl = CountDown(@)]
                           IN y.status = x.status /\ y.worker = x.worker /\ (Over(x) => y = x)
    BY DEF Attempt, Over, CountDown
  <2>5. \A i \in DOMAIN seq : /\ new[i].status = seq[i].status /\ new[i].worker = seq[i].worker
                              /\ Over(seq[i]) => new[i] = seq[i]
    BY <2>1, <2>2, <2>4, ElementOfSeq
  <2>6. reviews' = reviews BY DEF Tick
  <2> QED BY <1>4, <2>3, <2>5, <2>6 DEF Refreshes, State, seq, new
<1>6. SameCurrent(State, State') BY <1>3 DEF SameCurrent, State
<1>7. Sound(State')
  <2>1. TypeOK' BY TickTypeOK DEF AttemptInv, TaskInv
  <2> QED BY <2>1 DEF TypeOK, Sound, WithinBounds
<1> QED BY <1>5, <1>6, <1>7

LEMMA TickSteps ==
    ASSUME AttemptInv, Tick
    PROVE  QuietSteps(State, State')
BY AttemptInvFacts, TickRefreshes, CleansUpSteps

(* So every step of the dispatcher is a step of every task. *)
LEMMA NextSteps ==
    ASSUME AttemptInv, [Next]_vars
    PROVE  Steps(State, State')
<1>1. ASSUME NEW w \in Workers, WorkerRequest(w) PROVE Steps(State, State')
  BY <1>1, WorkerRequestSteps
<1>2. CASE OperatorRequest BY <1>2, OperatorRequestSteps, QuietIsStep
<1>3. CASE Tick BY <1>3, TickSteps, QuietIsStep
<1>4. Sound(State) /\ AttemptsGood(State) BY AttemptInvFacts
<1>5. SameCurrent(State, State) /\ \A t \in TaskIds : Refreshes(State, State, t)
  BY RestsRefreshes DEF SameCurrent, Rests
<1>6. Steps(State, State) /\ Steps(State, Reconcile(State)) BY <1>4, <1>5, CleansUpSteps, QuietIsStep
<1>7. CASE GetAssignedTask
  <2>1. State' = Reconcile(State) BY <1>4, <1>7, ReconcileSound, SavedState DEF GetAssignedTask
  <2> QED BY <1>6, <2>1
<1>8. CASE UNCHANGED vars
  <2>1. State' = State BY <1>8 DEF vars, State
  <2> QED BY <1>6, <2>1
<1> QED BY <1>1, <1>2, <1>3, <1>7, <1>8 DEF Next

(* Steps keep the attempts good. *)
LEMMA StepsGood ==
    ASSUME NEW s, Sound(s), AttemptsGood(s), NEW u, Steps(s, u)
    PROVE  /\ AttemptsGood(u)
           /\ \A t \in TaskIds : HistoryKept(s.taskAttempts[t], u.taskAttempts[t])
BY TaskStepGood DEF AttemptsGood, Steps

(* There are no attempts in the empty runtime state. *)
LEMMA InitAttemptInv == Init => AttemptInv
<1> SUFFICES ASSUME Init PROVE AttemptInv OBVIOUS
<1>1. TaskInv BY InitTaskInv
<1>2. Owned(State) BY DEF Owned, Init, State
<1>3. ASSUME NEW t \in TaskIds PROVE Fits(State, t)
  <2>1. tasks[t].status = "absent" /\ taskAttempts[t] = <<>> BY DEF Init
  <2>2. Ended(<<>>) /\ Expiries(<<>>) = {} BY DEF Ended, Expiries
  <2> QED
    BY <2>1, <2>2 DEF Fits, TaskGood, AttemptsFit, InBudget, ReviewFits, State
<1> QED BY <1>1, <1>2, <1>3 DEF AttemptInv, AttemptsGood

(* The invariant is inductive. *)
LEMMA AttemptInvHolds == Spec => []AttemptInv
<1>1. AttemptInv /\ [Next]_vars /\ TaskInv' => AttemptInv'
  <2> SUFFICES ASSUME AttemptInv, [Next]_vars, TaskInv' PROVE AttemptInv' OBVIOUS
  <2>1. AttemptsGood(State') BY NextSteps, StepsGood, AttemptInvFacts
  <2>2. AttemptsGood(State)'
    BY <2>1 DEF AttemptsGood, Owned, Fits, TaskGood, AttemptsFit, InBudget, ReviewFits,
                Ended, Over, Terminal, LatestIs, Latest, Expiries
  <2> QED BY <2>2 DEF AttemptInv
<1> QED BY InitAttemptInv, TaskInvHolds, <1>1, PTL DEF Spec

-----------------------------------------------------------------------------
(* The theorems *)

(* What ended means to the properties. *)
LEMMA OverIsTerminal ==
    ASSUME NEW s, Sound(s), NEW t \in TaskIds, Fits(s, t), NEW i \in DOMAIN s.taskAttempts[t]
    PROVE  Over(s.taskAttempts[t][i]) <=> Terminal(s.taskAttempts[t][i])
<1> DEFINE seq == s.taskAttempts[t]
<1>1. Ended(seq) \/ LatestIs(seq, Active) BY AttemptOpen
<1>2. CASE Ended(seq) BY <1>2 DEF Ended, Over
<1>3. CASE LatestIs(seq, Active)
  <2>1. ~Terminal(seq[Len(seq)]) BY <1>3 DEF LatestIs, Latest, Active, Terminal
  <2> QED BY <1>3, <2>1 DEF LatestIs, Over
<1> QED BY <1>1, <1>2, <1>3

(* What the invariant says of the active attempt. *)
LEMMA AttemptInvFollows == AttemptInv => AttemptFollowsTask
<1> SUFFICES ASSUME AttemptInv, NEW t \in TaskIds
    PROVE  LET status == tasks[t].status
               active == ActiveAttempts(State, t)
               kinds == {taskAttempts[t][i].status : i \in active}
           IN /\ active \subseteq {Len(taskAttempts[t])}
              /\ status = "in_progress" =>
                   /\ kinds = {"running"}
                   /\ ActiveAttempt(State, t).worker = tasks[t].worker
              /\ status \in {"ready", "assigned"} => kinds \subseteq {"leased", "checkpointed"}
              /\ status = "waiting_for_input" =>
                   /\ kinds \subseteq {"checkpointed"}
                   /\ tasks[t].waitingAttempt = AttemptNoOrZero(State, t)
              /\ status \in {"absent", "planned", "review", "merged", "blocked", "failed",
                             "cancelled"} => active = {}
  BY DEF AttemptFollowsTask
<1> DEFINE seq == taskAttempts[t]
           active == ActiveAttempts(State, t)
           kinds == {seq[i].status : i \in active}
<1>1. Sound(State) /\ Fits(State, t) BY AttemptInvFacts DEF AttemptsGood
<1>2. State.taskAttempts[t] = seq /\ State.tasks[t] = tasks[t] BY DEF State
<1>3. AttemptsFit(tasks[t], seq) BY <1>1, <1>2 DEF Fits, TaskGood
<1>4. CASE Ended(seq)
  <2>1. active = {} /\ ~HasActiveAttempt(State, t) BY <1>2, <1>4, EndedHasNone
  <2>2. kinds = {} BY <2>1
  <2>3. tasks[t].status # "in_progress"
    <3>1. LatestIs(seq, {"running"}) => LatestIs(seq, Active) BY DEF LatestIs, Active
    <3>2. LatestIs(seq, Active) => HasActiveAttempt(State, t) BY <1>1, <1>2, ActiveIsLatest
    <3> QED BY <1>3, <2>1, <3>1, <3>2 DEF AttemptsFit
  <2>4. tasks[t].status = "waiting_for_input" => tasks[t].waitingAttempt = 0
    <3>1. LatestIs(seq, {"checkpointed"}) => LatestIs(seq, Active) BY DEF LatestIs, Active
    <3>2. LatestIs(seq, Active) => HasActiveAttempt(State, t) BY <1>1, <1>2, ActiveIsLatest
    <3> QED BY <1>3, <2>1, <3>1, <3>2 DEF AttemptsFit
  <2>5. AttemptNoOrZero(State, t) = 0 BY <2>1 DEF AttemptNoOrZero
  <2> HIDE DEF active, kinds
  <2>6. /\ active \subseteq {Len(seq)} /\ kinds \subseteq {"checkpointed"}
        /\ kinds \subseteq {"leased", "checkpointed"}
    BY <2>1, <2>2
  <2> QED BY <2>1, <2>3, <2>4, <2>5, <2>6 DEF active, kinds
<1>5. CASE LatestIs(seq, Active)
  <2>1. /\ active = {Len(seq)} /\ HasActiveAttempt(State, t)
        /\ ActiveNo(State, t) = Len(seq) /\ ActiveAttempt(State, t) = Latest(seq)
    BY <1>1, <1>2, <1>5, ActiveIsLatest
  <2>2. kinds = {Latest(seq).status} BY <2>1 DEF Latest
  <2>3. ~Ended(seq) BY <1>1, <1>2, <2>1, EndedHasNone
  <2>4. AttemptNoOrZero(State, t) = Len(seq) BY <2>1 DEF AttemptNoOrZero
  <2> HIDE DEF seq
  <2>5. /\ tasks[t].status = "in_progress" =>
             Latest(seq).status = "running" /\ Latest(seq).worker = tasks[t].worker
        /\ tasks[t].status \in {"ready", "assigned"} =>
             Latest(seq).status \in {"leased", "checkpointed"}
        /\ tasks[t].status = "waiting_for_input" =>
             Latest(seq).status = "checkpointed" /\ tasks[t].waitingAttempt = Len(seq)
        /\ tasks[t].status \notin {"absent", "planned", "review", "merged", "blocked", "failed",
                                   "cancelled"}
    <3>1. tasks[t].status = "absent" => Ended(seq) BY <1>3 DEF AttemptsFit, Ended
    <3> QED BY <1>3, <2>3, <3>1 DEF AttemptsFit, LatestIs
  <2> HIDE DEF active, kinds
  <2> QED BY <2>1, <2>2, <2>4, <2>5 DEF active, kinds, seq
<1> QED BY <1>1, <1>2, <1>4, <1>5, AttemptOpen

(* What it says of the workers' tasks, of the reviews and of the budget. *)
LEMMA AttemptInvOwns == AttemptInv => CurrentTaskIsOwn
BY DEF AttemptInv, AttemptsGood, Owned, CurrentTaskIsOwn, State

LEMMA AttemptInvReviews == AttemptInv => ReviewIsOfLatestAttempt
BY DEF AttemptInv, AttemptsGood, Fits, TaskGood, ReviewFits, Latest, ReviewIsOfLatestAttempt, State

LEMMA AttemptInvBudget == AttemptInv => RetryBudget
BY DEF AttemptInv, AttemptsGood, Fits, TaskGood, InBudget, Expiries, RetryBudget, State

(* findActiveTaskAttempt takes the first attempt that has not ended: in     *)
(* every state there is at most one, the last; it runs exactly while the    *)
(* task is in progress, by the task's worker; it is parked while the task   *)
(* waits for input, under the number the resumption must present; and a     *)
(* task that is no longer worked on has none.                               *)
THEOREM AttemptFollowsTaskHolds == Spec => []AttemptFollowsTask
BY AttemptInvFollows, AttemptInvHolds, PTL

(* Worker.currentTaskId always names a task that is assigned to this very   *)
(* worker and not yet delivered: what heartbeats renew, what a              *)
(* reconciliation requeues and what an offline worker gives up is never     *)
(* somebody else's.                                                         *)
THEOREM CurrentTaskIsOwnHolds == Spec => []CurrentTaskIsOwn
BY AttemptInvOwns, AttemptInvHolds, PTL

(* The review freshness fence: a task under review or merged was delivered  *)
(* by its latest attempt, which succeeded, and what is merged is what a     *)
(* reviewer read: no retry, resumption or late result slips in between.     *)
THEOREM ReviewIsOfLatestAttemptHolds == Spec => []ReviewIsOfLatestAttempt
BY AttemptInvReviews, AttemptInvHolds, PTL

(* An attempt that expires as the last one DEFAULT_MAX_TASK_ATTEMPTS        *)
(* allows, or beyond it, is its task's last and the task has failed,        *)
(* whatever interruptions, resumptions, reviews and claims came before or   *)
(* come after.                                                              *)
THEOREM RetryBudgetHolds == Spec => []RetryBudget
BY AttemptInvBudget, AttemptInvHolds, PTL

(* What a step of the runtime state leaves of the attempts. *)
LEMMA HistoryIsKept ==
    ASSUME AttemptInv,
           \A t \in TaskIds : HistoryKept(State.taskAttempts[t], State'.taskAttempts[t])
    PROVE  \A t \in TaskIds : \A i \in DOMAIN taskAttempts[t] :
               LET before == taskAttempts[t][i]
                   after == taskAttempts'[t][i]
               IN /\ i \in DOMAIN taskAttempts'[t]
                  /\ Terminal(before) => after = before
                  /\ before.status = "running" => after.worker = before.worker
<1>1. AttemptsGood(State) BY AttemptInvFacts
<1>2. State.taskAttempts = taskAttempts /\ State'.taskAttempts = taskAttempts' BY DEF State
<1>3. \A t \in TaskIds : \A i \in DOMAIN taskAttempts[t] :
          Over(taskAttempts[t][i]) <=> Terminal(taskAttempts[t][i])
  BY <1>1, <1>2, OverIsTerminal, AttemptInvFacts DEF AttemptsGood
<1> QED BY <1>2, <1>3 DEF HistoryKept

LEMMA StepsKeepHistory ==
    ASSUME AttemptInv, Steps(State, State')
    PROVE  \A t \in TaskIds : HistoryKept(State.taskAttempts[t], State'.taskAttempts[t])
BY AttemptInvFacts, StepsGood

(* Attempts are an audit trail: in every step of every handler they are     *)
(* only added, one that has ended never changes again, and one that runs    *)
(* changes hands only by being parked first.                                *)
THEOREM AttemptHistoryKeptHolds == Spec => AttemptHistoryKept
<1>1. AttemptInv /\ [Next]_vars =>
      [\A t \in TaskIds : \A i \in DOMAIN taskAttempts[t] :
            LET before == taskAttempts[t][i]
                after == taskAttempts'[t][i]
            IN /\ i \in DOMAIN taskAttempts'[t]
               /\ Terminal(before) => after = before
               /\ before.status = "running" => after.worker = before.worker]_vars
  BY NextSteps, StepsKeepHistory, HistoryIsKept
<1> QED BY <1>1, AttemptInvHolds, PTL DEF Spec, AttemptHistoryKept

-----------------------------------------------------------------------------
(* The refinement: every request, of whichever worker or operator, is one   *)
(* step of the lifecycle of every task (TaskLifecycle): each move of        *)
(* TaskStep is seen to be one.                                              *)

(* Records of the lifecycle *)

(* A record of the lifecycle, and one with other fields. *)
Record(status, holder, tries, open, expiries) ==
    [status |-> status, holder |-> holder, tries |-> tries, open |-> open, expiries |-> expiries]

LEMMA TaskRecord ==
    ASSUME NEW status, NEW holder, NEW tries, NEW open, NEW expiries, NEW a,
           a = Record(status, holder, tries, open, expiries)
    PROVE  /\ a.status = status /\ a.holder = holder /\ a.tries = tries /\ a.open = open
           /\ a.expiries = expiries
           /\ \A x : [a EXCEPT !.status = x] = Record(x, holder, tries, open, expiries)
           /\ \A x : [a EXCEPT !.holder = x] = Record(status, x, tries, open, expiries)
           /\ \A x : [a EXCEPT !.tries = x] = Record(status, holder, x, open, expiries)
           /\ \A x : [a EXCEPT !.open = x] = Record(status, holder, tries, x, expiries)
           /\ \A x : [a EXCEPT !.expiries = x] = Record(status, holder, tries, open, x)
<1>1. /\ a.status = status /\ a.holder = holder /\ a.tries = tries /\ a.open = open
      /\ a.expiries = expiries
  BY DEF Record
<1>2. ASSUME NEW x PROVE [a EXCEPT !.status = x] = Record(x, holder, tries, open, expiries)
  BY DEF Record
<1>3. ASSUME NEW x PROVE [a EXCEPT !.holder = x] = Record(status, x, tries, open, expiries)
  BY DEF Record
<1>4. ASSUME NEW x PROVE [a EXCEPT !.tries = x] = Record(status, holder, x, open, expiries)
  BY DEF Record
<1>5. ASSUME NEW x PROVE [a EXCEPT !.open = x] = Record(status, holder, tries, x, expiries)
  BY DEF Record
<1>6. ASSUME NEW x PROVE [a EXCEPT !.expiries = x] = Record(status, holder, tries, open, x)
  BY DEF Record
<1> QED BY <1>1, <1>2, <1>3, <1>4, <1>5, <1>6

(* The values of its field open. *)
Yes == TRUE
No == FALSE

(* What the functions of the lifecycle do to it. *)
LEMMA ToRecord ==
    ASSUME NEW t, NEW status, NEW holder, NEW tries, NEW open, NEW expiries, NEW a,
           a = Record(status, holder, tries, open, expiries), NEW x
    PROVE  Lifecycle(t)!To(x, a) = Record(x, holder, tries, open, expiries)
BY TaskRecord DEF Lifecycle!To

LEMMA QueuedRecord ==
    ASSUME NEW t, NEW status, NEW holder, NEW tries, NEW open, NEW expiries, NEW a,
           a = Record(status, holder, tries, open, expiries)
    PROVE  Lifecycle(t)!Queued(a) = Record("ready", None, tries, open, expiries)
<1> DEFINE b == [a EXCEPT !.status = "ready"]
<1>1. b = Record("ready", holder, tries, open, expiries) BY TaskRecord
<1>2. Lifecycle(t)!Queued(a) = [b EXCEPT !.holder = None] BY DEF Lifecycle!Queued
<1> HIDE DEF b
<1> QED BY <1>1, <1>2, TaskRecord

LEMMA ExpiredRecord ==
    ASSUME NEW t, NEW status, NEW holder, NEW tries, NEW open, NEW expiries, NEW a,
           a = Record(status, holder, tries, open, expiries)
    PROVE  /\ tries < MaxTaskAttempts =>
                Lifecycle(t)!Expired(a) = Record("ready", None, tries, No, expiries + 1)
           /\ ~(tries < MaxTaskAttempts) =>
                Lifecycle(t)!Expired(a) = Record("failed", holder, tries, No, expiries + 1)
<1> DEFINE b == [a EXCEPT !.open = No]
           lost == [b EXCEPT !.expiries = expiries + 1]
<1>1. a.tries = tries /\ a.expiries = expiries BY TaskRecord
<1>2. Lifecycle(t)!Expired(a) =
        IF tries < MaxTaskAttempts THEN Lifecycle(t)!Queued(lost)
        ELSE Lifecycle(t)!To("failed", lost)
  BY <1>1 DEF Lifecycle!Expired, No
<1>3. b = Record(status, holder, tries, No, expiries) BY TaskRecord
<1> HIDE DEF b
<1>4. lost = Record(status, holder, tries, No, expiries + 1) BY <1>3, TaskRecord
<1> HIDE DEF lost
<1>5. Lifecycle(t)!Queued(lost) = Record("ready", None, tries, No, expiries + 1)
  BY <1>4, QueuedRecord
<1>6. Lifecycle(t)!To("failed", lost) = Record("failed", holder, tries, No, expiries + 1)
  BY <1>4, ToRecord
<1> QED BY <1>2, <1>5, <1>6

LEMMA OpenedRecord ==
    ASSUME NEW t, NEW status, NEW holder, NEW tries, NEW open, NEW expiries, NEW a,
           a = Record(status, holder, tries, open, expiries)
    PROVE  /\ open = Yes => Lifecycle(t)!Opened(a) = a
           /\ open = No =>
                Lifecycle(t)!Opened(a) = Record(status, holder, tries + 1, Yes, expiries)
<1> DEFINE b == [a EXCEPT !.open = Yes]
           next == [b EXCEPT !.tries = tries + 1]
<1>1. a.tries = tries /\ a.open = open BY TaskRecord
<1>2. Lifecycle(t)!Opened(a) = IF a.open THEN a ELSE next
  BY <1>1 DEF Lifecycle!Opened, Yes
<1>3. b = Record(status, holder, tries, Yes, expiries) BY TaskRecord
<1> HIDE DEF b
<1>4. next = Record(status, holder, tries + 1, Yes, expiries) BY <1>3, TaskRecord
<1> HIDE DEF next
<1>5. /\ a.open = Yes => Lifecycle(t)!Opened(a) = a
      /\ a.open = No => Lifecycle(t)!Opened(a) = next
  BY <1>2 DEF Yes, No
<1> QED BY <1>1, <1>4, <1>5

(* Where a clean-up may lead, by what it finds. *)
LEMMA CleanedUpHas ==
    ASSUME NEW t, NEW a
    PROVE  /\ a \in Lifecycle(t)!CleanedUp(a)
           /\ a.status \in {"planned", "assigned"} =>
                Lifecycle(t)!Queued(a) \in Lifecycle(t)!CleanedUp(a)
           /\ a.status = "in_progress" => Lifecycle(t)!Expired(a) \in Lifecycle(t)!CleanedUp(a)
<1> DEFINE Q == Lifecycle(t)!Queued(a)
           E == Lifecycle(t)!Expired(a)
           more == CASE a.status = "planned"     -> {Q}
                     [] a.status = "assigned"    -> {Q}
                     [] a.status = "in_progress" -> {E}
                     [] OTHER                    -> {}
<1>1. Lifecycle(t)!CleanedUp(a) = {a} \cup more BY DEF Lifecycle!CleanedUp
<1> HIDE DEF Q, E
<1>2. a.status = "planned" => more = {Q} OBVIOUS
<1>3. a.status = "assigned" => more = {Q} OBVIOUS
<1>4. a.status = "in_progress" => more = {E} OBVIOUS
<1> HIDE DEF more
<1>5. /\ a.status = "planned" \/ a.status = "assigned" => Q \in {a} \cup more
      /\ a.status = "in_progress" => E \in {a} \cup more
  BY <1>2, <1>3, <1>4
<1> QED BY <1>1, <1>5 DEF Q, E

-----------------------------------------------------------------------------
(* The moves, seen by the lifecycle *)

(* An attempt is open unless all have ended. *)
LEMMA OpenUnlessEnded ==
    ASSUME NEW s, Sound(s), NEW t \in TaskIds, Fits(s, t)
    PROVE  HasActiveAttempt(s, t) = ~Ended(s.taskAttempts[t])
<1>1. HasActiveAttempt(s, t) \in BOOLEAN BY DEF HasActiveAttempt
<1>2. Ended(s.taskAttempts[t]) \in BOOLEAN BY DEF Ended
<1>3. HasActiveAttempt(s, t) <=> ~Ended(s.taskAttempts[t]) BY OpenIsLatest, EndedHasNone
<1> QED BY <1>1, <1>2, <1>3

(* What the abstraction shows. *)
LEMMA AbstractFields ==
    ASSUME NEW s, NEW t
    PROVE  AbstractOf(s, t) = Record(s.tasks[t].status, s.tasks[t].worker, Len(s.taskAttempts[t]),
                HasActiveAttempt(s, t), Cardinality(Expiries(s.taskAttempts[t])))
BY DEF Record, AbstractOf, Expiries

(* An abstraction does not show expiries, nor the review. *)
LEMMA RefreshesAbstract ==
    ASSUME NEW s, Sound(s), NEW u, Sound(u), NEW t \in TaskIds, Fits(s, t), Refreshes(s, u, t)
    PROVE  AbstractOf(u, t) = AbstractOf(s, t)
<1> DEFINE seq == s.taskAttempts[t]
           new == u.taskAttempts[t]
<1>1. seq \in Seq(Attempt) /\ new \in Seq(Attempt) /\ Len(new) = Len(seq)
  BY AttemptsType DEF Refreshes
<1>2. DOMAIN new = DOMAIN seq BY <1>1
<1>3. \A i \in DOMAIN seq : new[i].status = seq[i].status BY DEF Refreshes
<1> HIDE DEF seq, new
<1>4. Expiries(new) = Expiries(seq) BY <1>2, <1>3 DEF Expiries
<1>5. {i \in DOMAIN new : ~Terminal(new[i])} = {i \in DOMAIN seq : ~Terminal(seq[i])}
  BY <1>2, <1>3 DEF Terminal
<1>6. HasActiveAttempt(u, t) = HasActiveAttempt(s, t)
  BY <1>5 DEF HasActiveAttempt, ActiveAttempts, seq, new
<1>7. u.tasks[t].status = s.tasks[t].status /\ u.tasks[t].worker = s.tasks[t].worker
  BY DEF Refreshes
<1> QED BY <1>1, <1>4, <1>6, <1>7 DEF AbstractOf, Expiries, seq, new

(* What ending the open attempt shows. *)
LEMMA EndsAbstract ==
    ASSUME NEW s, Sound(s), NEW t \in TaskIds, Fits(s, t), NEW u, NEW status \in EndStatuses,
           u.taskAttempts[t] = EndLatest(s.taskAttempts[t], status)
    PROVE  /\ Ended(u.taskAttempts[t]) /\ Len(u.taskAttempts[t]) = Len(s.taskAttempts[t])
           /\ ~HasActiveAttempt(u, t)
           /\ status # "expired" => Expiries(u.taskAttempts[t]) = Expiries(s.taskAttempts[t])
           /\ status = "expired" /\ s.tasks[t].status = "in_progress" =>
                Cardinality(Expiries(u.taskAttempts[t])) =
                    1 + Cardinality(Expiries(s.taskAttempts[t]))
<1>1. s.taskAttempts[t] \in Seq(Attempt) BY AttemptsType
<1>2. Ended(s.taskAttempts[t]) \/ LatestIs(s.taskAttempts[t], Active) BY AttemptOpen
<1>3. s.tasks[t].status = "in_progress" => ~Ended(s.taskAttempts[t])
  <2>1. LatestIs(s.taskAttempts[t], {"running"}) => LatestIs(s.taskAttempts[t], Active)
    BY DEF LatestIs, Active
  <2>2. LatestIs(s.taskAttempts[t], Active) => HasActiveAttempt(s, t) BY ActiveIsLatest
  <2> QED BY <2>1, <2>2, EndedHasNone DEF Fits, TaskGood, AttemptsFit
<1> QED BY <1>1, <1>2, <1>3, EndLatestKeeps, EndedHasNone

LEMMA CleansUpAbstract ==
    ASSUME NEW s, Sound(s), NEW u, NEW t \in TaskIds, Fits(s, t), CleansUp(s, u, t)
    PROVE  AbstractOf(u, t) \in Lifecycle(t)!CleanedUp(AbstractOf(s, t))
<1> DEFINE a == AbstractOf(s, t)
           b == AbstractOf(u, t)
           seq == s.taskAttempts[t]
           new == u.taskAttempts[t]
           open == HasActiveAttempt(s, t)
           spent == Cardinality(Expiries(seq))
<1>1. /\ a = Record(s.tasks[t].status, s.tasks[t].worker, Len(seq), open, spent)
      /\ b = Record(u.tasks[t].status, u.tasks[t].worker, Len(new), HasActiveAttempt(u, t),
                    Cardinality(Expiries(new)))
  BY AbstractFields
<1>2. a.status = s.tasks[t].status /\ a.tries = Len(seq) /\ a.expiries = spent
  BY <1>1, TaskRecord
<1>3. u.taskAttempts[t] = s.taskAttempts[t] => HasActiveAttempt(u, t) = open
  BY DEF HasActiveAttempt, ActiveAttempts
<1>4. CASE Rests(s, u, t)
  <2>1. b = a BY <1>1, <1>3, <1>4 DEF Rests
  <2> HIDE DEF a, b
  <2>2. b \in Lifecycle(t)!CleanedUp(a) BY <2>1, CleanedUpHas
  <2> QED BY <2>2 DEF a, b
<1>5. CASE Requeues(s, u, t)
  <2>1. a.status \in {"planned", "assigned"} /\ b = Record("ready", None, Len(seq), open, spent)
    BY <1>1, <1>2, <1>3, <1>5 DEF Requeues
  <2> HIDE DEF a, b, open, spent
  <2>2. b = Lifecycle(t)!Queued(a) BY <1>1, <2>1, QueuedRecord
  <2>3. b \in Lifecycle(t)!CleanedUp(a) BY <2>1, <2>2, CleanedUpHas
  <2> QED BY <2>3 DEF a, b
<1>6. CASE Expires(s, u, t)
  <2>1. /\ ~HasActiveAttempt(u, t) /\ Len(new) = Len(seq)
        /\ Cardinality(Expiries(new)) = 1 + spent /\ spent \in Nat
    <3>1. "expired" \in EndStatuses BY DEF EndStatuses
    <3> QED BY <1>6, <3>1, EndsAbstract, AttemptsType, ExpiriesCount DEF Expires
  <2>2. HasActiveAttempt(u, t) = No
    <3>1. HasActiveAttempt(u, t) \in BOOLEAN BY DEF HasActiveAttempt
    <3> QED BY <2>1, <3>1 DEF No
  <2>3. /\ s.tasks[t].status = "in_progress"
        /\ IF Len(seq) < MaxTaskAttempts
           THEN u.tasks[t].status = "ready" /\ u.tasks[t].worker = None
           ELSE u.tasks[t].status = "failed" /\ u.tasks[t].worker = s.tasks[t].worker
    BY <1>6 DEF Expires
  <2>4. b = Record(u.tasks[t].status, u.tasks[t].worker, Len(seq), No, spent + 1)
    BY <1>1, <2>1, <2>2
  <2> HIDE DEF a, b, open, spent
  <2>5. b = Lifecycle(t)!Expired(a)
    <3>1. /\ Len(seq) < MaxTaskAttempts =>
               Lifecycle(t)!Expired(a) = Record("ready", None, Len(seq), No, spent + 1)
          /\ ~(Len(seq) < MaxTaskAttempts) =>
               Lifecycle(t)!Expired(a) =
                   Record("failed", s.tasks[t].worker, Len(seq), No, spent + 1)
      BY <1>1, ExpiredRecord
    <3> QED BY <2>3, <2>4, <3>1
  <2>6. b \in Lifecycle(t)!CleanedUp(a) BY <1>2, <2>3, <2>5, CleanedUpHas
  <2> QED BY <2>6 DEF a, b
<1> QED BY <1>4, <1>5, <1>6 DEF CleansUp
(* What a claim makes of a record. *)
LEMMA ClaimedHas ==
    ASSUME NEW t, NEW status, NEW holder, NEW tries, NEW open, NEW expiries, NEW a,
           a = Record(status, holder, tries, open, expiries), NEW n,
           \/ open = Yes /\ n = tries
           \/ open = No /\ n = tries + 1
    PROVE  /\ status = "ready" =>
                \A w \in Workers :
                    Record("assigned", w, n, Yes, expiries) \in Lifecycle(t)!Claimed(a)
           /\ status \in {"assigned", "in_progress"} =>
                Record(status, holder, n, Yes, expiries) \in Lifecycle(t)!Claimed(a)
<1> DEFINE O == Lifecycle(t)!Opened(a)
           S == {[O EXCEPT !.status = "assigned", !.holder = w] : w \in Workers}
           claimed == CASE a.status = "ready" -> S
                        [] a.status \in {"assigned", "in_progress"} -> {O}
                        [] OTHER -> {}
<1>1. a.status = status BY TaskRecord
<1>2. O = Record(status, holder, n, Yes, expiries) BY OpenedRecord
<1>3. Lifecycle(t)!Claimed(a) = claimed BY DEF Lifecycle!Claimed
<1> HIDE DEF O
<1>4. ASSUME NEW w \in Workers PROVE Record("assigned", w, n, Yes, expiries) \in S
  <2> DEFINE b == [O EXCEPT !.status = "assigned"]
  <2>1. b = Record("assigned", holder, n, Yes, expiries) BY <1>2, TaskRecord
  <2>2. [O EXCEPT !.status = "assigned", !.holder = w] = [b EXCEPT !.holder = w] OBVIOUS
  <2> HIDE DEF b
  <2>3. [b EXCEPT !.holder = w] = Record("assigned", w, n, Yes, expiries) BY <2>1, TaskRecord
  <2> QED BY <2>2, <2>3
<1> HIDE DEF S
<1>5. status = "ready" => claimed = S BY <1>1
<1>6. status \in {"assigned", "in_progress"} => claimed = {O} BY <1>1
<1> HIDE DEF claimed
<1> QED BY <1>2, <1>3, <1>4, <1>5, <1>6

(* Whether an attempt is open. *)
LEMMA OpenValue ==
    ASSUME NEW s, Sound(s), NEW t \in TaskIds, Fits(s, t)
    PROVE  /\ Ended(s.taskAttempts[t]) => HasActiveAttempt(s, t) = No
           /\ ~Ended(s.taskAttempts[t]) => HasActiveAttempt(s, t) = Yes
BY OpenUnlessEnded DEF Yes, No

(* A latest attempt that is active has not ended. *)
LEMMA ActiveNotEnded ==
    ASSUME NEW seq \in Seq(Attempt), seq # <<>>, Latest(seq).status \in Active
    PROVE  ~Ended(seq)
BY LatestType DEF Ended, Over, Latest, Active, Terminal

LEMMA ClaimsAbstract ==
    ASSUME NEW s, Sound(s), NEW u, Sound(u), NEW t \in TaskIds, NEW w \in Workers,
           Fits(s, t), Fits(u, t), Claims(s, u, t, w)
    PROVE  AbstractOf(u, t) \in Lifecycle(t)!Claimed(AbstractOf(s, t))
<1> DEFINE a == AbstractOf(s, t)
           b == AbstractOf(u, t)
           seq == s.taskAttempts[t]
           new == u.taskAttempts[t]
           open == HasActiveAttempt(s, t)
           spent == Cardinality(Expiries(seq))
           status == s.tasks[t].status
           holder == s.tasks[t].worker
<1>1. /\ a = Record(status, holder, Len(seq), open, spent)
      /\ b = Record(u.tasks[t].status, u.tasks[t].worker, Len(new), HasActiveAttempt(u, t),
                    Cardinality(Expiries(new)))
  BY AbstractFields
<1>2. seq \in Seq(Attempt) /\ new \in Seq(Attempt) /\ new = Taken(seq, w)
  BY AttemptsType DEF Claims
<1>3. status \in {"ready", "assigned", "in_progress"} BY DEF Claims
<1>4. /\ Expiries(new) = Expiries(seq) /\ new # <<>> /\ Latest(new).status \in Active
      /\ IF Ended(seq) THEN Len(new) = Len(seq) + 1 ELSE Len(new) = Len(seq)
  <2>1. CASE Ended(seq)
    <3> DEFINE attempt == [worker |-> w, status |-> "leased", ttl |-> LeaseTTL]
    <3>1. attempt \in Attempt /\ attempt.status = "leased" BY ConstantTypes DEF Attempt
    <3>2. new = Append(seq, attempt) BY <1>2, <2>1 DEF Taken
    <3> HIDE DEF attempt, seq, new
    <3>3. /\ new # <<>> /\ Latest(new) = attempt /\ Expiries(new) = Expiries(seq)
          /\ Len(new) = Len(seq) + 1
      BY <1>2, <3>1, <3>2, AppendLatest
    <3> QED BY <2>1, <3>1, <3>3 DEF Active
  <2>2. CASE ~Ended(seq)
    <3> DEFINE state == IF Latest(seq).status = "checkpointed" THEN "leased"
                        ELSE Latest(seq).status
               attempt == [worker |-> w, status |-> state, ttl |-> LeaseTTL]
    <3>1. LatestIs(seq, Active) BY <2>2, OpenIsLatest
    <3>2. new = WithLatest(seq, attempt) BY <1>2, <2>2 DEF Taken
    <3>3. state \in Active BY <3>1 DEF LatestIs, Active
    <3> HIDE DEF state, seq, new
    <3>4. attempt \in Attempt BY <3>3, ConstantTypes DEF Attempt, Active
    <3>5. attempt.status = state OBVIOUS
    <3> HIDE DEF attempt
    <3>6. /\ LatestIs(new, {attempt.status}) /\ Len(new) = Len(seq)
          /\ Latest(new) = attempt /\ Expiries(new) = Expiries(seq)
      BY <1>2, <3>1, <3>2, <3>3, <3>4, <3>5, WithLatestKeeps
    <3>7. new # <<>> BY <3>6 DEF LatestIs
    <3> QED BY <2>2, <3>3, <3>5, <3>6, <3>7
  <2> QED BY <2>1, <2>2
<1>5. HasActiveAttempt(u, t) = Yes BY <1>2, <1>4, ActiveNotEnded, OpenValue
<1>6. \/ open = Yes /\ Len(new) = Len(seq)
      \/ open = No /\ Len(new) = Len(seq) + 1
  BY <1>4, OpenValue
<1>7. b = Record(u.tasks[t].status, u.tasks[t].worker, Len(new), Yes, spent)
  BY <1>1, <1>4, <1>5
<1>8. \/ /\ status = "ready"
         /\ u.tasks[t].status = "assigned" /\ u.tasks[t].worker = w
      \/ /\ status \in {"assigned", "in_progress"}
         /\ u.tasks[t].status = status /\ u.tasks[t].worker = holder
  BY DEF Claims
<1> HIDE DEF a, b, seq, new, open, spent, status, holder
<1>9. /\ status = "ready" =>
            \A v \in Workers :
                Record("assigned", v, Len(new), Yes, spent) \in Lifecycle(t)!Claimed(a)
      /\ status \in {"assigned", "in_progress"} =>
            Record(status, holder, Len(new), Yes, spent) \in Lifecycle(t)!Claimed(a)
  BY <1>1, <1>6, ClaimedHas
<1>10. b \in Lifecycle(t)!Claimed(a) BY <1>7, <1>8, <1>9
<1> QED BY <1>10 DEF a, b

-----------------------------------------------------------------------------
(* Every move is a step of the lifecycle *)

Closed(t, x, a) == [Lifecycle(t)!To(x, a) EXCEPT !.open = FALSE]

HeldAs(t, x, a, w) == [Lifecycle(t)!To(x, a) EXCEPT !.holder = w]

(* A record whose attempt is over, or which somebody else holds. *)
LEMMA ClosedRecord ==
    ASSUME NEW t, NEW status, NEW holder, NEW tries, NEW open, NEW expiries, NEW a,
           a = Record(status, holder, tries, open, expiries), NEW x
    PROVE  Closed(t, x, a) = Record(x, holder, tries, No, expiries)
<1> DEFINE b == Lifecycle(t)!To(x, a)
<1>1. b = Record(x, holder, tries, open, expiries) BY ToRecord
<1> HIDE DEF b
<1>2. [b EXCEPT !.open = FALSE] = [b EXCEPT !.open = No] BY DEF No
<1>3. [b EXCEPT !.open = No] = Record(x, holder, tries, No, expiries) BY <1>1, TaskRecord
<1> QED BY <1>2, <1>3 DEF b, Closed

LEMMA HeldAsRecord ==
    ASSUME NEW t, NEW status, NEW holder, NEW tries, NEW open, NEW expiries, NEW a,
           a = Record(status, holder, tries, open, expiries), NEW x, NEW w
    PROVE  HeldAs(t, x, a, w) = Record(x, w, tries, open, expiries)
<1> DEFINE b == Lifecycle(t)!To(x, a)
<1>1. b = Record(x, holder, tries, open, expiries) BY ToRecord
<1> HIDE DEF b
<1>2. [b EXCEPT !.holder = w] = Record(x, w, tries, open, expiries) BY <1>1, TaskRecord
<1> QED BY <1>2 DEF b, HeldAs

(* The abstractions of two states that have the same attempts. *)
LEMMA SameAttemptsAbstract ==
    ASSUME NEW s, NEW u, NEW t, u.taskAttempts[t] = s.taskAttempts[t]
    PROVE  AbstractOf(u, t) = Record(u.tasks[t].status, u.tasks[t].worker,
                Len(s.taskAttempts[t]), HasActiveAttempt(s, t),
                Cardinality(Expiries(s.taskAttempts[t])))
<1> DEFINE open == HasActiveAttempt(s, t)
<1>1. HasActiveAttempt(u, t) = open BY DEF HasActiveAttempt, ActiveAttempts
<1>2. AbstractOf(u, t) = Record(u.tasks[t].status, u.tasks[t].worker, Len(s.taskAttempts[t]),
                                HasActiveAttempt(u, t), Cardinality(Expiries(s.taskAttempts[t])))
  BY AbstractFields
<1> HIDE DEF open
<1>3. AbstractOf(u, t) = Record(u.tasks[t].status, u.tasks[t].worker, Len(s.taskAttempts[t]),
                                open, Cardinality(Expiries(s.taskAttempts[t])))
  BY <1>1, <1>2
<1> QED BY <1>3 DEF open

LEMMA BeginsAbstract ==
    ASSUME NEW s, Sound(s), NEW u, Sound(u), NEW t \in TaskIds, Fits(s, t), Fits(u, t),
           Begins(s, u, t)
    PROVE  LET a == AbstractOf(s, t)
               b == AbstractOf(u, t)
           IN a.status = "assigned" /\ a.open = Yes /\ b = Lifecycle(t)!To("in_progress", a)
<1> DEFINE a == AbstractOf(s, t)
           b == AbstractOf(u, t)
           seq == s.taskAttempts[t]
           new == u.taskAttempts[t]
           attempt == [Latest(seq) EXCEPT !.status = "running", !.ttl = LeaseTTL]
<1>1. /\ ~Ended(seq) /\ s.tasks[t].status = "assigned" /\ u.tasks[t].status = "in_progress"
      /\ u.tasks[t].worker = s.tasks[t].worker /\ new = WithLatest(seq, attempt)
  BY DEF Begins
<1>2. seq \in Seq(Attempt) /\ LatestIs(seq, Active) /\ Latest(seq) \in Attempt
  BY <1>1, AttemptsType, OpenIsLatest
<1>3. attempt \in Attempt /\ attempt.status = "running" BY <1>2, ConstantTypes DEF Attempt
<1> HIDE DEF attempt
<1>4. /\ new \in Seq(Attempt) /\ LatestIs(new, {"running"}) /\ Len(new) = Len(seq)
      /\ Expiries(new) = Expiries(seq)
  <2>1. attempt.status \in Active BY <1>3 DEF Active
  <2> HIDE DEF seq, new
  <2> QED BY <1>1, <1>2, <1>3, <2>1, WithLatestKeeps
<1>5. ~Ended(new) BY <1>4, ActiveNotEnded DEF LatestIs, Active
<1>6. HasActiveAttempt(s, t) = Yes /\ HasActiveAttempt(u, t) = Yes BY <1>1, <1>5, OpenValue
<1>7. a = Record("assigned", s.tasks[t].worker, Len(seq), Yes, Cardinality(Expiries(seq)))
  BY <1>1, <1>6, AbstractFields
<1>8. b = Record("in_progress", s.tasks[t].worker, Len(seq), Yes, Cardinality(Expiries(seq)))
  BY <1>1, <1>4, <1>6, AbstractFields
<1> HIDE DEF a, b, seq
<1>9. a.status = "assigned" /\ a.open = Yes BY <1>7, TaskRecord
<1>10. b = Lifecycle(t)!To("in_progress", a) BY <1>7, <1>8, ToRecord
<1> QED BY <1>9, <1>10 DEF a, b

LEMMA DeliversAbstract ==
    ASSUME NEW s, Sound(s), NEW u, Sound(u), NEW t \in TaskIds, Fits(s, t), Fits(u, t),
           Delivers(s, u, t)
    PROVE  LET a == AbstractOf(s, t)
               b == AbstractOf(u, t)
           IN /\ a.status \in {"assigned", "in_progress"} /\ a.open = Yes
              /\ \E outcome \in {"review", "failed"} :
                    b = Closed(t, outcome, a)
<1> DEFINE a == AbstractOf(s, t)
           b == AbstractOf(u, t)
           seq == s.taskAttempts[t]
           new == u.taskAttempts[t]
<1>1. /\ ~Ended(seq) /\ s.tasks[t].status \in {"assigned", "in_progress"}
      /\ u.tasks[t].worker = s.tasks[t].worker
  BY DEF Delivers
<1>2. PICK outcome \in {"review", "failed"} : u.tasks[t].status = outcome BY DEF Delivers
<1>3. PICK end \in {"succeeded", "failed"} : new = EndLatest(seq, end) BY DEF Delivers
<1>4. Ended(new) /\ Len(new) = Len(seq) /\ Expiries(new) = Expiries(seq)
  BY <1>3, EndsAbstract DEF EndStatuses
<1>5. HasActiveAttempt(s, t) = Yes /\ HasActiveAttempt(u, t) = No BY <1>1, <1>4, OpenValue
<1>6. a = Record(s.tasks[t].status, s.tasks[t].worker, Len(seq), Yes, Cardinality(Expiries(seq)))
  BY <1>5, AbstractFields
<1>7. b = Record(outcome, s.tasks[t].worker, Len(seq), No, Cardinality(Expiries(seq)))
  BY <1>1, <1>2, <1>4, <1>5, AbstractFields
<1> HIDE DEF a, b, seq
<1>8. a.status = s.tasks[t].status /\ a.open = Yes BY <1>6, TaskRecord
<1>9. b = Closed(t, outcome, a)
  <2>1. \A x : Closed(t, x, a) =
            Record(x, s.tasks[t].worker, Len(seq), No, Cardinality(Expiries(seq)))
    BY <1>6, ClosedRecord
  <2> QED BY <1>7, <2>1
<1> QED BY <1>1, <1>8, <1>9 DEF a, b

LEMMA DecidesAbstract ==
    ASSUME NEW s, NEW u, NEW t \in TaskIds, Decides(s, u, t)
    PROVE  LET a == AbstractOf(s, t)
               b == AbstractOf(u, t)
           IN /\ a.status = "review"
              /\ b \in {Lifecycle(t)!To("merged", a), Lifecycle(t)!To("blocked", a)}
<1> DEFINE a == AbstractOf(s, t)
           b == AbstractOf(u, t)
           tries == Len(s.taskAttempts[t])
           open == HasActiveAttempt(s, t)
           spent == Cardinality(Expiries(s.taskAttempts[t]))
<1>1. a = Record("review", s.tasks[t].worker, tries, open, spent)
  BY AbstractFields DEF Decides
<1>2. PICK x \in {"merged", "blocked"} : u.tasks[t].status = x BY DEF Decides
<1>3. b = Record(x, s.tasks[t].worker, tries, open, spent)
  <2>1. u.taskAttempts[t] = s.taskAttempts[t] /\ u.tasks[t].worker = s.tasks[t].worker
    BY DEF Decides
  <2> QED BY <1>2, <2>1, SameAttemptsAbstract
<1> HIDE DEF a, b, tries, open, spent
<1>4. a.status = "review" BY <1>1, TaskRecord
<1>5. b = Lifecycle(t)!To(x, a) BY <1>1, <1>3, ToRecord
<1>6. b \in {Lifecycle(t)!To("merged", a), Lifecycle(t)!To("blocked", a)} BY <1>5
<1> QED BY <1>4, <1>6 DEF a, b

LEMMA ResumesAbstract ==
    ASSUME NEW s, NEW u, NEW t \in TaskIds, Resumes(s, u, t)
    PROVE  LET a == AbstractOf(s, t)
               b == AbstractOf(u, t)
           IN a.status = "waiting_for_input" /\ b = Lifecycle(t)!Queued(a)
<1> DEFINE a == AbstractOf(s, t)
           b == AbstractOf(u, t)
           tries == Len(s.taskAttempts[t])
           open == HasActiveAttempt(s, t)
           spent == Cardinality(Expiries(s.taskAttempts[t]))
<1>1. a = Record("waiting_for_input", s.tasks[t].worker, tries, open, spent)
  BY AbstractFields DEF Resumes
<1>2. b = Record("ready", None, tries, open, spent)
  <2>1. /\ u.taskAttempts[t] = s.taskAttempts[t]
        /\ u.tasks[t].status = "ready" /\ u.tasks[t].worker = None
    BY DEF Resumes
  <2> QED BY <2>1, SameAttemptsAbstract
<1> HIDE DEF a, b, tries, open, spent
<1>3. a.status = "waiting_for_input" BY <1>1, TaskRecord
<1>4. b = Lifecycle(t)!Queued(a) BY <1>1, <1>2, QueuedRecord
<1> QED BY <1>3, <1>4 DEF a, b

LEMMA CancelsAbstract ==
    ASSUME NEW s, Sound(s), NEW u, Sound(u), NEW t \in TaskIds, Fits(s, t), Fits(u, t),
           Cancels(s, u, t)
    PROVE  LET a == AbstractOf(s, t)
               b == AbstractOf(u, t)
           IN /\ a.status \notin Final \cup {"absent"}
              /\ b = Closed(t, "cancelled", a)
<1> DEFINE a == AbstractOf(s, t)
           b == AbstractOf(u, t)
           seq == s.taskAttempts[t]
           new == u.taskAttempts[t]
           open == HasActiveAttempt(s, t)
<1>1. /\ s.tasks[t].status \notin Final \cup {"absent"} /\ u.tasks[t].status = "cancelled"
      /\ u.tasks[t].worker = s.tasks[t].worker /\ new = EndLatest(seq, "cancelled")
  BY DEF Cancels
<1>2. Ended(new) /\ Len(new) = Len(seq) /\ Expiries(new) = Expiries(seq)
  BY <1>1, EndsAbstract DEF EndStatuses
<1>3. HasActiveAttempt(u, t) = No BY <1>2, OpenValue
<1>4. a = Record(s.tasks[t].status, s.tasks[t].worker, Len(seq), open, Cardinality(Expiries(seq)))
  BY AbstractFields
<1>5. b = Record("cancelled", s.tasks[t].worker, Len(seq), No, Cardinality(Expiries(seq)))
  BY <1>1, <1>2, <1>3, AbstractFields
<1> HIDE DEF a, b, seq, open
<1>6. a.status = s.tasks[t].status BY <1>4, TaskRecord
<1>7. b = Closed(t, "cancelled", a) BY <1>4, <1>5, ClosedRecord
<1> QED BY <1>1, <1>6, <1>7 DEF a, b

LEMMA AsksAbstract ==
    ASSUME NEW s, Sound(s), NEW u, Sound(u), NEW t \in TaskIds, Fits(s, t), Fits(u, t),
           Asks(s, u, t)
    PROVE  LET a == AbstractOf(s, t)
               b == AbstractOf(u, t)
           IN /\ a.status \in {"ready", "assigned", "in_progress", "blocked"}
              /\ b = HeldAs(t, "waiting_for_input", a, None)
<1> DEFINE a == AbstractOf(s, t)
           b == AbstractOf(u, t)
           seq == s.taskAttempts[t]
           new == u.taskAttempts[t]
           open == HasActiveAttempt(s, t)
<1>1. /\ s.tasks[t].status \in {"ready", "assigned", "in_progress", "blocked"}
      /\ u.tasks[t].status = "waiting_for_input" /\ u.tasks[t].worker = None
  BY DEF Asks
<1>2. Len(new) = Len(seq) /\ Expiries(new) = Expiries(seq) /\ HasActiveAttempt(u, t) = open
  <2>1. CASE Ended(seq)
    <3>1. new = seq BY <2>1 DEF Asks
    <3> QED BY <2>1, <3>1, OpenValue
  <2>2. CASE ~Ended(seq)
    <3> DEFINE attempt == [Latest(seq) EXCEPT !.status = "checkpointed"]
    <3>1. seq \in Seq(Attempt) /\ LatestIs(seq, Active) /\ Latest(seq) \in Attempt
      BY <2>2, AttemptsType, OpenIsLatest
    <3>2. attempt \in Attempt /\ attempt.status = "checkpointed" BY <3>1 DEF Attempt
    <3>3. new = WithLatest(seq, attempt) BY <2>2 DEF Asks
    <3>4. /\ new \in Seq(Attempt) /\ LatestIs(new, {"checkpointed"}) /\ Len(new) = Len(seq)
          /\ Expiries(new) = Expiries(seq)
      <4>1. attempt.status \in Active BY <3>2 DEF Active
      <4> HIDE DEF seq, new, attempt
      <4> QED BY <3>1, <3>2, <3>3, <4>1, WithLatestKeeps
    <3>5. ~Ended(new) BY <3>4, ActiveNotEnded DEF LatestIs, Active
    <3> QED BY <2>2, <3>4, <3>5, OpenValue
  <2> QED BY <2>1, <2>2
<1>3. a = Record(s.tasks[t].status, s.tasks[t].worker, Len(seq), open, Cardinality(Expiries(seq)))
  BY AbstractFields
<1>4. b = Record("waiting_for_input", None, Len(seq), open, Cardinality(Expiries(seq)))
  BY <1>1, <1>2, AbstractFields
<1> HIDE DEF a, b, seq, open
<1>5. a.status = s.tasks[t].status BY <1>3, TaskRecord
<1>6. b = HeldAs(t, "waiting_for_input", a, None)
  BY <1>3, <1>4, HeldAsRecord
<1> QED BY <1>1, <1>5, <1>6 DEF a, b

LEMMA CreatesAbstract ==
    ASSUME NEW s, NEW u, NEW t \in TaskIds, Creates(s, u, t), s.tasks[t].worker = None
    PROVE  LET a == AbstractOf(s, t)
               b == AbstractOf(u, t)
           IN /\ a.status = "absent"
              /\ \/ b \in {Lifecycle(t)!To("planned", a), Lifecycle(t)!To("ready", a)}
                 \/ \E w \in Workers : b = HeldAs(t, "assigned", a, w)
<1> DEFINE a == AbstractOf(s, t)
           b == AbstractOf(u, t)
           tries == Len(s.taskAttempts[t])
           open == HasActiveAttempt(s, t)
           spent == Cardinality(Expiries(s.taskAttempts[t]))
<1>1. a = Record("absent", None, tries, open, spent) BY AbstractFields DEF Creates
<1>2. b = Record(u.tasks[t].status, u.tasks[t].worker, tries, open, spent)
  <2>1. u.taskAttempts[t] = s.taskAttempts[t] BY DEF Creates
  <2> QED BY <2>1, SameAttemptsAbstract
<1>3. \/ u.tasks[t].status \in {"planned", "ready"} /\ u.tasks[t].worker = None
      \/ u.tasks[t].status = "assigned" /\ u.tasks[t].worker \in Workers
  BY DEF Creates
<1> HIDE DEF a, b, tries, open, spent
<1>4. a.status = "absent" BY <1>1, TaskRecord
<1>5. CASE u.tasks[t].status \in {"planned", "ready"} /\ u.tasks[t].worker = None
  <2>1. PICK x \in {"planned", "ready"} : u.tasks[t].status = x BY <1>5
  <2>2. b = Record(x, None, tries, open, spent) BY <1>2, <1>5, <2>1
  <2>3. b = Lifecycle(t)!To(x, a) BY <1>1, <2>2, ToRecord
  <2>4. b \in {Lifecycle(t)!To("planned", a), Lifecycle(t)!To("ready", a)} BY <2>3
  <2> QED BY <1>4, <2>4 DEF a, b
<1>6. CASE u.tasks[t].status = "assigned" /\ u.tasks[t].worker \in Workers
  <2>1. PICK w \in Workers : u.tasks[t].worker = w BY <1>6
  <2>2. b = Record("assigned", w, tries, open, spent) BY <1>2, <1>6, <2>1
  <2>3. b = HeldAs(t, "assigned", a, w) BY <1>1, <2>2, HeldAsRecord
  <2> QED BY <1>4, <2>3 DEF a, b
<1> QED BY <1>3, <1>5, <1>6

-----------------------------------------------------------------------------
(* The refinement *)

(* Nobody holds a task that does not exist. *)
NotHeld(s) == \A t \in TaskIds : s.tasks[t].status = "absent" => s.tasks[t].worker = None

LifecycleInv == AttemptInv /\ NotHeld(State)

(* A task that does not exist after a step did not before, and is as it was. *)
LEMMA StepsNotHeld ==
    ASSUME NEW s, NotHeld(s), NEW u, Steps(s, u)
    PROVE  NotHeld(u)
<1> SUFFICES ASSUME NEW t \in TaskIds, u.tasks[t].status = "absent"
             PROVE  u.tasks[t].worker = None
  BY DEF NotHeld
<1>1. TaskStep(s, u, t) BY DEF Steps
<1>2. CASE CleansUpAndClaims(s, u, t)
  <2>1. PICK fresh, clean :
            /\ Refreshes(s, fresh, t) /\ CleansUp(fresh, clean, t)
            /\ Rests(clean, u, t) \/ \E w \in Workers : Claims(clean, u, t, w)
    BY <1>2 DEF CleansUpAndClaims
  <2>2. u.tasks[t] = clean.tasks[t]
    <3>1. CASE Rests(clean, u, t) BY <3>1 DEF Rests
    <3>2. CASE \E w \in Workers : Claims(clean, u, t, w) BY <3>2 DEF Claims
    <3> QED BY <2>1, <3>1, <3>2
  <2>3. clean.tasks[t] = fresh.tasks[t]
    BY <2>1, <2>2 DEF CleansUp, Rests, Requeues, Expires
  <2> QED BY <2>1, <2>2, <2>3 DEF Refreshes, NotHeld
<1>3. ~(\/ Begins(s, u, t) \/ Delivers(s, u, t) \/ Decides(s, u, t) \/ Asks(s, u, t)
        \/ Resumes(s, u, t) \/ Cancels(s, u, t) \/ Creates(s, u, t))
  BY DEF Begins, Delivers, Decides, Asks, Resumes, Cancels, Creates
<1> QED BY <1>1, <1>2, <1>3 DEF TaskStep, QuietStep

(* The invariant the refinement needs is inductive. *)
LEMMA LifecycleInvHolds == Spec => []LifecycleInv
<1>1. Init => NotHeld(State) BY DEF Init, NotHeld, State
<1>2. AttemptInv /\ NotHeld(State) /\ [Next]_vars => NotHeld(State)'
  <2> SUFFICES ASSUME AttemptInv, NotHeld(State), [Next]_vars PROVE NotHeld(State)' OBVIOUS
  <2>1. NotHeld(State') BY NextSteps, StepsNotHeld
  <2> QED BY <2>1 DEF NotHeld
<1>3. Spec => []NotHeld(State) BY <1>1, <1>2, AttemptInvHolds, PTL DEF Spec
<1> QED BY <1>3, AttemptInvHolds, PTL DEF LifecycleInv

(* A step of a task is a step of its lifecycle. *)
LEMMA TaskStepFollows ==
    ASSUME NEW t \in TaskIds, Sound(State), Sound(State'), Fits(State, t), Fits(State', t),
           NotHeld(State), TaskStep(State, State', t)
    PROVE  Lifecycle(t)!Next
<1> DEFINE s == State
           u == State'
           a == Abstract(t)
           b == Abstract(t)'
<1>1. a = AbstractOf(s, t) /\ b = AbstractOf(u, t) BY DEF Abstract
<1>2. CASE CleansUpAndClaims(s, u, t)
  <2>1. PICK fresh, clean :
            /\ Sound(fresh) /\ Fits(fresh, t) /\ Refreshes(s, fresh, t)
            /\ Sound(clean) /\ Fits(clean, t) /\ CleansUp(fresh, clean, t)
            /\ Rests(clean, u, t) \/ \E w \in Workers : Claims(clean, u, t, w)
    BY <1>2 DEF CleansUpAndClaims
  <2> DEFINE c == AbstractOf(clean, t)
  <2>2. AbstractOf(fresh, t) = a BY <1>1, <2>1, RefreshesAbstract
  <2>3. c \in Lifecycle(t)!CleanedUp(a) BY <2>1, <2>2, CleansUpAbstract
  <2>4. b \in {c} \cup Lifecycle(t)!Claimed(c)
    <3>1. CASE Rests(clean, u, t)
      <4>1. Refreshes(clean, u, t) BY <3>1, RestsRefreshes
      <4>2. b = c BY <1>1, <2>1, <4>1, RefreshesAbstract
      <4> QED BY <4>2
    <3>2. CASE \E w \in Workers : Claims(clean, u, t, w)
      <4>1. AbstractOf(u, t) \in Lifecycle(t)!Claimed(c) BY <2>1, <3>2, ClaimsAbstract
      <4> QED BY <1>1, <4>1
    <3> QED BY <2>1, <3>1, <3>2
  <2> HIDE DEF c
  <2>5. Lifecycle(t)!CleanUpAndClaim BY <2>3, <2>4 DEF Lifecycle!CleanUpAndClaim
  <2> QED BY <2>5 DEF Lifecycle!Next
<1>3. CASE Begins(s, u, t)
  <2>1. Lifecycle(t)!Start BY <1>1, <1>3, BeginsAbstract DEF Lifecycle!Start, Yes
  <2> QED BY <2>1 DEF Lifecycle!Next
<1>4. CASE Delivers(s, u, t)
  <2>1. /\ a.status \in {"assigned", "in_progress"} /\ a.open = Yes
        /\ \E outcome \in {"review", "failed"} : b = Closed(t, outcome, a)
    BY <1>1, <1>4, DeliversAbstract
  <2>2. Lifecycle(t)!Deliver
    <3> HIDE DEF a, b
    <3>1. a.open BY <2>1 DEF Yes
    <3>2. \E outcome \in {"review", "failed"} :
              b = [Lifecycle(t)!To(outcome, a) EXCEPT !.open = FALSE]
      BY <2>1 DEF Closed
    <3> QED BY <2>1, <3>1, <3>2 DEF a, b, Lifecycle!Deliver
  <2> QED BY <2>2 DEF Lifecycle!Next
<1>5. CASE Decides(s, u, t)
  <2>1. Lifecycle(t)!Decide BY <1>1, <1>5, DecidesAbstract DEF Lifecycle!Decide
  <2> QED BY <2>1 DEF Lifecycle!Next
<1>6. CASE Asks(s, u, t)
  <2>1. Lifecycle(t)!AskForInput BY <1>1, <1>6, AsksAbstract DEF Lifecycle!AskForInput, HeldAs
  <2> QED BY <2>1 DEF Lifecycle!Next
<1>7. CASE Resumes(s, u, t)
  <2>1. Lifecycle(t)!Resume BY <1>1, <1>7, ResumesAbstract DEF Lifecycle!Resume
  <2> QED BY <2>1 DEF Lifecycle!Next
<1>8. CASE Cancels(s, u, t)
  <2>1. Lifecycle(t)!Cancel
    BY <1>1, <1>8, CancelsAbstract DEF Lifecycle!Cancel, Lifecycle!Final, Final, Closed
  <2> QED BY <2>1 DEF Lifecycle!Next
<1>9. CASE Creates(s, u, t)
  <2>1. s.tasks[t].worker = None BY <1>9 DEF NotHeld, Creates
  <2>2. Lifecycle(t)!Create
    BY <1>1, <1>9, <2>1, CreatesAbstract DEF Lifecycle!Create, HeldAs
  <2> QED BY <2>2 DEF Lifecycle!Next
<1> QED BY <1>2, <1>3, <1>4, <1>5, <1>6, <1>7, <1>8, <1>9 DEF TaskStep, QuietStep

LEMMA LifecyclesStart == Init => \A t \in TaskIds : Lifecycle(t)!Init
<1> SUFFICES ASSUME Init, NEW t \in TaskIds PROVE Lifecycle(t)!Init OBVIOUS
<1>1. /\ State.tasks[t].status = "absent" /\ State.tasks[t].worker = None
      /\ State.taskAttempts[t] = <<>>
  BY DEF Init, State
<1>2. ActiveAttempts(State, t) = {} /\ Expiries(State.taskAttempts[t]) = {}
  BY <1>1 DEF ActiveAttempts, Expiries
<1>3. HasActiveAttempt(State, t) = No BY <1>2 DEF HasActiveAttempt, No
<1>4. Cardinality(Expiries(State.taskAttempts[t])) = 0 BY <1>2, FS_EmptySet
<1>5. Len(State.taskAttempts[t]) = 0 BY <1>1
<1>6. AbstractOf(State, t) = Record("absent", None, 0, No, 0)
  BY <1>1, <1>3, <1>4, <1>5, AbstractFields
<1> QED BY <1>6 DEF Abstract, Record, No, Lifecycle!Init, Lifecycle!Absent

LEMMA StepsFollow ==
    ASSUME LifecycleInv, LifecycleInv', Steps(State, State')
    PROVE  \A t \in TaskIds : [Lifecycle(t)!Next]_(Abstract(t))
<1> SUFFICES ASSUME NEW t \in TaskIds PROVE Lifecycle(t)!Next OBVIOUS
<1>1. Sound(State) /\ AttemptsGood(State) /\ NotHeld(State)
  BY AttemptInvFacts DEF LifecycleInv
<1>2. AttemptsGood(State') BY <1>1, StepsGood
<1>3. Sound(State')
  <2>1. TypeOK' BY DEF LifecycleInv, AttemptInv, TaskInv
  <2> QED BY <2>1 DEF TypeOK, Sound, WithinBounds
<1> QED BY <1>1, <1>2, <1>3, TaskStepFollows DEF AttemptsGood, Steps

(* Whatever handlers run, for whichever workers and tasks and in whatever   *)
(* order, every task goes through the lifecycle, step by step: no handler   *)
(* takes a task where docs/STATE_MACHINE.md (as the code has it) has no     *)
(* transition, gives it to a second holder, or loses or adds an attempt.    *)
THEOREM EveryTaskFollowsLifecycleHolds == Spec => EveryTaskFollowsLifecycle
<1>1. LifecycleInv /\ LifecycleInv' /\ [Next]_vars
        => [\A t \in TaskIds : [Lifecycle(t)!Next]_(Abstract(t))]_vars
  <2> SUFFICES ASSUME LifecycleInv, LifecycleInv', [Next]_vars
               PROVE  \A t \in TaskIds : [Lifecycle(t)!Next]_(Abstract(t))
    OBVIOUS
  <2>1. Steps(State, State') BY NextSteps DEF LifecycleInv
  <2> QED BY <2>1, StepsFollow
<1> QED BY LifecyclesStart, <1>1, LifecycleInvHolds, PTL DEF Spec, EveryTaskFollowsLifecycle
=============================================================================
