--------------------------- MODULE TaskLifecycle ---------------------------
(***************************************************************************)
(* What the dispatcher promises of one task: the state machine the         *)
(* functions of runtime-state.ts implement together, who holds the task,   *)
(* and its attempts.  docs/STATE_MACHINE.md describes most of it; where    *)
(* the two differ this is what the code does.                              *)
(*                                                                         *)
(* There are no clocks, leases, workers or handlers here.  One step is     *)
(* what one request may do to the task: clean up what was lost, then give  *)
(* the task to a worker; or one other move.                                *)
(***************************************************************************)
EXTENDS Naturals

CONSTANTS
    Workers, None,
    MaxTries    \* expired attempts are retried while there are fewer

VARIABLE task   \* [status, holder, tries, open, expiries]

Final == {"merged", "failed", "cancelled"}

Absent == [status |-> "absent", holder |-> None, tries |-> 0, open |-> FALSE, expiries |-> 0]

To(status, t) == [t EXCEPT !.status = status]

Queued(t) == [t EXCEPT !.status = "ready", !.holder = None]

(* An attempt that expired is over; the task is retried or fails. *)
Expired(t) ==
    LET lost == [t EXCEPT !.open = FALSE, !.expiries = @ + 1]
    IN IF t.tries < MaxTries THEN Queued(lost) ELSE To("failed", lost)

CleanedUp(t) ==
    {t} \cup CASE t.status = "planned"     -> {Queued(t)}
               [] t.status = "assigned"    -> {Queued(t)}
               [] t.status = "in_progress" -> {Expired(t)}
               [] OTHER                    -> {}

(* A claim opens the next attempt, or goes on with the open one. *)
Opened(t) == IF t.open THEN t ELSE [t EXCEPT !.open = TRUE, !.tries = @ + 1]

Claimed(t) ==
    CASE t.status = "ready" -> {[Opened(t) EXCEPT !.status = "assigned", !.holder = w] : w \in Workers}
      [] t.status \in {"assigned", "in_progress"} -> {Opened(t)}
      [] OTHER -> {}

CleanUpAndClaim == \E t \in CleanedUp(task) : task' \in {t} \cup Claimed(t)

Create ==
    /\ task.status = "absent"
    /\ \/ task' \in {To("planned", task), To("ready", task)}
       \/ \E w \in Workers : task' = [To("assigned", task) EXCEPT !.holder = w]

Start == task.status = "assigned" /\ task.open /\ task' = To("in_progress", task)

Deliver ==
    /\ task.status \in {"assigned", "in_progress"} /\ task.open
    /\ \E outcome \in {"review", "failed"} : task' = [To(outcome, task) EXCEPT !.open = FALSE]

Decide == task.status = "review" /\ task' \in {To("merged", task), To("blocked", task)}

(* The open attempt, if there is one, is kept for the resumption. *)
AskForInput ==
    /\ task.status \in {"ready", "assigned", "in_progress", "blocked"}
    /\ task' = [To("waiting_for_input", task) EXCEPT !.holder = None]

Resume == task.status = "waiting_for_input" /\ task' = Queued(task)

Cancel ==
    /\ task.status \notin Final \cup {"absent"}
    /\ task' = [To("cancelled", task) EXCEPT !.open = FALSE]

Init == task = Absent

Next == CleanUpAndClaim \/ Create \/ Start \/ Deliver \/ Decide \/ AskForInput \/ Resume \/ Cancel

Spec == Init /\ [][Next]_task
=============================================================================
