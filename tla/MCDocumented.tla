---------------------------- MODULE MCDocumented ----------------------------
(***************************************************************************)
(* Statements of the documentation that the dispatcher does not keep.      *)
(* Each is checked by a run that exhibits a counterexample; the one about  *)
(* the repo lease is RepoIsExclusive of Dispatcher.                        *)
(***************************************************************************)
EXTENDS MCDispatcher

(* docs/STATE_MACHINE.md, API_ENDPOINTS.md: the assigned-task lookup is     *)
(* read-only.  Its handler reconciles and saves what reconcile changed.     *)
LookupIsReadOnly == [][GetAssignedTask => UNCHANGED vars]_vars

(* docs/STATE_MACHINE.md: an assignment enters review from in_progress.     *)
(* recordWorkerResult takes the result of a task that was claimed and never *)
(* started.                                                                 *)
ReviewedOnceStarted ==
    [][\A t \in TaskIds : assignments[t].status # "review" /\ assignments'[t].status = "review" =>
            assignments[t].status = "in_progress"]_vars
=============================================================================
