------------------------ MODULE DispatcherLifecycle ------------------------
(***************************************************************************)
(* The dispatcher implements TaskLifecycle, task by task.                  *)
(***************************************************************************)
EXTENDS Dispatcher

(* What a runtime state says of one task, to one who knows no leases,       *)
(* clocks or reviews.                                                       *)
AbstractOf(s, t) ==
    [status |-> s.tasks[t].status, holder |-> s.tasks[t].worker,
     tries |-> Len(s.taskAttempts[t]), open |-> HasActiveAttempt(s, t),
     expiries |-> Cardinality({i \in DOMAIN s.taskAttempts[t] :
                                  s.taskAttempts[t][i].status = "expired"})]

Abstract(t) == AbstractOf(State, t)

Lifecycle(t) == INSTANCE TaskLifecycle WITH MaxTries <- MaxTaskAttempts, task <- Abstract(t)

(* Whatever handlers run, and in whatever order, every task goes through    *)
(* the lifecycle: Lifecycle(t)!Spec for every t, the quantifier moved       *)
(* inside, where TLC evaluates it.                                          *)
EveryTaskFollowsLifecycle ==
    /\ \A t \in TaskIds : Lifecycle(t)!Init
    /\ [][\A t \in TaskIds : [Lifecycle(t)!Next]_(Abstract(t))]_vars
=============================================================================
