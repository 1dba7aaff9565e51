---------------------------- MODULE MCLifecycle ----------------------------
(***************************************************************************)
(* Small instances of the dispatcher and the lifecycle of its tasks.       *)
(***************************************************************************)
EXTENDS MCDispatcher, DispatcherLifecycle
=============================================================================
