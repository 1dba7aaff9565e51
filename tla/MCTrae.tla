------------------------------- MODULE MCTrae -------------------------------
(***************************************************************************)
(* Small instances of TraeWorker.                                          *)
(***************************************************************************)
EXTENDS MCDispatcher, TraeWorker
=============================================================================
