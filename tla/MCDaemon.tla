------------------------------ MODULE MCDaemon ------------------------------
(***************************************************************************)
(* Small instances of WorkerDaemon.                                        *)
(***************************************************************************)
EXTENDS MCDispatcher, WorkerDaemon
=============================================================================
