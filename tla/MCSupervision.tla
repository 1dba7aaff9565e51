--------------------------- MODULE MCSupervision ---------------------------
(***************************************************************************)
(* Small instances of Supervision.                                         *)
(***************************************************************************)
EXTENDS Supervision, TLC

CONSTANTS c1, c2
=============================================================================
