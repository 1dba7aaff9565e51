---------------------------- MODULE MCStateLock ----------------------------
(***************************************************************************)
(* Small instances of StateLock.                                           *)
(***************************************************************************)
EXTENDS StateLock

CONSTANTS p1, p2, p3, r1, r2, r3

Successor == [r \in Requests |-> IF r = r1 THEN p1 ELSE p2]

OneEach == [r \in Requests |-> CASE r = r1 -> p1 [] r = r2 -> p2 [] OTHER -> p3]
=============================================================================
