--------------------------- MODULE MCChatSessions ---------------------------
(***************************************************************************)
(* Small instances of ChatSessions: two runs of a worker, on two gateways  *)
(* that share the state directory.                                         *)
(***************************************************************************)
EXTENDS ChatSessions, TLC

CONSTANTS w1, g1, g2

OneEach == [s \in SessionIds |-> IF s[2] = 1 THEN g1 ELSE g2]
=============================================================================
