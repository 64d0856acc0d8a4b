--------------------------- MODULE MCMessageQueue ---------------------------
(* Instances of MessageQueue for TLC.                                      *)
EXTENDS MessageQueue

CONSTANTS x, y, z

(* What is written on each connection.                                     *)
Uneven == [c \in Conn |-> IF c = x THEN 3 ELSE 2]
TwoOneOne == [c \in Conn |-> IF c = x THEN 2 ELSE 1]
=============================================================================
