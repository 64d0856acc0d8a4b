----------------------------- MODULE MCTopology -----------------------------
(* Instances of Topology for TLC.                                          *)
EXTENDS Topology, TLC

CONSTANTS a1, a2, a3, a4

Root == [parent |-> NoAgent, level |-> 1]
Down == [parent |-> NoAgent, level |-> NoLevel]
Below(p, l) == [parent |-> p, level |-> l]

(* Nobody runs; a root and two children; the same, and a child of one.     *)
Nobody == [a \in Agent |-> Down]
Star == a1 :> Root @@ a2 :> Below(a1, 2) @@ a3 :> Below(a1, 2)
Fork == Star @@ a4 :> Below(a3, 3)

Scenario(boot, s, f, t) == [boot |-> boot, starts |-> s, faults |-> f, timeouts |-> t]

(* A tree forms; it heals; agents end, start and are not answered.         *)
Small == {Scenario(Nobody, 3, 0, 0), Scenario(Star, 0, 1, 0), Scenario(Star, 1, 1, 1)}

OneLeaves == {Scenario(Fork, 0, 1, 0)}
=============================================================================
