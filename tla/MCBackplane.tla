---------------------------- MODULE MCBackplane ----------------------------
(* Instances of Backplane for TLC.                                         *)
EXTENDS Backplane

CONSTANTS a1, a2, a3, a4, p1, p2, c1, c2, m1, m2, e1

Root == [parent |-> NoAgent, level |-> 1]
Down == [parent |-> NoAgent, level |-> NoLevel]
Below(p, l) == [parent |-> p, level |-> l]

(* Trees: a chain whose middle agent is the root; a pair, without or with  *)
(* an agent that comes later; a root with two children and one that comes  *)
(* later: when the root ends, the other three may make a ring.             *)
Chain == a1 :> Below(a2, 2) @@ a2 :> Root @@ a3 :> Below(a2, 2)
Pair == a1 :> Root @@ a2 :> Below(a1, 2)
PairAndLate == Pair @@ a3 :> Down
ForkAndLate == a1 :> Root @@ a2 :> Below(a1, 2) @@ a3 :> Below(a1, 2) @@ a4 :> Down

(* The agent on the host of each process.                                  *)
Ends == p1 :> a1 @@ p2 :> a3
Home == p1 :> a1
Away == p1 :> a2

(* The process of each handle, handles of one process being alike, and the *)
(* masks that match each event.                                            *)
HostOne == c1 :> p1
TwoOnOne == c1 :> p1 @@ c2 :> p1
Handles == Permutations(Client)
OneEach == c1 :> p1 @@ c2 :> p2
OneMask == e1 :> {m1}
NoEvents == [e \in {} |-> {}]
TwoMasks == e1 :> {m1, m2}

(* Either a4 comes, and none but the root or itself ends, or there is a    *)
(* third call, an event, or another end.                                   *)
Few ==
  a4 \in up \cup gone => ops <= 2 /\ published = {} /\ gone \subseteq {a1, a4}

FewNext ==
  \/ \E a \in Agent : AgentStep(a)
  \/ \E p \in Process : ProcessStep(p)
  \/ (Call \/ ComeAndGo) /\ Few'

FewSpec == Init /\ [][FewNext]_vars
=============================================================================
