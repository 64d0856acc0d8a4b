--------------------------- MODULE Topology_proofs ---------------------------
(***************************************************************************)
(* The database server lists one root at most, and every level fits its 16 *)
(* bits: for every set of agents and every first tree, whatever is lost,   *)
(* late or repeated, and whoever starts, crashes or leaves.                *)
(***************************************************************************)
EXTENDS Topology, TLAPS

(* The inductive invariant.  That two entries differ after an update needs *)
(* the entries to be a function of the agents; what levels the packets     *)
(* carry does not matter, as the server looks at its own entries.          *)
IInv ==
  /\ entry = [a \in Agent |-> entry[a]]
  /\ OneRootEntry

(* At first one agent at most is a root.                                   *)
LEMMA InitIInv == Init => IInv
<1> SUFFICES ASSUME Init PROVE IInv
  OBVIOUS
<1> DEFINE boot == scenario.boot
<1>1. entry = [a \in Agent |-> IF a \in Running THEN boot[a].level ELSE NoEntry]
  BY DEF Init
<1>2. \A a, b \in Agent : boot[a].level = 1 /\ boot[b].level = 1 => a = b
  BY ScenariosType DEF Init
<1>3. \A a \in Agent : entry[a] = 1 => boot[a].level = 1
  BY <1>1 DEF NoEntry
<1> QED
  BY <1>1, <1>2, <1>3 DEF IInv, OneRootEntry

(* An update that makes nobody a root adds no root.                        *)
LEMMA NoNewRoot ==
  ASSUME IInv, NEW b, NEW l, l # 1
  PROVE  LET e == [entry EXCEPT ![b] = l] IN
         /\ e = [a \in Agent |-> e[a]]
         /\ \A a, c \in Agent : e[a] = 1 /\ e[c] = 1 => a = c
  BY DEF IInv, OneRootEntry

(* FTBNI_BOOTSTRAP_MSG_TYPE_REG_REQ: a root is listed when there is none.  *)
LEMMA RegReqIInv ==
  ASSUME IInv, NEW r, ServeRegReq(r)
  PROVE  IInv'
<1>1. CASE Refuses(r)
  BY <1>1 DEF IInv, OneRootEntry, ServeRegReq
<1>2. CASE ~ Refuses(r) /\ r.level = 1
  <2>1. \A a \in Agent : entry[a] # 1
    BY <1>2 DEF Refuses, RootEntries
  <2>2. entry' = [entry EXCEPT ![r.from] = 1]
    BY <1>2 DEF ServeRegReq
  <2>3. \A a \in Agent : entry'[a] = 1 => a = r.from
    BY <2>1, <2>2 DEF IInv
  <2> QED
    BY <2>2, <2>3 DEF IInv, OneRootEntry
<1>3. CASE ~ Refuses(r) /\ r.level # 1
  <2>1. entry' = [entry EXCEPT ![r.from] = r.level]
    BY <1>3 DEF ServeRegReq
  <2> QED
    BY <1>3, <2>1, NoNewRoot DEF IInv, OneRootEntry
<1> QED
  BY <1>1, <1>2, <1>3

(* FTBNI_BOOTSTRAP_MSG_TYPE_ADDR_REQ crosses out the lost parent at most.  *)
LEMMA AddrReqIInv ==
  ASSUME IInv, NEW r, ServeAddrReq(r)
  PROVE  IInv'
<1>1. entry' = entry \/ entry' = [entry EXCEPT ![r.parent] = CrossedOut]
  BY DEF ServeAddrReq, CrossOut
<1> QED
  BY <1>1, NoNewRoot DEF IInv, OneRootEntry, CrossedOut

(* DEREG_REQ and CONN_FAIL remove an entry at most.                        *)
LEMMA NoticeIInv ==
  ASSUME IInv, NEW r, ServeNotice(r)
  PROVE  IInv'
<1>1. entry' = entry \/ \E b : entry' = [entry EXCEPT ![b] = NoEntry]
  BY DEF ServeNotice, Forget
<1> QED
  BY <1>1, NoNewRoot DEF IInv, OneRootEntry, NoEntry

(* The server alone changes the entries.                                   *)
LEMMA NextIInv == IInv /\ [Next]_vars => IInv'
<1> SUFFICES ASSUME IInv, [Next]_vars PROVE IInv'
  OBVIOUS
<1>1. CASE UNCHANGED entry
  BY <1>1 DEF IInv, OneRootEntry
<1>2. CASE Server
  <2>1. CASE ServeRequest
    BY <2>1, RegReqIInv, AddrReqIInv, NoticeIInv DEF ServeRequest
  <2>2. CASE \E r \in requests : LoseRequest(r)
    BY <1>1, <2>2 DEF LoseRequest
  <2> QED
    BY <1>2, <2>1, <2>2 DEF Server
<1>3. CASE \E a \in Agent : AgentStep(a) \/ Timeout(a) \/ Start(a)
       \/ Crash(a) \/ Leave(a) \/ Left(a)
  BY <1>1, <1>3 DEF AgentStep, Timeout, Start, Crash, Leave, Left
<1>4. CASE UNCHANGED vars
  BY <1>1, <1>4 DEF vars
<1> QED
  BY <1>2, <1>3, <1>4 DEF Next

(* The server never lists two roots: of several agents that take           *)
(* themselves for the root, one registers and the others are refused.      *)
THEOREM OneRootAtMost == Spec => []OneRootEntry
<1>1. IInv => OneRootEntry
  BY DEF IInv
<1> QED
  BY <1>1, InitIInv, NextIInv, PTL DEF Spec

-----------------------------------------------------------------------------
(* Types.  Levels fit in 16 bits because the server names parents of a     *)
(* smaller level only, and the agent below a parent is of the next one.    *)

Sound(n) ==
  /\ n \in Node /\ n.above < NoLevel
  /\ n.pc = "waiting" => n.target \in Agent

Named(r) == r.type = "ADDR_REP" => r.level < NoLevel

TypeInv ==
  /\ TypeOK
  /\ \A a \in Agent : Sound(node[a])
  /\ \A r \in replies : Named(r)

(* What the exchanges and their ends do to packets.                        *)
LEMMA HushedType ==
  ASSUME requests \subseteq Request, NEW a
  PROVE  Hushed(a) \subseteq Request
<1> SUFFICES ASSUME NEW r \in requests PROVE [r EXCEPT !.open = FALSE] \in Request
  BY DEF Hushed
<1> QED
  BY DEF Request

LEMMA PacketType ==
  ASSUME NEW a \in Agent, NEW n, Sound(n), NEW p \in Address, NEW open \in BOOLEAN,
         NEW type \in {"ADDR_REQ", "REG_REQ", "DEREG_REQ", "CONN_FAIL"}
  PROVE  Packet(type, a, n, p, open) \in Request
<1>1. n.level \in 1..NoLevel
  BY DEF Sound, Node
<1> QED
  BY <1>1 DEF Packet, Request

LEMMA AsksType ==
  ASSUME NEW a \in Agent, NEW n, Sound(n)
  PROVE  Asks(a, n) \in Request
<1>1. n.target \in Address /\ NoAgent \in Address
  BY DEF Sound, Node, Address
<1> QED
  BY <1>1, PacketType DEF Asks

(* How the levels lie: those of agents, of entries, and their bounds.       *)
LEMMA Levels ==
  /\ NoEntry \in 0..CrossedOut /\ CrossedOut \in 0..CrossedOut /\ NoLevel \in 1..NoLevel
  /\ \A l \in 1..NoLevel : l \in 0..CrossedOut
  /\ \A l \in 0..CrossedOut, m \in 1..NoLevel : l < m => l < NoLevel
  /\ \A l \in 0..CrossedOut : l \in Nat
  /\ \A l \in Nat : l < NoLevel => l + 1 \in 1..NoLevel
<1>1. NoEntry = 0 /\ NoLevel \in Nat /\ NoLevel >= 1 /\ CrossedOut \in Nat /\ NoLevel < CrossedOut
  BY DEF NoEntry, CrossedOut, NoLevel
<1> QED
  BY <1>1

LEMMA FreshSound == Sound(Fresh)
<1>1. 0 < NoLevel /\ NoLevel \in 1..NoLevel
  BY Levels DEF NoEntry
<1> QED
  BY <1>1, TriesType DEF Sound, Fresh, Node, Place, Address

LEMMA EndsType ==
  ASSUME TypeInv, NEW a \in Agent, NEW n, Sound(n), Ends(a, n), UNCHANGED <<entry, bounds>>
  PROVE  TypeInv'
<1>1. node' = [node EXCEPT ![a] = n] /\ requests' \subseteq Request /\ replies' \subseteq replies
  BY HushedType DEF Ends, TypeInv, TypeOK, Unread
<1>2. node' \in [Agent -> Node] /\ \A b \in Agent : Sound(node'[b])
  BY <1>1 DEF TypeInv, TypeOK, Sound
<1> QED
  BY <1>1, <1>2 DEF TypeInv, TypeOK, bounds

LEMMA OpensType ==
  ASSUME TypeInv, NEW a \in Agent, NEW n, Sound(n), NEW others, others \subseteq Request,
         Opens(a, n, others), UNCHANGED <<entry, scenario, starts, faults>>,
         timeouts' \in 0..scenario.timeouts
  PROVE  TypeInv'
<1> DEFINE m == [n EXCEPT !.tries = 1]
<1>1. Sound(m)
  BY TriesType DEF Sound, Node
<1> HIDE DEF m
<1>2. Asks(a, n) \in Request
  BY AsksType
<1>3. node' = [node EXCEPT ![a] = m] /\ requests' \subseteq Request /\ replies' \subseteq replies
  BY <1>2, HushedType DEF Opens, TypeInv, TypeOK, Unread, m
<1>4. node' \in [Agent -> Node] /\ \A b \in Agent : Sound(node'[b])
  BY <1>1, <1>3 DEF TypeInv, TypeOK, Sound
<1> QED
  BY <1>3, <1>4 DEF TypeInv, TypeOK

(* An exchange is opened in the course of FTBN_Connect.                    *)
LEMMA ReopensType ==
  ASSUME TypeInv, NEW a \in Agent, NEW n, Sound(n), NEW others, others \subseteq Request,
         Opens(a, n, others), UNCHANGED <<entry, bounds>>
  PROVE  TypeInv'
<1>1. UNCHANGED <<entry, scenario, starts, faults>>
  BY DEF bounds
<1>2. timeouts' \in 0..scenario.timeouts
  BY DEF bounds, TypeInv, TypeOK
<1> QED
  BY <1>1, <1>2, OpensType

(* Others are cut off, or keep what they have.                             *)
LEMMA CutSound ==
  ASSUME TypeInv, NEW a, NEW x \in Agent
  PROVE  Sound(Cut(a, x)) /\ Sound([node[x] EXCEPT !.linked = FALSE])
<1>1. Sound(node[x])
  BY DEF TypeInv
<1> QED
  BY <1>1 DEF Cut, Sound, Node, Place

LEMMA EndedType ==
  ASSUME TypeInv, NEW a \in Agent, Ended(a), UNCHANGED <<entry, scenario>>,
         starts' \in 0..scenario.starts, faults' \in 0..scenario.faults,
         timeouts' \in 0..scenario.timeouts
  PROVE  TypeInv'
<1>1. requests' \subseteq Request /\ replies' \subseteq replies
  BY HushedType DEF Ended, TypeInv, TypeOK, Unread
<1>2. \A x \in Agent : Sound(node'[x])
  BY FreshSound, CutSound DEF Ended, TypeInv
<1>3. node' \in [Agent -> Node]
  <2>1. node' = [x \in Agent |-> node'[x]]
    BY DEF Ended
  <2> QED
    BY <1>2, <2>1, Zenon DEF Sound
<1> QED
  BY <1>1, <1>2, <1>3 DEF TypeInv, TypeOK

-----------------------------------------------------------------------------
(* The server.                                                             *)

LEMMA EntryType ==
  ASSUME NEW b, NEW l \in 0..CrossedOut, TypeInv
  PROVE  [entry EXCEPT ![b] = l] \in [Agent -> 0..CrossedOut]
<1>1. entry \in [Agent -> 0..CrossedOut]
  BY DEF TypeInv, TypeOK
<1> QED
  BY <1>1, Zenon

LEMMA AnswersType ==
  ASSUME TypeInv, NEW r \in requests, NEW reply \in Reply, Named(reply), Answers(r, reply),
         UNCHANGED <<node, bounds>>, entry' \in [Agent -> 0..CrossedOut]
  PROVE  TypeInv'
BY DEF TypeInv, TypeOK, Answers, bounds

LEMMA AddrReqType ==
  ASSUME TypeInv, NEW r \in requests, ServeAddrReq(r), UNCHANGED <<node, bounds>>
  PROVE  TypeInv'
<1>1. r \in Request /\ r.from \in Agent /\ r.level \in 1..NoLevel
  BY DEF TypeInv, TypeOK, Request
<1>2. entry' \in [Agent -> 0..CrossedOut]
  <2>1. entry' = entry \/ entry' = [entry EXCEPT ![r.parent] = CrossedOut]
    BY DEF ServeAddrReq, CrossOut
  <2>2. entry \in [Agent -> 0..CrossedOut]
    BY DEF TypeInv, TypeOK
  <2> QED
    BY <2>1, <2>2, Levels, EntryType
<1>3. PICK p \in IF Suitable(entry', r) = {} THEN {NoAgent} ELSE Suitable(entry', r) :
        Answers(r, [type |-> "ADDR_REP", to |-> r.from, parent |-> p,
                    level |-> IF p = NoAgent THEN 0 ELSE entry'[p]])
  BY DEF ServeAddrReq
<1> DEFINE l == IF p = NoAgent THEN 0 ELSE entry'[p]
<1>4. p \in Agent \cup {NoAgent} /\ l \in 0..CrossedOut /\ l < NoLevel
  <2>1. CASE p = NoAgent
    <3>1. 0 \in 0..CrossedOut /\ 0 < NoLevel
      BY Levels DEF NoEntry
    <3> QED
      BY <2>1, <3>1
  <2>2. CASE p # NoAgent
    <3>1. p \in Agent /\ entry'[p] < r.level
      BY <1>3, <2>2 DEF Suitable
    <3>2. entry'[p] \in 0..CrossedOut
      BY <1>2, <3>1
    <3> QED
      BY <1>1, <2>2, <3>1, <3>2, Levels
  <2> QED
    BY <2>1, <2>2
<1> HIDE DEF l
<1> DEFINE reply == [type |-> "ADDR_REP", to |-> r.from, parent |-> p, level |-> l]
<1>5. reply \in Reply /\ Named(reply)
  BY <1>1, <1>4 DEF Reply, Named
<1>6. Answers(r, reply)
  BY <1>3 DEF l
<1> HIDE DEF reply
<1> QED
  BY <1>2, <1>5, <1>6, AnswersType

LEMMA RegReqType ==
  ASSUME TypeInv, NEW r \in requests, ServeRegReq(r), UNCHANGED <<node, bounds>>
  PROVE  TypeInv'
<1>1. r.from \in Agent /\ r.level \in 1..NoLevel
  BY DEF TypeInv, TypeOK, Request
<1>2. entry' \in [Agent -> 0..CrossedOut]
  <2>1. entry' = entry \/ entry' = [entry EXCEPT ![r.from] = r.level]
    BY DEF ServeRegReq
  <2>2. entry \in [Agent -> 0..CrossedOut]
    BY DEF TypeInv, TypeOK
  <2> QED
    BY <1>1, <2>1, <2>2, Levels, EntryType
<1> DEFINE reply == [type |-> IF Refuses(r) THEN "REG_INVALID" ELSE "REG_REP", to |-> r.from]
<1>3. reply \in Reply /\ Named(reply)
  BY <1>1 DEF Reply, Named
<1>4. Answers(r, reply)
  BY DEF ServeRegReq
<1> HIDE DEF reply
<1> QED
  BY <1>2, <1>3, <1>4, AnswersType

LEMMA ServerType ==
  ASSUME TypeInv, Server
  PROVE  TypeInv'
<1>1. UNCHANGED <<node, bounds>>
  BY DEF Server
<1>2. CASE \E r \in requests : ServeAddrReq(r) \/ ServeRegReq(r)
  BY <1>1, <1>2, AddrReqType, RegReqType
<1>3. CASE \E r \in requests : ServeNotice(r) \/ LoseRequest(r)
  <2>1. requests' \subseteq requests /\ replies' = replies
    BY <1>3 DEF ServeNotice, LoseRequest
  <2>2. entry' \in [Agent -> 0..CrossedOut]
    <3>1. entry' = entry \/ \E b : entry' = [entry EXCEPT ![b] = NoEntry]
      BY <1>3 DEF ServeNotice, LoseRequest, Forget
    <3>2. entry \in [Agent -> 0..CrossedOut]
      BY DEF TypeInv, TypeOK
    <3> QED
      BY <3>1, <3>2, Levels, EntryType
  <2> QED
    BY <1>1, <2>1, <2>2 DEF TypeInv, TypeOK, bounds
<1> QED
  BY <1>2, <1>3 DEF Server, ServeRequest

-----------------------------------------------------------------------------
(* The agents.                                                             *)

LEMMA AcceptedType ==
  ASSUME TypeInv, NEW a \in Agent, node[a].target \in Agent, Accepted(a),
         UNCHANGED <<entry, bounds>>
  PROVE  TypeInv'
<1> DEFINE n == node[a]
           l == n.above + 1
           m == [n EXCEPT !.pc = "registering", !.parent = n.target, !.linked = TRUE,
                          !.level = l]
<1>1. Sound(n) /\ n.above \in Nat /\ n.above < NoLevel
  BY DEF TypeInv, Sound, Node
<1>2. l \in 1..NoLevel
  BY <1>1, Levels
<1>3. Opens(a, m, {})
  BY DEF Accepted
<1> HIDE DEF l
<1>4. Sound(m)
  BY <1>1, <1>2 DEF Sound, Node, Place
<1> HIDE DEF m
<1> QED
  BY <1>3, <1>4, ReopensType

LEMMA GetAddrRepType ==
  ASSUME TypeInv, NEW a \in Agent, GetAddrRep(a), UNCHANGED <<entry, bounds>>
  PROVE  TypeInv'
<1> DEFINE n == node[a]
<1>1. Sound(n)
  BY DEF TypeInv
<1>2. PICK r \in replies :
        /\ r.type = "ADDR_REP"
        /\ \/ Opens(a, [[n EXCEPT !.target = r.parent, !.above = r.level] EXCEPT
                          !.pc = "registering", !.parent = NoAgent, !.level = r.level + 1], {})
           \/ Ends(a, [[n EXCEPT !.target = r.parent, !.above = r.level] EXCEPT
                          !.pc = "connecting"])
  BY DEF GetAddrRep
<1>3. r.parent \in Agent \cup {NoAgent} /\ r.level \in 0..CrossedOut /\ r.level < NoLevel
  BY <1>2 DEF TypeInv, TypeOK, Reply, Named
<1> DEFINE l == r.level + 1
<1>4. r.level \in Nat /\ l \in 1..NoLevel
  BY <1>3, Levels
<1> DEFINE m == [n EXCEPT !.target = r.parent, !.above = r.level]
           root == [m EXCEPT !.pc = "registering", !.parent = NoAgent, !.level = l]
           below == [m EXCEPT !.pc = "connecting"]
<1>5. Opens(a, root, {}) \/ Ends(a, below)
  BY <1>2
<1>6. m \in Node /\ m.above < NoLevel
  BY <1>1, <1>3, <1>4 DEF Sound, Node, Address
<1> HIDE DEF m, l
<1>7. Sound(root) /\ Sound(below)
  BY <1>4, <1>6 DEF Sound, Node, Place
<1> HIDE DEF root, below
<1> QED
  BY <1>5, <1>7, ReopensType, EndsType

(* What an agent becomes when it asks, for the first time or once more.    *)
LEMMA AsksSound ==
  ASSUME NEW n, Sound(n), NEW again \in 0..1
  PROVE  /\ Sound([n EXCEPT !.pc = "asking", !.level = NoLevel, !.retry = again])
         /\ Sound([n EXCEPT !.pc = "asking", !.target = Nowhere, !.retry = again])
         /\ Sound([n EXCEPT !.pc = "asking", !.retry = again])
         /\ n.pc = "asking" => Sound([n EXCEPT !.target = NoAgent, !.retry = again])
<1>1. NoLevel \in 1..NoLevel
  BY Levels
<1> QED
  BY <1>1 DEF Sound, Node, Place, Address

(* What an agent becomes when its place changes, and no level is computed. *)
LEMMA Settled ==
  ASSUME NEW n, Sound(n)
  PROVE  /\ Sound(Joined(n)) /\ Sound(AskAfresh(n))
         /\ Sound([n EXCEPT !.pc = "asking", !.target = Nowhere, !.retry = 1])
         /\ Sound([n EXCEPT !.pc = "asking", !.retry = 1])
         /\ Sound([n EXCEPT !.pc = "asking", !.retry = 0])
         /\ n.pc = "asking" => Sound([n EXCEPT !.target = NoAgent, !.retry = 1])
         /\ Sound([n EXCEPT !.pc = "astray", !.serving = TRUE])
         /\ Sound([n EXCEPT !.pc = "leaving", !.serving = FALSE])
         /\ n.target \in Agent => Sound([n EXCEPT !.pc = "waiting"])
<1>1. 0 \in 0..1 /\ 1 \in 0..1
  OBVIOUS
<1>2. Sound(Joined(n))
  BY DEF Sound, Node, Place, Joined
<1>3. /\ Sound(AskAfresh(n))
      /\ Sound([n EXCEPT !.pc = "asking", !.target = Nowhere, !.retry = 1])
      /\ Sound([n EXCEPT !.pc = "asking", !.retry = 1])
      /\ n.pc = "asking" => Sound([n EXCEPT !.target = NoAgent, !.retry = 1])
  BY <1>1, AsksSound, Zenon DEF AskAfresh
<1>4. Sound([n EXCEPT !.pc = "asking", !.retry = 0])
  BY <1>1, AsksSound, Zenon
<1>5. Sound([n EXCEPT !.pc = "astray", !.serving = TRUE])
  BY DEF Sound, Node, Place
<1>6. Sound([n EXCEPT !.pc = "leaving", !.serving = FALSE])
  BY DEF Sound, Node, Place
<1>7. n.target \in Agent => Sound([n EXCEPT !.pc = "waiting"])
  BY DEF Sound, Node, Place
<1> QED
  BY <1>2, <1>3, <1>4, <1>5, <1>6, <1>7, Zenon

LEMMA ConnectType ==
  ASSUME TypeInv, NEW a \in Agent, Connect(a), UNCHANGED <<entry, bounds>>
  PROVE  TypeInv'
<1> DEFINE n == node[a]
           lost == [n EXCEPT !.pc = "asking", !.target = Nowhere, !.retry = 1]
           waits == [n EXCEPT !.pc = "waiting"]
<1>1. Sound(n) /\ n.target \in Address
  BY DEF TypeInv, Sound, Node
<1>2. Sound(lost) /\ (n.target \in Agent => Sound(waits))
  BY <1>1, Settled, Zenon
<1>3. \/ \E garbage \in {NoAgent, n.target} :
           Opens(a, lost, {Packet("CONN_FAIL", a, n, garbage, FALSE)})
      \/ n.target \in Agent /\ Accepted(a)
      \/ n.target \in Agent /\ Ends(a, waits)
  BY DEF Connect
<1> HIDE DEF lost, waits
<1>4. CASE \E garbage \in {NoAgent, n.target} :
             Opens(a, lost, {Packet("CONN_FAIL", a, n, garbage, FALSE)})
  <2>1. PICK garbage \in {NoAgent, n.target} :
          Opens(a, lost, {Packet("CONN_FAIL", a, n, garbage, FALSE)})
    BY <1>4
  <2>2. garbage \in Address
    BY <1>1 DEF Address
  <2> DEFINE notice == Packet("CONN_FAIL", a, n, garbage, FALSE)
  <2>3. notice \in Request
    BY <1>1, <2>2, PacketType
  <2> HIDE DEF notice
  <2> QED
    BY <1>2, <2>1, <2>3, ReopensType DEF notice
<1>5. CASE n.target \in Agent /\ Accepted(a)
  BY <1>5, AcceptedType
<1>6. CASE n.target \in Agent /\ Ends(a, waits)
  BY <1>2, <1>6, EndsType
<1> QED
  BY <1>3, <1>4, <1>5, <1>6

LEMMA HandshakeType ==
  ASSUME TypeInv, NEW a \in Agent, Handshake(a), UNCHANGED <<entry, bounds>>
  PROVE  TypeInv'
<1> DEFINE n == node[a]
           again == [n EXCEPT !.pc = "asking", !.retry = 1]
           failed == [n EXCEPT !.pc = "astray", !.serving = TRUE]
<1>1. Sound(n)
  BY DEF TypeInv
<1>2. Sound(again) /\ Sound(failed)
  BY <1>1, Settled, Zenon
<1>3. \/ n.pc = "waiting" /\ Accepted(a)
      \/ Opens(a, again, {})
      \/ /\ node' = [x \in Agent |-> IF x = a THEN failed ELSE Cut(a, x)]
         /\ UNCHANGED <<requests, replies>>
  BY DEF Handshake
<1> HIDE DEF again, failed
<1>4. CASE n.pc = "waiting" /\ Accepted(a)
  BY <1>1, <1>4, AcceptedType DEF Sound
<1>5. CASE Opens(a, again, {})
  BY <1>2, <1>5, ReopensType
<1>6. CASE /\ node' = [x \in Agent |-> IF x = a THEN failed ELSE Cut(a, x)]
           /\ UNCHANGED <<requests, replies>>
  <2>1. \A x \in Agent : Sound(node'[x])
    BY <1>2, <1>6, CutSound
  <2>2. node' = [x \in Agent |-> node'[x]]
    BY <1>6
  <2>3. node' \in [Agent -> Node]
    BY <2>1, <2>2, Zenon DEF Sound
  <2> QED
    BY <1>6, <2>1, <2>3 DEF TypeInv, TypeOK, bounds
<1> QED
  BY <1>3, <1>4, <1>5, <1>6

LEMMA AgentStepType ==
  ASSUME TypeInv, NEW a \in Agent, AgentStep(a)
  PROVE  TypeInv'
<1> DEFINE n == node[a]
           afresh == AskAfresh(n)
           joined == Joined(n)
           lost == [n EXCEPT !.pc = "asking", !.retry = 0]
<1>1. UNCHANGED <<entry, bounds>> /\ Sound(n)
  BY DEF AgentStep, TypeInv
<1>2. Sound(afresh) /\ Sound(joined) /\ Sound(lost)
  BY <1>1, Settled, Zenon
<1>3. GetRegRep(a) => Ends(a, joined) \/ Opens(a, afresh, {})
  BY DEF GetRegRep
<1>4. Reconnect(a) => Opens(a, lost, {})
  BY DEF Reconnect
<1> HIDE DEF afresh, joined, lost
<1>5. CASE GetRegRep(a)
  BY <1>1, <1>2, <1>3, <1>5, EndsType, ReopensType
<1>6. CASE Reconnect(a)
  BY <1>1, <1>2, <1>4, <1>6, ReopensType
<1> QED
  BY <1>1, <1>5, <1>6, GetAddrRepType, ConnectType, HandshakeType DEF AgentStep

LEMMA TimeoutType ==
  ASSUME TypeInv, NEW a \in Agent, Timeout(a)
  PROVE  TypeInv'
<1> DEFINE n == node[a]
<1>1. /\ UNCHANGED <<entry, scenario, starts, faults>> /\ timeouts' \in 0..scenario.timeouts
      /\ Sound(n)
  <2>1. scenario.timeouts \in Nat /\ timeouts \in 0..scenario.timeouts
    BY ScenariosType DEF TypeInv, TypeOK
  <2>2. timeouts < scenario.timeouts /\ timeouts' = timeouts + 1
    BY DEF Timeout
  <2> QED
    BY <2>1, <2>2 DEF Timeout, TypeInv
<1>2. CASE /\ n.tries < Tries
           /\ \E q \in SUBSET {r \in requests : r.from = a /\ r.open},
                 s \in SUBSET {r \in replies : r.to = a} :
                /\ requests' = (requests \ q) \cup {Asks(a, n)}
                /\ replies' = replies \ s
           /\ node' = [node EXCEPT ![a].tries = @ + 1]
  <2>1. requests' \subseteq requests \cup {Asks(a, n)} /\ replies' \subseteq replies
    BY <1>2
  <2>2. Asks(a, n) \in Request
    BY <1>1, AsksType
  <2>3. n.tries \in 1..Tries
    BY <1>1 DEF Sound, Node
  <2>4. n.tries + 1 \in 1..Tries
    BY <1>2, <2>3, TriesType
  <2>5. Sound([n EXCEPT !.tries = n.tries + 1])
    <3> DEFINE k == n.tries + 1
    <3>1. k \in 1..Tries
      BY <2>4
    <3> HIDE DEF k
    <3>2. Sound([n EXCEPT !.tries = k])
      BY <1>1, <3>1 DEF Sound, Node
    <3> QED
      BY <3>2 DEF k
  <2>6. node' = [node EXCEPT ![a] = [n EXCEPT !.tries = n.tries + 1]]
    BY <1>2
  <2>7. node' \in [Agent -> Node] /\ \A b \in Agent : Sound(node'[b])
    BY <2>5, <2>6 DEF TypeInv, TypeOK, Sound
  <2> QED
    BY <1>1, <2>1, <2>2, <2>7 DEF TypeInv, TypeOK
<1> DEFINE blank == [n EXCEPT !.target = NoAgent, !.retry = 1]
           afresh == AskAfresh(n)
           joined == Joined(n)
<1>3. Sound(afresh) /\ Sound(joined) /\ (n.pc = "asking" => Sound(blank))
  BY <1>1, Settled, Zenon
<1>4. \/ /\ n.tries < Tries
         /\ \E q \in SUBSET {r \in requests : r.from = a /\ r.open},
               s \in SUBSET {r \in replies : r.to = a} :
              /\ requests' = (requests \ q) \cup {Asks(a, n)}
              /\ replies' = replies \ s
         /\ node' = [node EXCEPT ![a].tries = @ + 1]
      \/ n.pc = "asking" /\ Opens(a, blank, {})
      \/ Ended(a) \/ Opens(a, afresh, {}) \/ Ends(a, joined)
  BY DEF Timeout
<1> HIDE DEF blank, afresh, joined
<1>5. CASE n.pc = "asking" /\ Opens(a, blank, {})
  BY <1>1, <1>3, <1>5, OpensType
<1>6. CASE Ended(a)
  <2>1. starts' \in 0..scenario.starts /\ faults' \in 0..scenario.faults
    BY <1>1 DEF TypeInv, TypeOK
  <2> QED
    BY <1>1, <1>6, <2>1, EndedType
<1>7. CASE Opens(a, afresh, {})
  BY <1>1, <1>3, <1>7, OpensType
<1>8. CASE Ends(a, joined)
  <2>1. requests' \subseteq Request /\ replies' \subseteq replies
    BY <1>8, HushedType DEF Ends, TypeInv, TypeOK, Unread
  <2>2. node' = [node EXCEPT ![a] = joined]
    BY <1>8 DEF Ends
  <2>3. node' \in [Agent -> Node] /\ \A b \in Agent : Sound(node'[b])
    BY <1>3, <2>2 DEF TypeInv, TypeOK, Sound
  <2> QED
    BY <1>1, <2>1, <2>3 DEF TypeInv, TypeOK
<1> QED
  BY <1>2, <1>4, <1>5, <1>6, <1>7, <1>8

LEMMA StartType ==
  ASSUME TypeInv, NEW a \in Agent, Start(a)
  PROVE  TypeInv'
<1> DEFINE n == [Fresh EXCEPT !.pc = "asking"]
<1>1. Sound(n)
  BY FreshSound DEF Sound, Node, Place
<1>2. node' = [node EXCEPT ![a] = n] /\ requests' = requests \cup {Asks(a, n)}
  BY DEF Start
<1> HIDE DEF n
<1>3. requests' \subseteq Request
  BY <1>1, <1>2, AsksType DEF TypeInv, TypeOK
<1>4. node' \in [Agent -> Node] /\ \A b \in Agent : Sound(node'[b])
  BY <1>1, <1>2 DEF TypeInv, TypeOK, Sound
<1>5. starts' \in 0..scenario.starts
  <2>1. scenario.starts \in Nat /\ starts \in 0..scenario.starts
    BY ScenariosType DEF TypeInv, TypeOK
  <2>2. starts < scenario.starts /\ starts' = starts + 1
    BY DEF Start
  <2> QED
    BY <2>1, <2>2
<1>6. UNCHANGED <<entry, replies, scenario, faults, timeouts>>
  BY DEF Start
<1> QED
  BY <1>3, <1>4, <1>5, <1>6 DEF TypeInv, TypeOK

LEMMA FaultType ==
  ASSUME TypeInv, Fault
  PROVE  faults' \in 0..scenario.faults
<1>1. scenario.faults \in Nat /\ faults \in 0..scenario.faults
  BY ScenariosType DEF TypeInv, TypeOK
<1> QED
  BY <1>1 DEF Fault

LEMMA EndType ==
  ASSUME TypeInv, NEW a \in Agent, Crash(a) \/ Left(a)
  PROVE  TypeInv'
<1>1. Ended(a) /\ UNCHANGED <<entry, scenario>>
  BY DEF Crash, Left, bounds
<1>2. starts' \in 0..scenario.starts /\ timeouts' \in 0..scenario.timeouts
  BY DEF Crash, Left, bounds, TypeInv, TypeOK
<1>3. faults' \in 0..scenario.faults
  <2>1. CASE Crash(a)
    BY <2>1, FaultType DEF Crash
  <2>2. CASE Left(a)
    BY <2>2 DEF Left, bounds, TypeInv, TypeOK
  <2> QED
    BY <2>1, <2>2
<1> QED
  BY <1>1, <1>2, <1>3, EndedType

LEMMA LeaveType ==
  ASSUME TypeInv, NEW a \in Agent, Leave(a)
  PROVE  TypeInv'
<1> DEFINE n == node[a]
           left == [n EXCEPT !.pc = "leaving", !.serving = FALSE]
<1>1. Sound(n)
  BY DEF TypeInv
<1>2. Sound(left)
  BY <1>1, Settled, Zenon
<1>3. /\ node' = [node EXCEPT ![a] = left]
      /\ requests' = requests \cup {Packet("DEREG_REQ", a, n, NoAgent, FALSE)}
      /\ UNCHANGED <<entry, replies, scenario, starts, timeouts>>
  BY DEF Leave
<1> HIDE DEF left
<1>4. requests' \subseteq Request
  <2>1. NoAgent \in Address
    BY DEF Address
  <2>2. Packet("DEREG_REQ", a, n, NoAgent, FALSE) \in Request
    BY <1>1, <2>1, PacketType
  <2> QED
    BY <1>3, <2>2 DEF TypeInv, TypeOK
<1>5. node' \in [Agent -> Node] /\ \A b \in Agent : Sound(node'[b])
  BY <1>2, <1>3 DEF TypeInv, TypeOK, Sound
<1>6. faults' \in 0..scenario.faults
  BY FaultType DEF Leave
<1> QED
  BY <1>3, <1>4, <1>5, <1>6 DEF TypeInv, TypeOK

-----------------------------------------------------------------------------
LEMMA InitTypeInv == Init => TypeInv
<1> SUFFICES ASSUME Init PROVE TypeInv
  OBVIOUS
<1>1. scenario \in Scenarios
  BY DEF Init
<1>2. \A a \in Agent : /\ scenario.boot[a].level \in 1..NoLevel
                       /\ scenario.boot[a].parent \in Agent \cup {NoAgent}
  BY <1>1, ScenariosType
<1>3. entry \in [Agent -> 0..CrossedOut]
  <2>1. entry = [a \in Agent |-> IF a \in Running THEN scenario.boot[a].level ELSE NoEntry]
    BY DEF Init
  <2>2. \A a \in Agent : scenario.boot[a].level \in 0..CrossedOut
    BY <1>2, Levels
  <2> QED
    BY <2>1, <2>2, Levels
<1>4. \A a \in Running : Sound(Booted(scenario.boot[a]))
  <2> SUFFICES ASSUME NEW a \in Running PROVE Sound(Booted(scenario.boot[a]))
    OBVIOUS
  <2> DEFINE boot == scenario.boot[a]
             above == boot.level - 1
  <2>1. boot.level \in 1..NoLevel /\ boot.level < NoLevel /\ boot.parent \in Agent \cup {NoAgent}
    BY <1>2 DEF Running
  <2>2. above \in Nat /\ above < NoLevel
    BY <2>1, Levels
  <2>3. Booted(boot) = [Fresh EXCEPT !.pc = "joined", !.serving = TRUE, !.level = boot.level,
          !.above = above, !.target = boot.parent, !.parent = boot.parent,
          !.linked = boot.parent # NoAgent]
    BY DEF Booted
  <2> HIDE DEF above, boot
  <2>4. Sound([Fresh EXCEPT !.pc = "joined", !.serving = TRUE, !.level = boot.level,
          !.above = above, !.target = boot.parent, !.parent = boot.parent,
          !.linked = boot.parent # NoAgent])
    BY <2>1, <2>2, FreshSound DEF Sound, Node, Place, Address
  <2>5. Sound(Booted(boot))
    BY <2>3, <2>4
  <2> QED
    BY <2>5 DEF boot
<1>5. node = [a \in Agent |-> IF a \in Running THEN Booted(scenario.boot[a]) ELSE Fresh]
  BY DEF Init
<1>6. \A a \in Agent : Sound(node[a])
  BY <1>4, <1>5, FreshSound
<1>7. node \in [Agent -> Node]
  <2>1. node = [a \in Agent |-> node[a]]
    BY <1>5
  <2> QED
    BY <1>6, <2>1, Zenon DEF Sound
<1>8. /\ starts \in 0..scenario.starts /\ faults \in 0..scenario.faults
      /\ timeouts \in 0..scenario.timeouts
  BY <1>1, ScenariosType DEF Init
<1> QED
  BY <1>1, <1>3, <1>6, <1>7, <1>8 DEF Init, TypeInv, TypeOK

LEMMA NextTypeInv == TypeInv /\ [Next]_vars => TypeInv'
<1> SUFFICES ASSUME TypeInv, [Next]_vars PROVE TypeInv'
  OBVIOUS
<1>1. CASE UNCHANGED vars
  BY <1>1 DEF vars, bounds, TypeInv, TypeOK
<1> QED
  BY <1>1, ServerType, AgentStepType, TimeoutType, StartType, EndType, LeaveType DEF Next

(* Levels and addresses have their types, whatever is lost, late or        *)
(* repeated: no agent computes a level that a uint16_t does not hold, and  *)
(* none waits for a target that is no agent.                               *)
THEOREM TypeCorrect == Spec => []TypeOK
<1>1. TypeInv => TypeOK
  BY DEF TypeInv
<1> QED
  BY <1>1, InitTypeInv, NextTypeInv, PTL DEF Spec
=============================================================================
