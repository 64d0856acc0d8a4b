------------------------------ MODULE Topology ------------------------------
(***************************************************************************)
(* How agents find their place in the tree: FTBN_Connect of every agent    *)
(* (network_sock/ftb_network_tcp.c), the exchanges with the database       *)
(* server (ftb_bootstrap_udp.c) and the server (ftb_database_server_udp.c).*)
(*                                                                         *)
(* An agent is named by its address: one that is restarted on its host has *)
(* the address it had before.  Agents run FTBN_Connect side by side, each  *)
(* in small steps; packets to and from the server are lost, delayed or     *)
(* sent twice; a new exchange uses a new socket, so replies to an earlier  *)
(* one are never read.                                                     *)
(*                                                                         *)
(* Slips, as in Manager, are wrong variants that nothing uses.             *)
(***************************************************************************)
EXTENDS Naturals, FiniteSets

CONSTANTS
  Agent,        \* agents, by address
  NoAgent,      \* an address with port 0: "It is the root"
  Nowhere,      \* an address with port 2, where no agent listens
  Tries,        \* FTBNI_BOOTSTRAP_BACKOFF_RETRY_COUNT
  Scenarios     \* who runs at first, and bounds

NoLevel == 65535       \* FTBN_my_level = 0 - 1, as a uint16_t
NoEntry == 0           \* no agent is of level 0
CrossedOut == 65536    \* -1 in the uint32_t of an entry: below no level

ASSUME AddressesAreDistinct ==
  NoAgent \notin Agent /\ Nowhere \notin Agent /\ NoAgent # Nowhere
ASSUME TriesType == Tries \in Nat \ {0}

(* The parent and the level of each agent that runs at first; how many     *)
(* agents start, or start again; how many crash or leave; how many packets *)
(* of an exchange are lost or late.                                        *)
ASSUME ScenariosType ==
  \A s \in Scenarios :
    /\ s.boot \in [Agent -> [parent : Agent \cup {NoAgent}, level : 1..NoLevel]]
    /\ \A a, b \in Agent : s.boot[a].level = 1 /\ s.boot[b].level = 1 => a = b
    /\ {s.starts, s.faults, s.timeouts} \subseteq Nat

VARIABLES
  entry,      \* the level of each address in FTBNI_bootstrap_addr_map
  node,       \* each agent
  requests,   \* packets to the server
  replies,    \* packets to sockets that are still open
  scenario, starts, faults, timeouts

bounds == <<scenario, starts, faults, timeouts>>
vars == <<entry, node, requests, replies, bounds>>

Address == Agent \cup {NoAgent, Nowhere}

(***************************************************************************)
(* Where an agent is in FTBN_Connect.                                      *)
(*   down         it does not run                                          *)
(*   asking       it waits for an ADDR_REP                                 *)
(*   connecting   it is about to connect() to target                       *)
(*   waiting      it is connected, and waits for target to read the        *)
(*                handshake                                                *)
(*   cut          target ended before it read the handshake                *)
(*   registering  it waits for a REG_REP                                   *)
(*   joined       FTBN_Connect is over                                     *)
(*   astray       FTBN_Connect failed, and closed the listening socket     *)
(*   leaving      it is in FTBN_Finalize, with its connections open        *)
(* serving: FTBM_Init is over and the reader accepts connections.  linked: *)
(* the connection to parent is up.                                         *)
(***************************************************************************)
Place == {"down", "asking", "connecting", "waiting", "cut", "registering", "joined", "astray",
          "leaving"}

Node == [pc      : Place,
         level   : 1..NoLevel,    \* FTBN_my_level
         target  : Address,       \* FTBN_parent_addr
         above   : Nat,           \* parent_level
         parent  : Agent \cup {NoAgent},
         retry   : 0..1,
         tries   : 1..Tries,
         serving : BOOLEAN,
         linked  : BOOLEAN]

Fresh == [pc |-> "down", level |-> NoLevel, target |-> NoAgent, above |-> 0,
          parent |-> NoAgent, retry |-> 0, tries |-> 1, serving |-> FALSE,
          linked |-> FALSE]

-----------------------------------------------------------------------------
(* Packets.  open: the sender still waits for the reply.                   *)
Request ==
  [type : {"ADDR_REQ", "REG_REQ", "DEREG_REQ", "CONN_FAIL"},
   from : Agent, parent : Address, level : 1..NoLevel, open : BOOLEAN]
Reply ==
  [type : {"ADDR_REP"}, to : Agent, parent : Agent \cup {NoAgent}, level : 0..CrossedOut]
    \cup [type : {"REG_REP", "REG_INVALID"}, to : Agent]

Packet(type, a, n, p, open) ==
  [type |-> type, from |-> a, parent |-> p, level |-> n.level, open |-> open]

(* What agent a, being n, sends in the exchange it is in.                  *)
Asks(a, n) ==
  IF n.pc = "asking"
  THEN Packet("ADDR_REQ", a, n, n.target, TRUE)
  ELSE Packet("REG_REQ", a, n, NoAgent, TRUE)

(* The socket of a is closed.                                              *)
Hushed(a) == {IF r.from = a THEN [r EXCEPT !.open = FALSE] ELSE r : r \in requests}
Unread(a) == {r \in replies : r.to # a}

(* Agent a becomes n and opens an exchange, with others sent before it.    *)
Opens(a, n, others) ==
  /\ node' = [node EXCEPT ![a] = [n EXCEPT !.tries = 1]]
  /\ requests' = Hushed(a) \cup others \cup {Asks(a, n)}
  /\ replies' = Unread(a)

(* Agent a becomes n, and is in no exchange.                               *)
Ends(a, n) ==
  /\ node' = [node EXCEPT ![a] = n]
  /\ requests' = Hushed(a)
  /\ replies' = Unread(a)

-----------------------------------------------------------------------------
(* The database server.                                                    *)

RootEntries == {b \in Agent : entry[b] = 1}

(* Slip: the lost parent is not crossed out.                               *)
Kept(p) == entry

CrossOut(p) ==
  IF p \in Agent /\ entry[p] # NoEntry THEN [entry EXCEPT ![p] = CrossedOut] ELSE entry

Forget(p) == IF p \in Agent THEN [entry EXCEPT ![p] = NoEntry] ELSE entry

(* Slip: an agent of any level will do.                                    *)
Others(e, r) == {b \in Agent \ {r.from} : e[b] \notin {NoEntry, CrossedOut}}

(* Slip: an entry that is crossed out will do.                             *)
Listed(e, r) == {b \in Agent \ {r.from} : e[b] # NoEntry}

(* FTBNI_util_find_parent_addr.  rand() makes any of them possible.        *)
Suitable(e, r) == {b \in Agent \ {r.from} : e[b] # NoEntry /\ e[b] < r.level}

(* Slip: two roots may register.                                           *)
RefusesNone(r) == FALSE

(* Slip: a root is refused even when there is none.                        *)
RefusesRoots(r) == r.level = 1

Refuses(r) == r.level = 1 /\ RootEntries # {}

(* The request was served; its reply finds a socket only if it is open.    *)
Answers(r, reply) ==
  /\ requests' = requests \ {r}
  /\ replies' = IF r.open THEN replies \cup {reply} ELSE replies

ServeAddrReq(r) ==
  /\ r.type = "ADDR_REQ"
  /\ entry' = CrossOut(r.parent)
  /\ \E p \in IF Suitable(entry', r) = {} THEN {NoAgent} ELSE Suitable(entry', r) :
       Answers(r, [type |-> "ADDR_REP", to |-> r.from, parent |-> p,
                   level |-> IF p = NoAgent THEN 0 ELSE entry'[p]])

ServeRegReq(r) ==
  /\ r.type = "REG_REQ"
  /\ entry' = IF Refuses(r) THEN entry ELSE [entry EXCEPT ![r.from] = r.level]
  /\ Answers(r, [type |-> IF Refuses(r) THEN "REG_INVALID" ELSE "REG_REP",
                 to |-> r.from])

(* DEREG_REQ names its sender.  CONN_FAIL is looked up by parent_addr,     *)
(* which FTBNI_Bootstrap_report_conn_failure leaves uninitialized.         *)
ServeNotice(r) ==
  /\ r.type \in {"DEREG_REQ", "CONN_FAIL"}
  /\ entry' = Forget(IF r.type = "DEREG_REQ" THEN r.from ELSE r.parent)
  /\ requests' = requests \ {r} /\ UNCHANGED replies

(* A packet nobody waits for is lost; of the others see Timeout.           *)
LoseRequest(r) ==
  /\ ~ r.open
  /\ requests' = requests \ {r} /\ UNCHANGED <<entry, replies>>

ServeRequest == \E r \in requests : ServeAddrReq(r) \/ ServeRegReq(r) \/ ServeNotice(r)

Server == (ServeRequest \/ \E r \in requests : LoseRequest(r)) /\ UNCHANGED <<node, bounds>>

-----------------------------------------------------------------------------
(* FTBN_Connect.                                                           *)

(* "Root registration failed, Retrying": the level is reset, then asked.   *)
AskAfresh(n) == [n EXCEPT !.pc = "asking", !.level = NoLevel, !.retry = 1]

Joined(n) == [n EXCEPT !.pc = "joined", !.serving = TRUE]

GetAddrRep(a) ==
  \E r \in replies :
    /\ r.to = a /\ r.type = "ADDR_REP"
    /\ LET n == [node[a] EXCEPT !.target = r.parent, !.above = r.level] IN
       \/ /\ r.parent = NoAgent   \* "It is the root"
          /\ Opens(a, [n EXCEPT !.pc = "registering", !.parent = NoAgent,
                                !.level = r.level + 1], {})
       \/ /\ r.parent # NoAgent
          /\ Ends(a, [n EXCEPT !.pc = "connecting"])

(* FTBNI_Bootstrap_register_addr returns; only the root minds a failure.   *)
GetRegRep(a) ==
  LET n == node[a] IN
  \E r \in replies :
    /\ r.to = a /\ r.type \in {"REG_REP", "REG_INVALID"}
    /\ \/ /\ r.type = "REG_REP" \/ n.target # NoAgent
          /\ Ends(a, Joined(n))
       \/ /\ r.type = "REG_INVALID" /\ n.target = NoAgent
          /\ Opens(a, AskAfresh(n), {})

(* The target read the handshake.                                          *)
Accepted(a) ==
  LET n == node[a] IN
  Opens(a, [n EXCEPT !.pc = "registering", !.parent = n.target, !.linked = TRUE,
                     !.level = n.above + 1], {})

(* p reads what comes in, a handshake too.                                 *)
Reads(p) == node[p].serving

(* FTBNI_util_connect_to, as far as connect().                             *)
Connect(a) ==
  LET n == node[a]
      p == n.target
  IN /\ n.pc = "connecting"
     /\ \/ /\ p \notin Agent \/ node[p].pc \in {"down", "astray"}
           /\ \E garbage \in {NoAgent, p} :
                Opens(a, [n EXCEPT !.pc = "asking", !.target = Nowhere, !.retry = 1],
                      {Packet("CONN_FAIL", a, n, garbage, FALSE)})
        \/ /\ p \in Agent /\ node[p].pc \notin {"down", "astray"} /\ Reads(p)
           /\ Accepted(a)
        \/ /\ p \in Agent /\ node[p].pc \notin {"down", "astray"} /\ ~ Reads(p)
           /\ Ends(a, [n EXCEPT !.pc = "waiting"])

(* What becomes of x when the listening socket of a is closed.             *)
Cut(a, x) ==
  IF node[x].pc = "waiting" /\ node[x].target = a
  THEN [node[x] EXCEPT !.pc = "cut"] ELSE node[x]

(* FTBNI_util_connect_to, the read of the target's location.               *)
Handshake(a) ==
  LET n == node[a] IN
  \/ /\ n.pc = "waiting" /\ Reads(n.target)
     /\ Accepted(a)
  \/ /\ n.pc = "cut" /\ n.retry = 0
     /\ Opens(a, [n EXCEPT !.pc = "asking", !.retry = 1], {})
  \/ /\ n.pc = "cut" /\ n.retry = 1
     /\ node' = [x \in Agent |->
          IF x = a THEN [n EXCEPT !.pc = "astray", !.serving = TRUE] ELSE Cut(a, x)]
     /\ UNCHANGED <<requests, replies>>

(* The parent's connection is lost: FTBMI_util_reconnect.                  *)
Reconnect(a) ==
  LET n == node[a] IN
  /\ n.pc = "joined" /\ n.parent # NoAgent /\ ~ n.linked
  /\ Opens(a, [n EXCEPT !.pc = "asking", !.retry = 0], {})

(* What is left when an agent ends: connections to it, and sockets of its  *)
(* own, are closed.                                                        *)
Ended(a) ==
  /\ node' = [x \in Agent |->
       IF x = a THEN Fresh
       ELSE IF node[x].linked /\ node[x].parent = a THEN [node[x] EXCEPT !.linked = FALSE]
       ELSE Cut(a, x)]
  /\ requests' = Hushed(a)
  /\ replies' = Unread(a)

(* FTBNI_util_exchange_bootstrap_msg: no answer in time.  Some packets of  *)
(* the exchange are lost; it is tried again, or given up.                  *)
Timeout(a) ==
  LET n == node[a] IN
  /\ n.pc \in {"asking", "registering"}
  /\ timeouts < scenario.timeouts /\ timeouts' = timeouts + 1
  /\ UNCHANGED <<entry, scenario, starts, faults>>
  /\ \/ /\ n.tries < Tries
        /\ \E q \in SUBSET {r \in requests : r.from = a /\ r.open},
              s \in SUBSET {r \in replies : r.to = a} :
             /\ requests' = (requests \ q) \cup {Asks(a, n)}
             /\ replies' = replies \ s
        /\ node' = [node EXCEPT ![a].tries = @ + 1]
     \/ /\ n.tries = Tries /\ n.pc = "asking" /\ n.retry = 0
        /\ Opens(a, [n EXCEPT !.target = NoAgent, !.retry = 1], {})
     \/ /\ n.tries = Tries /\ n.pc = "asking" /\ n.retry = 1
        /\ Ended(a)                \* FTBU_ERR_ABORT
     \/ /\ n.tries = Tries /\ n.pc = "registering" /\ n.target = NoAgent
        /\ Opens(a, AskAfresh(n), {})
     \/ /\ n.tries = Tries /\ n.pc = "registering" /\ n.target # NoAgent
        /\ Ends(a, Joined(n))

AgentStep(a) ==
  /\ GetAddrRep(a) \/ GetRegRep(a) \/ Connect(a) \/ Handshake(a) \/ Reconnect(a)
  /\ UNCHANGED <<entry, bounds>>

(* FTBM_Init.                                                              *)
Start(a) ==
  /\ node[a].pc = "down"
  /\ starts < scenario.starts /\ starts' = starts + 1
  /\ node' = [node EXCEPT ![a] = [Fresh EXCEPT !.pc = "asking"]]
  /\ requests' = requests \cup {Asks(a, [Fresh EXCEPT !.pc = "asking"])}
  /\ UNCHANGED <<entry, replies, scenario, faults, timeouts>>

Fault == faults < scenario.faults /\ faults' = faults + 1

Crash(a) ==
  /\ node[a].pc # "down" /\ Fault
  /\ Ended(a)
  /\ UNCHANGED <<entry, scenario, starts, timeouts>>

(* SIGTERM, when no handler runs: the threads are cancelled, and           *)
(* FTBN_Finalize deregisters the agent before it closes its connections.   *)
Leave(a) ==
  LET n == node[a] IN
  /\ n.pc \in {"joined", "astray"} /\ Fault
  /\ node' = [node EXCEPT ![a] = [n EXCEPT !.pc = "leaving", !.serving = FALSE]]
  /\ requests' = requests \cup {Packet("DEREG_REQ", a, n, NoAgent, FALSE)}
  /\ UNCHANGED <<entry, replies, scenario, starts, timeouts>>

(* The server answered, or did not in time.                                *)
Left(a) ==
  /\ node[a].pc = "leaving"
  /\ Ended(a)
  /\ UNCHANGED <<entry, bounds>>

-----------------------------------------------------------------------------
Running == {a \in Agent : scenario.boot[a].level < NoLevel}

Booted(boot) ==
  [Fresh EXCEPT !.pc = "joined", !.serving = TRUE, !.level = boot.level, !.above = boot.level - 1,
                !.target = boot.parent, !.parent = boot.parent, !.linked = boot.parent # NoAgent]

Init ==
  /\ scenario \in Scenarios
  /\ entry = [a \in Agent |-> IF a \in Running THEN scenario.boot[a].level ELSE NoEntry]
  /\ node = [a \in Agent |-> IF a \in Running THEN Booted(scenario.boot[a]) ELSE Fresh]
  /\ requests = {} /\ replies = {}
  /\ starts = 0 /\ faults = 0 /\ timeouts = 0

Next ==
  \/ Server
  \/ \E a \in Agent : AgentStep(a)
  \/ \E a \in Agent : Timeout(a)
  \/ \E a \in Agent : Start(a)
  \/ \E a \in Agent : Crash(a) \/ Leave(a) \/ Left(a)

Spec == Init /\ [][Next]_vars

(* The server serves what it receives, and agents keep running.            *)
Fairness ==
  /\ WF_vars(ServeRequest /\ UNCHANGED <<node, bounds>>)
  /\ \A a \in Agent : WF_vars(AgentStep(a)) /\ WF_vars(Left(a))

FairSpec == Spec /\ Fairness

-----------------------------------------------------------------------------
(* Properties.                                                             *)

(* The type of the state.                                                  *)
TypeOK ==
  /\ entry \in [Agent -> 0..CrossedOut]
  /\ node \in [Agent -> Node]
  /\ requests \subseteq Request /\ replies \subseteq Reply
  /\ scenario \in Scenarios /\ starts \in 0..scenario.starts
  /\ faults \in 0..scenario.faults /\ timeouts \in 0..scenario.timeouts

(* The server never lists two roots, however registrations, their repeats  *)
(* and cross-outs interleave (ftb_database_server_udp.c:305).              *)
OneRootEntry == \A a, b \in Agent : entry[a] = 1 /\ entry[b] = 1 => a = b

(* Agents do not start while others end, and no packet is lost or late.    *)
Calm == scenario.timeouts = 0 /\ (scenario.starts = 0 \/ scenario.faults = 0)

Acyclic ==
  \A S \in SUBSET Agent \ {{}} :
    \E a \in S : ~ (node[a].linked /\ node[a].parent \in S)

(* Then no set of agents is connected in a ring: each of them would        *)
(* forward an event to the next ("since using tree mode, no indirect       *)
(* connection", ftb_network_tcp.c:242).                                    *)
NoRing == Calm => Acyclic

(* Every agent that runs ends up in one tree.                              *)
OneTree ==
  LET running == {a \in Agent : node[a].pc # "down"} IN
  /\ \A a \in running : node[a].pc = "joined"
  /\ \A a \in running : node[a].parent # NoAgent => node[a].linked
  /\ Acyclic
  /\ \A a, b \in running : node[a].parent = NoAgent /\ node[b].parent = NoAgent => a = b

(* Then agents that start, or lose their parent, find their place, and the *)
(* searching comes to an end.                                              *)
TreeForms == Calm => <>[]OneTree
=============================================================================
