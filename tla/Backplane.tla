----------------------------- MODULE Backplane -----------------------------
(***************************************************************************)
(* The backplane: the agents of the tree and the client processes attached *)
(* to them, exchanging messages over TCP connections.                      *)
(*                                                                         *)
(* An agent (agent/ftb_agent.c) is two threads.  The reader                *)
(* (FTBM_Fill_message_queue) moves what arrives on the connections to the  *)
(* message queue; the dispatcher (progress_loop) takes one message at a    *)
(* time and runs its handler to completion.  A client process is its       *)
(* application calls plus the loop that receives events.  A connection is  *)
(* a pair of FIFO byte streams; closing an end puts an end-of-file behind  *)
(* the bytes already written, and bytes sent to an end that was closed are *)
(* lost, with or without an error at the sender.                           *)
(*                                                                         *)
(* Abstracted here: what the bootstrap server lists, and the attempts and  *)
(* levels of FTBN_Connect (module Topology has them).  At the end of it an *)
(* agent has any running agent for a parent, or none, so that there may be *)
(* several roots, and rings.  Left out are an agent that gives up, and one *)
(* that takes a child of its own for a parent, over a second connection.   *)
(* The message queue is a FIFO (module MessageQueue shows that it is, but  *)
(* that it may lose messages when a connection ends); writes do not block. *)
(***************************************************************************)
EXTENDS Manager, SequencesExt

CONSTANTS
  Boot,            \* the parent and the level of each agent; NoLevel: it does not run
  Local,           \* the agent on the host of each process, or NoAgent
  MaxOps,          \* calls the applications make
  MaxFaults,       \* processes that crash, agents that crash or leave
  MaxWriteErrors   \* writes to a closed connection that report an error

NoLevel == 65535   \* FTBN_my_level = 0 - 1, as a uint16_t

ASSUME BootType ==
  /\ Boot \in [Agent -> [parent : Agent \cup {NoAgent}, level : 1..NoLevel]]
  /\ \A a \in Agent :
       LET p == Boot[a].parent IN
       IF p = NoAgent
       THEN Boot[a].level \in {1, NoLevel}
       ELSE Boot[a].level = Boot[p].level + 1 /\ Boot[a].level < NoLevel
ASSUME LocalType == Local \in [Process -> Agent \cup {NoAgent}]
ASSUME BoundsType == MaxOps \in Nat /\ MaxFaults \in Nat /\ MaxWriteErrors \in Nat

VARIABLES
  up,          \* the processes that run, agents and client processes
  gone,        \* those that ended; a restart has a location id of its own
  info,        \* FTBMI_info of each agent
  conn,        \* the connection table of each process
  net,         \* net[x][y]: what x wrote and y has not read
  queue,       \* the message queue of each agent
  attach,      \* FTBMI_info.parent of each client process
  handles,     \* the open client handles
  subs,        \* the subscriptions each client handle holds
  published,   \* the events published so far
  owed,        \* <<c, e>>: e was routed all the way to c when it was published
  got,         \* how many times each event came in at each handle
  ops, faults, writeErrors    \* against the bounds

vars == <<up, gone, info, conn, net, queue, attach, handles, subs,
          published, owed, got, ops, faults, writeErrors>>
app == <<handles, subs, published, owed, got>>

-----------------------------------------------------------------------------
(* Messages.  The src of a NOTIFY is not looked at by any handler.         *)
Message ==
  [type : {"CLIENT_REG", "CLIENT_DEREG"}, src : Comp]
    \cup [type : {"REG_SUBSCRIPTION", "SUBSCRIPTION_CANCEL"}, src : Comp, mask : Mask]
    \cup [type : {"NOTIFY"}, event : Event, dst : Comp]
    \cup [type : {"EOF"}]

Reg(id) == [type |-> "CLIENT_REG", src |-> id]
Dereg(id) == [type |-> "CLIENT_DEREG", src |-> id]
RegSub(id, m) == [type |-> "REG_SUBSCRIPTION", src |-> id, mask |-> m]
CancelSub(id, m) == [type |-> "SUBSCRIPTION_CANCEL", src |-> id, mask |-> m]
Notify(e, id) == [type |-> "NOTIFY", event |-> e, dst |-> id]
EOF == [type |-> "EOF"]

(* Slip: a new neighbour is not told the masks already caught.             *)
NoRegSubs(id, q) == <<>>

RegSubs(id, q) == [i \in DOMAIN q |-> RegSub(id, q[i])]
CancelSubs(id, q) == [i \in DOMAIN q |-> CancelSub(id, q[i])]
Notifies(e, q) == [i \in DOMAIN q |-> Notify(e, q[i])]

Silence == [l \in Location |-> <<>>]
Cast(dsts, ms) == [l \in Location |-> IF l \in dsts THEN ms ELSE <<>>]

-----------------------------------------------------------------------------
(* Connections.  A link carries bytes while both ends have it open.        *)
Linked(x, y) == y \in conn[x] /\ x \in conn[y]

(* The connections on which x, writing out, may be told of an error.       *)
Broken(x, out) == {y \in conn[x] : ~ Linked(x, y) /\ out[y] # <<>>}

(* x writes out, closes the connections in closed and opens one to p.      *)
NetStep(x, out, closed, p) ==
  /\ conn' = [l \in Location |->
                CASE l = x -> (conn[x] \ closed) \cup ({p} \cap Location)
                  [] l # x /\ l = p -> conn[l] \cup {x}
                  [] OTHER -> conn[l]]
  /\ net' = [l \in Location |-> [k \in Location |->
               CASE l = x /\ Linked(x, k) ->
                      net[x][k] \o out[k] \o (IF k \in closed THEN <<EOF>> ELSE <<>>)
                 [] l = x /\ ~ Linked(x, k) -> IF k = p THEN out[k] ELSE net[x][k]
                 [] l # x /\ k = x /\ l \in closed -> <<>>
                 [] OTHER -> net[l][k]]]

-----------------------------------------------------------------------------
(***************************************************************************)
(* FTBN_Connect.  Which agents the server names to a, and whether it names *)
(* one, depends on the levels it lists and on a's own.  Entries come late, *)
(* are crossed out and outlive their agents, and an agent refused as the   *)
(* root resets its level: whoever runs may be named in the end, or nobody, *)
(* and then a is a root.  Agents that a is connected to are left out.      *)
(***************************************************************************)

(* Slip: the server names the agent that asks.                             *)
OffersItself(a) == {b \in up \cap Agent : ~ Linked(a, b)} \cup {NoAgent}

Offers(a) == {b \in (up \cap Agent) \ {a} : ~ Linked(a, b)} \cup {NoAgent}

(* A process tries its own host first (port of the local agent).           *)
AgentsFor(p) == IF Local[p] \in up THEN {Local[p]} ELSE up \cap Agent

(* FTBM_Init and FTBMI_util_reconnect of agent a, whose tables are J.      *)
Join(a, J, out, closed) ==
  \E p \in Offers(a), q \in SetToSeqs(CaughtMasks(J)) :
    LET greeting == IF p \in J.peers THEN <<Reg(a)>> ELSE <<Reg(a)>> \o RegSubs(a, q)
    IN /\ info' = [info EXCEPT ![a] = IF p = NoAgent
                                      THEN [J EXCEPT !.parent = NoAgent]
                                      ELSE AddParent(J, p)]
       /\ NetStep(a, [l \in Location |-> IF l = p THEN out[l] \o greeting ELSE out[l]],
                  closed, p)

(* A handler of agent a ends: its tables become J, out is sent, and the    *)
(* connections in closed and in errors are closed, the latter because a    *)
(* write failed.  Other writes to a broken connection may fail too, which  *)
(* only closes it.  A lost parent is replaced.                             *)
Finish(a, J, out, closed, errors, lostParent) ==
  /\ queue' = [queue EXCEPT ![a] = Tail(@)]
  /\ \E failed \in SUBSET (Broken(a, out) \ closed) :
       LET ended == closed \cup errors \cup failed
           total == writeErrors + Cardinality(errors \cup failed)
       IN /\ total <= MaxWriteErrors
          /\ writeErrors' = total
          /\ IF lostParent
             THEN Join(a, J, out, ended)
             ELSE /\ info' = [info EXCEPT ![a] = J]
                  /\ NetStep(a, out, ended, NoAgent)
  /\ UNCHANGED <<up, gone, attach, app, ops, faults>>

(* The handler only answers: no connection closes, the parent stays.       *)
Answer(a, J, out) == Finish(a, J, out, {}, {}, FALSE)

-----------------------------------------------------------------------------
(* The agent's two threads.  FTBM_Recv: the dispatcher takes the message   *)
(* at the head of the queue, of this type; Finish removes it.              *)
Takes(a, type) == a \in up /\ queue[a] # <<>> /\ Head(queue[a]).msg.type = type

(* FTBN_Grab_messages for one connection, and FTBM_Fill_message_queue.     *)
Grab(a, x) ==
  /\ a \in up /\ x \in conn[a] /\ net[x][a] # <<>>
  /\ LET msg == Head(net[x][a]) IN
     /\ queue' = [queue EXCEPT ![a] = Append(@, [from |-> x, msg |-> msg])]
     /\ conn' = IF msg = EOF THEN [conn EXCEPT ![a] = @ \ {x}] ELSE conn
  /\ net' = [net EXCEPT ![x][a] = Tail(@)]
  /\ UNCHANGED <<up, gone, info, attach, app, ops, faults, writeErrors>>

(* FTBM_Client_register.                                                   *)
HandleClientReg(a) ==
  /\ Takes(a, "CLIENT_REG")
  /\ LET I == info[a]
         id == Head(queue[a]).msg.src
     IN \/ id \in I.peers /\ Answer(a, I, Silence)
        \/ /\ id \notin I.peers
           /\ \E q \in SetToSeqs(CaughtMasks(I)) :
                Answer(a, AddPeer(I, id),
                       Cast({id} \cap Agent, RegSubs(a, q)))

(* FTBM_Client_deregister: a manager is disconnected, a parent replaced.   *)
HandleClientDereg(a) ==
  /\ Takes(a, "CLIENT_DEREG")
  /\ LET I == info[a]
         id == Head(queue[a]).msg.src
         J == RemoveComps(I, {id})
     IN \/ id \notin I.peers /\ Answer(a, I, Silence)
        \/ /\ id \in I.peers
           /\ \E q \in SetToSeqs(Emptied(I, J)) :
                Finish(a, J, Cast(PropagateTo(I, LocationOf(id)), CancelSubs(a, q)),
                       {id} \cap ManagerId \cap conn[a], {}, id = I.parent)

(* FTBM_Cleanup_connection: every component of the location goes.          *)
HandleCleanup(a) ==
  /\ Takes(a, "EOF")
  /\ LET I == info[a]
         loc == Head(queue[a]).from
         J == RemoveComps(I, I.peers \cap CompsAt(loc))
     IN \E q \in SetToSeqs(Emptied(I, J)) :
          Finish(a, J, Cast(PropagateTo(I, loc), CancelSubs(a, q)),
                 {}, {}, loc = I.parent)

(* FTBM_Register_subscription.  A mask the component already has was freed *)
(* before it is looked up in catch_event_map: the lookup may miss it, and  *)
(* the registration is then propagated again.                              *)
HandleRegSubscription(a) ==
  /\ Takes(a, "REG_SUBSCRIPTION")
  /\ LET I == info[a]
         id == Head(queue[a]).msg.src
         m == Head(queue[a]).msg.mask
         news == Cast(PropagateTo(I, LocationOf(id)), <<RegSub(a, m)>>)
     IN \/ id \notin I.peers /\ Answer(a, I, Silence)
        \/ /\ id \in I.peers /\ m \notin I.catchSet[id]
           /\ Answer(a, AddCatch(I, id, m), news)
        \/ /\ id \in I.peers /\ m \in I.catchSet[id]
           /\ \E found \in BOOLEAN : Answer(a, I, IF found THEN Silence ELSE news)

(* FTBM_Cancel_subscription.                                               *)
HandleCancel(a) ==
  /\ Takes(a, "SUBSCRIPTION_CANCEL")
  /\ LET I == info[a]
         id == Head(queue[a]).msg.src
         m == Head(queue[a]).msg.mask
         J == DropCatch(I, id, m)
     IN \/ /\ id \notin I.peers \/ m \notin I.catchSet[id]
           /\ Answer(a, I, Silence)
        \/ /\ id \in I.peers /\ m \in I.catchSet[id]
           /\ Answer(a, J, Cast(IF Emptied(I, J) = {} THEN {}
                                ELSE PropagateTo(I, LocationOf(id)),
                                <<CancelSub(a, m)>>))

(* The NOTIFY branch of progress_loop.  A component whose FTBM_Send fails  *)
(* is removed; the write fails when no connection to its location is left, *)
(* and may fail when the other end is closed.  What goes to one location   *)
(* is sent in some fixed order, the cancels of the removals last: whoever  *)
(* receives it handles each of those messages independently.               *)
HandleNotify(a) ==
  /\ Takes(a, "NOTIFY")
  /\ LET I == info[a]
         e == Head(queue[a]).msg.event
         catchers == Catchers(I, e) \ Echoes(Head(queue[a]).from)
         unreachable == {c \in catchers : LocationOf(c) \notin conn[a]}
         doubtful == {c \in catchers : ~ Linked(a, LocationOf(c))}
     IN \E failed \in {S \in SUBSET doubtful : unreachable \subseteq S} :
        LET J == RemoveComps(I, failed)
            lost == {LocationOf(c) : c \in failed}
            told(l) == Notifies(e, SetToSeq((catchers \ failed) \cap CompsAt(l)))
        IN \E q \in SetToSeqs(Emptied(I, J)) :
             Finish(a, J,
                    [l \in Location |->
                       told(l) \o Cast(PropagateTo(J, NoAgent), CancelSubs(a, q))[l]],
                    {}, lost \cap conn[a], I.parent \in lost)

-----------------------------------------------------------------------------
(***************************************************************************)
(* The client processes: FTBC_Connect, FTBC_Subscribe_with_..., and so on  *)
(* of client_lib/ftb_client_lib.c, down to what they send.                 *)
(***************************************************************************)
OpenAt(p) == {c \in handles : HostOf[c] = p}

Called(n) == ops + n <= MaxOps /\ ops' = ops + n

(* FTBM_Send of a client process; the bytes may go nowhere.                *)
SendUp(p, ms) ==
  /\ NetStep(p, Cast({attach[p]}, ms), {}, NoAgent)
  /\ UNCHANGED <<up, gone, info, queue, attach, faults, writeErrors>>

(* FTBC_Connect by the first handle of a process initializes the manager   *)
(* library, which connects to an agent; the others only register.          *)
Connect(c) ==
  LET p == HostOf[c] IN
  /\ c \notin handles /\ p \notin gone
  /\ Called(1)
  /\ handles' = handles \cup {c}
  /\ UNCHANGED <<subs, published, owed, got>>
  /\ \/ /\ p \in up
        /\ SendUp(p, <<Reg(c)>>)
     \/ /\ p \notin up
        /\ \E a \in AgentsFor(p) :
             /\ attach' = [attach EXCEPT ![p] = a]
             /\ NetStep(p, Cast({a}, <<Reg(p), Reg(c)>>), {}, a)
        /\ up' = up \cup {p}
        /\ UNCHANGED <<gone, info, queue, faults, writeErrors>>

(* FTBC_Subscribe_with_polling and FTBC_Subscribe_with_callback.           *)
Subscribe(c, m) ==
  /\ c \in handles
  /\ Called(1)
  /\ subs' = [subs EXCEPT ![c] = @ \cup {m}]
  /\ SendUp(HostOf[c], <<RegSub(c, m)>>)
  /\ UNCHANGED <<handles, published, owed, got>>

(* FTBC_Unsubscribe.                                                       *)
Unsubscribe(c, m) ==
  /\ c \in handles /\ m \in subs[c]
  /\ Called(1)
  /\ subs' = [subs EXCEPT ![c] = @ \ {m}]
  /\ owed' = {o \in owed : ~ (o[1] = c /\ m \in MatchedBy[o[2]])}
  /\ SendUp(HostOf[c], <<CancelSub(c, m)>>)
  /\ UNCHANGED <<handles, published, got>>

(* The agents from which an event caught by m finds its way to c: each of  *)
(* them lists the next one, the last one lists c itself.                   *)
RoutedFrom(c, m) ==
  LET home == {a \in up \cap Agent : Linked(a, HostOf[c]) /\ c \in info[a].catchMap[m]}
      reach[k \in 0..Cardinality(Agent)] ==
        IF k = 0 THEN home
        ELSE reach[k-1] \cup
             {b \in up \cap Agent :
                \E a \in reach[k-1] : Linked(b, a) /\ a \in info[b].catchMap[m]}
  IN reach[Cardinality(Agent)]

(* A retraction on its way may still take a hop of the route of c away.    *)
Retracted(c, m) ==
  LET inFlight == UNION {ToSet(net[x][y]) : x, y \in Location}
                    \cup {q.msg : q \in UNION {ToSet(queue[a]) : a \in Agent}}
  IN \E msg \in inFlight :
       \/ msg.type = "SUBSCRIPTION_CANCEL" /\ msg.mask = m
       \/ msg.type = "CLIENT_DEREG" /\ msg.src = c

(* FTBC_Publish.                                                           *)
Publish(c, e) ==
  LET p == HostOf[c] IN
  /\ c \in handles /\ e \notin published
  /\ Called(1)
  /\ published' = published \cup {e}
  /\ owed' = owed \cup
       {o \in handles \X {e} :
          \E m \in subs[o[1]] \cap MatchedBy[e] :
             attach[p] \in RoutedFrom(o[1], m) /\ ~ Retracted(o[1], m)}
  /\ SendUp(p, <<Notify(e, attach[p])>>)
  /\ UNCHANGED <<handles, subs, got>>

(* FTBC_Disconnect; the last handle finalizes the manager library.         *)
Disconnect(c) ==
  LET p == HostOf[c] IN
  /\ c \in handles
  /\ Called(1)
  /\ handles' = handles \ {c}
  /\ subs' = [subs EXCEPT ![c] = {}]
  /\ owed' = {o \in owed : o[1] # c}
  /\ UNCHANGED <<published, got>>
  /\ \/ OpenAt(p) # {c} /\ SendUp(p, <<Dereg(c)>>)
     \/ /\ OpenAt(p) = {c}
        /\ NetStep(p, Cast({attach[p]}, <<Dereg(c), Dereg(p)>>), conn[p], NoAgent)
        /\ up' = up \ {p} /\ gone' = gone \cup {p}
        /\ attach' = [attach EXCEPT ![p] = NoAgent]
        /\ UNCHANGED <<info, queue, faults, writeErrors>>

(* Reconnection: FTBMI_util_reconnect in a client process.                 *)
Reattach(p, ms) ==
  \E a \in AgentsFor(p) :
    /\ attach' = [attach EXCEPT ![p] = a]
    /\ NetStep(p, Cast({a}, <<Reg(p)>> \o ms), {attach[p]}, a)

(* A call's FTBM_Send reports an error: the manager library reconnects and *)
(* the call fails.  Nothing registers the handles and the subscriptions    *)
(* again.  FTBC_Subscribe has recorded its mask before it sends.           *)
SendUpFails(p) ==
  /\ p \in up /\ ~ Linked(p, attach[p])
  /\ Called(1)
  /\ writeErrors < MaxWriteErrors /\ writeErrors' = writeErrors + 1
  /\ \/ UNCHANGED subs
     \/ \E c \in OpenAt(p), m \in Mask : subs' = [subs EXCEPT ![c] = @ \cup {m}]
  /\ Reattach(p, <<>>)
  /\ UNCHANGED <<up, gone, info, queue, handles, published, owed, got, faults>>

(* FTBCI_Check_progress, one message: FTBCI_util_handle_FTBM_msg drops an  *)
(* event for a handle that was closed.                                     *)
Receive(p) ==
  LET a == attach[p] IN
  /\ p \in up /\ net[a][p] # <<>> /\ Head(net[a][p]) # EOF
  /\ LET msg == Head(net[a][p]) IN
     got' = IF msg.dst \in handles
            THEN [got EXCEPT ![msg.dst][msg.event] = @ + 1]
            ELSE got
  /\ net' = [net EXCEPT ![a][p] = Tail(@)]
  /\ UNCHANGED <<up, gone, info, conn, queue, attach, handles, subs,
                 published, owed, ops, faults, writeErrors>>

(* FTBCI_Check_progress when the agent is lost: FTBM_Get reconnects, then  *)
(* FTBCI_util_reconnect registers each handle and then its subscriptions.  *)
ReceiveEOF(p) ==
  LET a == attach[p]
      again == {Reg(c) : c \in OpenAt(p)}
                 \cup UNION {{RegSub(c, m) : m \in subs[c]} : c \in OpenAt(p)}
  IN
  /\ p \in up /\ net[a][p] # <<>> /\ Head(net[a][p]) = EOF
  /\ \E q \in SetToSeqs(again) :
       /\ \A i, j \in DOMAIN q :
            q[i].type = "CLIENT_REG" /\ q[j].type = "REG_SUBSCRIPTION"
              /\ q[i].src = q[j].src => i < j
       /\ Reattach(p, q)
  /\ UNCHANGED <<up, gone, info, queue, app, ops, faults, writeErrors>>

-----------------------------------------------------------------------------
(* Processes that come and go.                                             *)

(* An agent starts: FTBM_Init.                                             *)
StartAgent(a) ==
  /\ a \notin up \cup gone
  /\ up' = up \cup {a}
  /\ Join(a, EmptyInfo, Silence, {})
  /\ UNCHANGED <<gone, queue, attach, app, ops, faults, writeErrors>>

Fault == faults < MaxFaults /\ faults' = faults + 1

(* What is left of an agent that ended.                                    *)
BuryAgent(a) ==
  /\ up' = up \ {a} /\ gone' = gone \cup {a}
  /\ info' = [info EXCEPT ![a] = EmptyInfo]
  /\ queue' = [queue EXCEPT ![a] = <<>>]
  /\ owed' = {}
  /\ UNCHANGED <<attach, handles, subs, published, got, ops, writeErrors>>

CrashAgent(a) ==
  /\ a \in up /\ Fault
  /\ NetStep(a, Silence, conn[a], NoAgent)
  /\ BuryAgent(a)

(* SIGTERM: FTBM_Finalize walks the peers in the order of ord.  Cleaning a *)
(* component cancels each mask it was the last to catch, at the agents but *)
(* its own; those that were told CLIENT_DEREG before know the sender no    *)
(* more, so what they are sent after it changes nothing and is left out.   *)
FinalizeAgent(a) ==
  /\ a \in up /\ Fault
  /\ LET I == info[a] IN
     \E ord \in SetToSeqs(I.peers) :
       LET before(b) == {ord[i] : i \in 1..(CHOOSE k \in DOMAIN ord : ord[k] = b) - 1}
           dropped(b) == {m \in CaughtMasks(I) : I.catchMap[m] \subseteq before(b)}
           told(b) == CancelSubs(a, SetToSeq(dropped(b))) \o <<Dereg(a)>>
       IN NetStep(a,
                  [l \in Location |-> IF l \in I.peers \cap Agent THEN told(l) ELSE <<>>],
                  conn[a], NoAgent)
  /\ BuryAgent(a)

CrashProcess(p) ==
  /\ p \in up /\ Fault
  /\ up' = up \ {p} /\ gone' = gone \cup {p}
  /\ NetStep(p, Silence, conn[p], NoAgent)
  /\ attach' = [attach EXCEPT ![p] = NoAgent]
  /\ handles' = handles \ OpenAt(p)
  /\ subs' = [c \in Client |-> IF c \in OpenAt(p) THEN {} ELSE subs[c]]
  /\ owed' = {o \in owed : o[1] \notin OpenAt(p)}
  /\ UNCHANGED <<info, queue, published, got, ops, writeErrors>>

-----------------------------------------------------------------------------
Running == {a \in Agent : Boot[a].level < NoLevel}

BootPeers(a) ==
  {b \in Running : Boot[b].parent = a \/ (a \in Running /\ Boot[a].parent = b)}

(* The agents of Boot have joined; no process has called FTBC_Connect yet. *)
Init ==
  /\ up = Running /\ gone = {}
  /\ info = [a \in Agent |->
               [EmptyInfo EXCEPT !.peers = BootPeers(a), !.parent = Boot[a].parent]]
  /\ conn = [l \in Location |-> IF l \in Agent THEN BootPeers(l) ELSE {}]
  /\ net = [l \in Location |-> [k \in Location |-> <<>>]]
  /\ queue = [a \in Agent |-> <<>>]
  /\ attach = [p \in Process |-> NoAgent]
  /\ handles = {} /\ subs = [c \in Client |-> {}]
  /\ published = {} /\ owed = {}
  /\ got = [c \in Client |-> [e \in Event |-> 0]]
  /\ ops = 0 /\ faults = 0 /\ writeErrors = 0

Dispatch(a) ==
  \/ HandleNotify(a)
  \/ HandleClientReg(a)
  \/ HandleClientDereg(a)
  \/ HandleCleanup(a)
  \/ HandleRegSubscription(a)
  \/ HandleCancel(a)

AgentStep(a) == Dispatch(a) \/ \E x \in Location : Grab(a, x)

ProcessStep(p) == Receive(p) \/ ReceiveEOF(p)

Call ==
  \/ \E c \in Client : Connect(c) \/ Disconnect(c)
  \/ \E c \in Client, m \in Mask : Subscribe(c, m) \/ Unsubscribe(c, m)
  \/ \E c \in Client, e \in Event : Publish(c, e)
  \/ \E p \in Process : SendUpFails(p)

ComeAndGo ==
  \/ \E a \in Agent : StartAgent(a) \/ CrashAgent(a) \/ FinalizeAgent(a)
  \/ \E p \in Process : CrashProcess(p)

Next ==
  \/ \E a \in Agent : AgentStep(a)
  \/ \E p \in Process : ProcessStep(p)
  \/ Call
  \/ ComeAndGo

Spec == Init /\ [][Next]_vars

(* Threads and processes keep running: the reader serves every connection  *)
(* select() reports, the dispatcher every message, a process its socket.   *)
Fairness ==
  /\ \A a \in Agent : WF_vars(Dispatch(a)) /\ \A x \in Location : WF_vars(Grab(a, x))
  /\ \A p \in Process : WF_vars(ProcessStep(p))

FairSpec == Spec /\ Fairness

-----------------------------------------------------------------------------
(* Properties.                                                             *)

QueueEntry == [from : Location, msg : Message]

(* The type of the state; an agent's parent is another one.                *)
TypeOK ==
  /\ up \subseteq Location /\ gone \subseteq Location
  /\ info \in [Agent -> Info] /\ \A a \in Agent : info[a].parent # a
  /\ conn \in [Location -> SUBSET Location]
  /\ net \in [Location -> [Location -> Seq(Message)]]
  /\ queue \in [Agent -> Seq(QueueEntry)]
  /\ attach \in [Process -> Agent \cup {NoAgent}]
  /\ handles \subseteq Client
  /\ subs \in [Client -> SUBSET Mask]
  /\ published \subseteq Event
  /\ owed \subseteq Client \X Event
  /\ got \in [Client -> [Event -> Nat]]
  /\ ops \in Nat /\ faults \in Nat /\ writeErrors \in Nat

(* In every agent catch_event_map and the catch_event_sets hold the same   *)
(* subscriptions, of components that are peers: no routine leaves a        *)
(* pointer to a component that was freed (ftb_manager_lib.c:815).          *)
TablesAgreeEverywhere == \A a \in Agent : TablesAgree(info[a])

(* The parent an agent reconnects from is a peer of it, so that losing its *)
(* connection is noticed (ftb_manager_lib.c:72).                           *)
ParentIsPeer == \A a \in Agent : ParentInPeers(info[a])

(* Nothing is in flight: every handler has run.                            *)
Quiet ==
  /\ \A x, y \in Location : net[x][y] = <<>>
  /\ \A a \in Agent : queue[a] = <<>>

(* Once nothing is in flight, the peers of an agent are its parent, its    *)
(* children, the processes attached to it and their open handles: every    *)
(* registration, deregistration and lost connection was accounted for, as  *)
(* long as no write reported an error (ftb_manager_lib.c:164).             *)
PeersSettle ==
  Quiet /\ writeErrors = 0 =>
    \A a \in up \cap Agent :
      info[a].peers =
        ({info[a].parent} \ {NoAgent})
          \cup {b \in up \cap Agent : info[b].parent = a}
          \cup {p \in up \cap Process : attach[p] = a}
          \cup {c \in handles : attach[HostOf[c]] = a}

(* The agents that a is joined with, over connections to parents: those in *)
(* each set of agents that has a and, of each member, parent and children. *)
JoinedWith(a) ==
  {b \in up \cap Agent :
     \A S \in SUBSET (up \cap Agent) :
       a \in S /\ (\A x \in S, y \in up \cap Agent :
                    info[x].parent = y \/ info[y].parent = x => y \in S)
         => b \in S}

(* Once nothing is in flight, every subscription a client holds is routed  *)
(* to it from every agent that its own one is joined with, be it in a tree *)
(* or in a ring: no cancel, removal, duplicate or reconnection of anybody  *)
(* else took a hop of the route away, again as long as no write reported   *)
(* an error (ftb_manager_lib.c:136).                                       *)
InterestReaches ==
  Quiet /\ writeErrors = 0 =>
    \A c \in handles : \A m \in subs[c] : 
      JoinedWith(attach[HostOf[c]]) \subseteq RoutedFrom(c, m)

(* An event that was routed all the way to a subscriber when it was        *)
(* published, by routes nobody was retracting, has come in once nothing is *)
(* in flight, unless the subscriber cancelled or an agent ended meanwhile. *)
OwedIsDelivered == Quiet => \A o \in owed : got[o[1]][o[2]] > 0

(* A client handle is told of an event once, whatever the number of its    *)
(* masks that match and of the agents that know them, while the tree       *)
(* stands.                                                                 *)
AtMostOnce ==
  (gone \cap Agent = {}) => \A c \in Client, e \in Event : got[c][e] <= 1

(* A subscription that the agent of its client has registered is known to  *)
(* every other agent once nothing is in flight, unless there are two roots *)
(* ("The agent will also propagate this subscription information to other  *)
(* agents", ftb_manager_lib.c:772).                                        *)
RegisteredIsPropagated ==
  Quiet /\ Cardinality({a \in up \cap Agent : info[a].parent = NoAgent}) <= 1 =>
    \A c \in handles, m \in Mask :
      (attach[HostOf[c]] \in up /\ c \in info[attach[HostOf[c]]].catchMap[m])
        => \A a \in up \cap Agent : info[a].catchMap[m] # {}

(* Registrations, and the propagation of duplicates, die out.              *)
Settles == <>[]Quiet

=============================================================================
