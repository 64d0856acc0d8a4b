---------------------------- MODULE MessageQueue ----------------------------
(***************************************************************************)
(* The message queue of an agent: a linked list with a head and a tail     *)
(* pointer, a mutex and a condition variable, filled by the reader thread  *)
(* (FTBM_Fill_message_queue, with FTBN_Grab_messages) and emptied by the   *)
(* dispatcher (FTBM_Recv).  Module Backplane takes it to be a FIFO, which  *)
(* it is as long as no connection is lost.                                 *)
(*                                                                         *)
(* Each critical section of message_queue_mutex is one step.  What a       *)
(* message says does not matter here: it is named by its connection and    *)
(* its place among the messages written there.                             *)
(*                                                                         *)
(* Slips, as in Manager, are wrong variants that nothing uses.             *)
(***************************************************************************)
EXTENDS Naturals, SequencesExt

CONSTANTS
  Conn,         \* the connections made to the agent
  Sends,        \* how many messages are written to each; the first opens it
  Lost,         \* the connections that are closed, or fail, after that
  Nil,          \* the null pointer
  MaxRefused    \* connections that fail before they are in the table

ASSUME SendsType == Sends \in [Conn -> Nat \ {0}]
ASSUME ConnType == IsFiniteSet(Conn) /\ Lost \subseteq Conn /\ MaxRefused \in Nat

(* Nodes of the list.  One more than was sent stands for CLEANUP_CONN.     *)
Items(c) == Sends[c] + (IF c \in Lost THEN 1 ELSE 0)
Node == UNION {{c} \X (1..Items(c)) : c \in Conn}

ASSUME NilIsNoNode == Nil \notin Node

VARIABLES
  table,    \* FTBNI_connection_table
  read,     \* how many items of each connection were read
  batch,    \* the list in the locals of FTBM_Fill_message_queue
  last,     \* its variable tail
  list,     \* message_queue_head, message_queue_tail and the next pointers
  pc,       \* the dispatcher is running, waiting or woken
  taken,    \* what FTBM_Recv returned so far; those nodes are freed
  refused   \* against the bound

vars == <<table, read, batch, last, list, pc, taken, refused>>

-----------------------------------------------------------------------------
(* The reader.                                                             *)

AtEnd(c) == read[c] = Sends[c]
Next1(c) == <<c, read[c] + 1>>

(* Slip: a connection that was lost stays in the table.                    *)
Unremoved(t, c) == t

(* The walk over a table t that stops at the connections in S.             *)
Visited(t, S) ==
  LET upTo[i \in 0..Len(t)] ==
        IF i = 0 THEN <<>>
        ELSE IF t[i] \in S THEN Append(upTo[i-1], t[i]) ELSE upTo[i-1]
  IN upTo[Len(t)]

Removed(t, c) == Visited(t, Conn \ {c})

(* The next pointers of nodes that are chained.                            *)
Chained(next, nodes) ==
  [n \in Node |-> IF \E i \in 1..Len(nodes)-1 : nodes[i] = n
                  THEN nodes[1 + CHOOSE i \in 1..Len(nodes)-1 : nodes[i] = n]
                  ELSE next[n]]

(* FTBN_Grab_messages: select() reports the connections in ready, and one  *)
(* that is being made if opened is not empty.  One message is read from    *)
(* each, in the order of the table, up to the first that was lost; then a  *)
(* CLEANUP_CONN is put in front, and last stays what it was before.        *)
GrabFrom(ready, opened) ==
  LET visited == Visited(table, ready)
      ends == {i \in DOMAIN visited : AtEnd(visited[i])}
      cut == IF ends = {} THEN <<>> ELSE <<visited[Min(ends)]>>
      whole == opened \o (IF ends = {} THEN visited ELSE SubSeq(visited, 1, Min(ends) - 1))
      messages == [i \in DOMAIN whole |-> Next1(whole[i])]
      nodes == [i \in DOMAIN cut |-> Next1(cut[i])] \o messages
  IN /\ batch' = nodes
     /\ last' = IF messages = <<>> THEN Nil ELSE Last(messages)
     /\ list' = [list EXCEPT !.next = Chained(@, nodes)]
     /\ read' = [c \in Conn |-> IF c \in ToSet(whole \o cut) THEN read[c] + 1 ELSE read[c]]
     /\ table' = IF cut = <<>> THEN opened \o table ELSE Removed(opened \o table, cut[1])

(* The reader has nothing to hand over.  select() reports connections of   *)
(* the table that have something to read, a new connection, or both.       *)
Grab ==
  /\ batch = <<>>
  /\ \E ready \in SUBSET {c \in ToSet(table) : c \in Lost \/ ~ AtEnd(c)} :
       \/ ready # {} /\ GrabFrom(ready, <<>>)
       \/ \E c \in Conn : read[c] = 0 /\ GrabFrom(ready, <<c>>)
  /\ UNCHANGED <<pc, taken, refused>>

(* Slip: the condition is not signalled.                                   *)
NotSignalled(where) == where

Signalled(where) == IF where = "waiting" THEN "woken" ELSE where

(* Slip: the nodes go in front of the list.                                *)
Pushed(q, nodes, end) ==
  [head |-> Head(nodes),
   tail |-> IF q.head = Nil THEN end ELSE q.tail,
   next |-> IF end = Nil THEN q.next ELSE [q.next EXCEPT ![end] = q.head]]

(* Slip: a list that is not empty is not linked to the nodes.              *)
Unlinked(q, nodes, end) ==
  [head |-> IF q.head = Nil THEN Head(nodes) ELSE q.head, tail |-> end, next |-> q.next]

(* FTBM_Fill_message_queue hands over nodes, of which it takes end to be   *)
(* the last.                                                               *)
Added(q, nodes, end) ==
  [head |-> IF q.head = Nil THEN Head(nodes) ELSE q.head,
   tail |-> end,
   next |-> IF q.tail = Nil THEN q.next ELSE [q.next EXCEPT ![q.tail] = Head(nodes)]]

Fill ==
  /\ batch # <<>>
  /\ list' = Added(list, batch, last) /\ pc' = Signalled(pc)
  /\ batch' = <<>> /\ last' = Nil
  /\ UNCHANGED <<table, read, taken, refused>>

(* A connection that fails before its first message was read leaves the    *)
(* reader with nothing; it signals all the same.                           *)
FillNothing ==
  /\ batch = <<>>
  /\ refused < MaxRefused /\ refused' = refused + 1
  /\ pc' = Signalled(pc)
  /\ UNCHANGED <<table, read, batch, last, list, taken>>

Reader == Grab \/ Fill \/ FillNothing

-----------------------------------------------------------------------------
(* The dispatcher, in FTBM_Recv.                                           *)

(* Slip: the tail pointer is left behind.                                  *)
Advanced(q) == [q EXCEPT !.head = q.next[q.head]]

Shortened(q) ==
  [q EXCEPT !.head = q.next[q.head],
            !.tail = IF q.next[q.head] = Nil THEN Nil ELSE q.tail]

Recv ==
  /\ pc \in {"running", "woken"} /\ list.head # Nil
  /\ taken' = Append(taken, list.head) /\ list' = Shortened(list)
  /\ pc' = "running"
  /\ UNCHANGED <<table, read, batch, last, refused>>

(* The list is empty: it waits, once; woken for nothing, it returns        *)
(* FTBN_NO_MSG and is called again.                                        *)
RecvNothing ==
  /\ pc \in {"running", "woken"} /\ list.head = Nil
  /\ pc' = IF pc = "running" THEN "waiting" ELSE "running"
  /\ UNCHANGED <<table, read, batch, last, list, taken, refused>>

(* pthread_cond_wait may return unsignalled.                               *)
SpuriousWakeup ==
  /\ pc = "waiting" /\ pc' = "woken"
  /\ UNCHANGED <<table, read, batch, last, list, taken, refused>>

Dispatcher == Recv \/ RecvNothing

-----------------------------------------------------------------------------
Init ==
  /\ table = <<>> /\ read = [c \in Conn |-> 0]
  /\ batch = <<>> /\ last = Nil
  /\ list = [head |-> Nil, tail |-> Nil, next |-> [n \in Node |-> Nil]]
  /\ pc = "running" /\ taken = <<>> /\ refused = 0

Next == Reader \/ Dispatcher \/ SpuriousWakeup

Spec == Init /\ [][Next]_vars

(* Both threads keep running.                                              *)
FairSpec == Spec /\ WF_vars(Fill) /\ WF_vars(Dispatcher)

-----------------------------------------------------------------------------
(* Properties.                                                             *)

(* The nodes found from the head of q on.                                  *)
Found(q) ==
  LET after == [n \in Node \cup {Nil} |-> IF n = Nil THEN Nil ELSE q.next[n]]
      at[k \in Nat] == IF k = 0 THEN q.head ELSE after[at[k-1]]
      found == {k \in 0..Cardinality(Node) : at[k] # Nil}
  IN [i \in 1..Cardinality(found) |-> at[i-1]]

Listed == Found(list)

(* The type of the state.                                                  *)
TypeOK ==
  /\ ToSet(table) \subseteq Conn /\ read \in [Conn -> Nat]
  /\ ToSet(batch) \subseteq Node /\ last \in Node \cup {Nil}
  /\ list \in [head : Node \cup {Nil}, tail : Node \cup {Nil},
               next : [Node -> Node \cup {Nil}]]
  /\ pc \in {"running", "waiting", "woken"}
  /\ ToSet(taken) \subseteq Node /\ refused \in 0..MaxRefused

(* The reader never writes to a node that FTBM_Recv has freed, nor does    *)
(* FTBM_Recv return one again, also when the tail pointer was lost         *)
(* (ftb_manager_lib.c:1110).                                               *)
PointersAreLive == {list.head, list.tail} \cap ToSet(taken) = {}

(* The messages of a connection come out in the order they were written,   *)
(* each once, and its CLEANUP_CONN after them, although it is put in front *)
(* of the batch it is found in (ftb_manager_lib.c:1100).                   *)
InOrder ==
  \A i, j \in DOMAIN taken :
    i < j /\ taken[i][1] = taken[j][1] => taken[i][2] < taken[j][2]

(* A message that can be found from the head is received: no wakeup is     *)
(* lost (ftb_manager_lib.c:1058).                                          *)
ListedIsReceived ==
  \A n \in Node : n \in ToSet(Listed) ~> n \in ToSet(taken)

(* The tail pointer is not at the end of the list: what comes next will be *)
(* linked to nothing that can be found.                                    *)
TailLost == Listed # <<>> /\ list.tail # Last(Listed)

Cleanups == {<<c, Sends[c] + 1>> : c \in Lost}

Abstract == INSTANCE Fifo
  WITH fetched <- batch, waiting <- Listed, taken <- taken, torn <- TailLost,
       Tearing <- Cleanups

(* The list is the FIFO queue that module Backplane takes it for, except   *)
(* from the time a CLEANUP_CONN comes alone and message_queue_tail is lost *)
(* until the list is empty (ftb_manager_lib.c:1111).                       *)
ListIsFifo == Abstract!Spec

(* No message that was read is lost on its way to the handlers ("This      *)
(* component calls and records *every* event sent to the FTB",             *)
(* components/README:80).                                                  *)
EveryMessageIsKept ==
  \A c \in Conn : \A i \in 1..read[c] : <<c, i>> \in ToSet(batch \o Listed \o taken)
=============================================================================
