# A formal model of FTB, the Fault Tolerance Backplane

FTB is a publish/subscribe service for fault information on clusters.
Processes link a client library and attach to a local agent; the agents form
a tree, which each of them joins with the help of a database server; events
travel along the tree to the processes whose subscriptions match.

This directory holds TLA+ modules translated from the C code, the TLC
configurations that check them on small instances, and proofs, checked by
TLAPS, of what holds for every instance. `PROJECT.json` maps each definition to
the lines it translates and lists the runs, the mutants (a wrong variant of a
definition for each property, to see that the property notices) and the
hazards of the code. Paths below are relative to `src/src/` of the repository
unless they begin otherwise.

    tlc -workers 2 -config tree.cfg MCBackplane     # one run
    tlapm Backplane_proofs.tla                      # one module of proofs

## 1. Inventory

| Component | Files | State | Operations |
|---|---|---|---|
| Agent: routing tables, handlers | `agent/ftb_agent.c`, `manager_lib/ftb_manager_lib.c` | `FTBMI_info`: parent, `peers`, a `catch_event_set` per component, `catch_event_map` | `progress_loop` and the `FTBM_` routines: register and deregister a client, register and cancel a subscription, notify, clean a connection up, reconnect, `FTBM_Init`, `FTBM_Finalize` |
| Agent: message queue | `manager_lib/ftb_manager_lib.c:1053-1120` | linked list, head and tail pointer, mutex, condition | `FTBM_Fill_message_queue` (reader thread), `FTBM_Recv` (dispatcher thread) |
| TCP transport | `network_sock/ftb_network_tcp.c` | connection table, level, parent address | `FTBN_Connect`, `FTBN_Send_msg`, `FTBN_Grab_messages`, `FTBN_Disconnect_peer`, `FTBN_Finalize` |
| Bootstrap client | `network_sock/ftb_bootstrap_udp.c` | one exchange and its repeats | get a parent address, register, deregister, report a failed connect |
| Database server | `network_sock/ftb_database_server_udp.c` | an entry with a level per agent address | `ADDR_REQ`, `REG_REQ`, `DEREG_REQ`, `CONN_FAIL` |
| Client library | `client_lib/ftb_client_lib.c` | handles, subscription maps, polling and callback queues, declared events, the parser's bitmap | the `FTBC_` calls, `FTBCI_Check_progress`, reconnection |
| Client library: threads | the same | `FTBCI_lock`, a lock and a condition per handle | a receiving thread, a callback thread per handle, their end in `FTBC_Disconnect` |
| Matching | `util/ftb_util.c` | none | `FTBU_match_mask` and the equality functions |
| Maps and lists | `util/ftb_util.c`, `include/ftb_util.h` | doubly linked lists | insert, find, remove |
| Platform glue, configuration, examples | `client_lib/platforms/`, `util/ftb_auxil.c`, `src/components/` | none of the backplane | not modelled |

**Interaction.** Processes call the client library, which sends messages over
one TCP connection to its agent. An agent's reader thread moves messages from
all its connections to the message queue; its dispatcher takes one at a time
and runs its handler, which updates the tables and writes to other
connections. When the reader finds a connection lost it queues a
`CLEANUP_CONN`; if it was the parent's, that handler asks the server (UDP) for
another parent and connects to it. An agent that no other one of a smaller
level can be named to becomes the root.

**What is hard.**
- Two threads per agent share the queue, the connection table and the parent.
- Registrations, cancels and events cross on the links; a mask is one entry
  however many handles, processes and neighbours stand behind it.
- Inside a process, application threads, one receiving thread and a thread per
  handle share handles that are freed, queues that fill up, and locks that a
  cancelled thread may take with it.
- Every write may fail and drop a connection in the middle of a handler.
- Agents that lost the same parent look for another one concurrently, from a
  server whose entries may be stale, over packets that are lost and repeated.
- Levels are an unsigned 16-bit number that starts at `0 - 1`, in entries
  whose 32-bit field uses `-1` for "crossed out".

**What makes it correct**, component by component.
- Tables: the two indexes of the subscriptions agree, and name peers only; the
  parent is a peer; when nothing is in flight, peers are who is there.
- Routing: every subscription is known to all agents joined with the
  subscriber's; an event on a standing route is delivered, once; propagation
  dies out where the agents make a tree.
- Queue: it is a FIFO; nothing is lost or taken twice, no wakeup is lost.
- Topology: no ring, at most one root in the server's table, one tree in the
  end; no agent waits for ever.
- Client library: an event is in one place at a time and comes in order; maps
  and agent agree on the subscriptions, also after a reconnection; calls
  return; what overlapping calls share means what one call would have made it.

## 2. Modules

| Module | Models | Uses |
|---|---|---|
| `Manager` | the tables of one agent as a record (`Info`) and each table update as an operator on it | |
| `Backplane` | agents, processes, links, faults: one action per handler, call and event of the environment | `Manager` |
| `MessageQueue` | the linked list between the two threads | `Fifo` |
| `Fifo` | what `Backplane` takes that list for | |
| `Topology` | the server, the exchanges with it, and `FTBN_Connect` of every agent | |
| `Matching` | comparison of events and masks, and the maps keyed with them, as operators | |
| `ClientLib` | the inside of a process: handles, queues, threads, locks, the connection | `Matching` |
| `SharedCalls` | parsing, declaring and publishing by several threads at once | `Matching` |
| `MCBackplane`, `MCMessageQueue`, `MCTopology`, `MCClientLib`, `MCSharedCalls` | instances | |
| `Backplane_proofs`, `Topology_proofs`, `SharedCalls_proofs` | lemmas, inductive invariants, theorems | TLAPS |
| `MessageQueue_proofs` | the same, and the refinement of `Fifo` | `Lists_proofs` |
| `ClientLib_proofs` | types | `Lists_proofs` |
| `ClientEvents_proofs`, `ClientSubs_proofs` | where events are, and their order; maps, subscriptions and the agent | `ClientLib_proofs` |
| `Lists_proofs` | induction over numbers, elements of sequences | TLAPS |

An operator marked *Slip* is a wrong variant of the one after it. No
specification uses it; it is there so that the mutants can be named.

### Manager and Backplane

An `FTB_id` is a member of `Comp`: an agent, a process (its manager library)
or a client handle. `LocationOf` gives the process it lives in, so that
cleaning up a connection removes `CompsAt(loc)`, as
`FTBM_Cleanup_connection` does. `info[a].catchSet` and `info[a].catchMap` are
the two tables kept by the code, updated separately where the code does
so: `RemoveComps` takes a component out of the catch map through the masks *in
its own set*, as `FTBMI_util_clean_component` does, and would leave a pointer
to a freed component behind if they ever disagreed.

`net[x][y]` holds what `x` wrote and `y` has not read; closing an end puts an
`EOF` behind it. `Grab` is the reader reading one message, or the end, of one
connection. `HandleX` is the dispatcher's branch for message type `X`,
together with everything it calls: propagation, writes, the connections that
failed writes close, and reconnection. `Finish`, shared by all handlers, is
where writes take effect: those to a connection whose other end is gone may
each report an error, which drops it (`FTBN_Send_msg`), or go nowhere in
silence, as TCP does. `Join` is `FTBN_Connect` with `FTBMI_util_reconnect` or
`FTBM_Init` around it. What the server lists, the levels and the failed
attempts are abstracted to their outcome: any running agent that the asking one
is not connected to may be its parent, or none (`Offers`). Trees are what
usually comes of it, but rings and several roots are among the outcomes, as
they are of the code (finding `ring`); `Topology` takes `FTBN_Connect` apart.
Left out are an agent that gives up, and one that takes its own child for a
parent, over a second connection between the two.

On the client side `Connect`, `Subscribe`, `Unsubscribe`, `Publish` and
`Disconnect` are the `FTBC_` calls down to the messages sent. `Receive`
and `ReceiveEOF` are `FTBCI_Check_progress`, the latter with its two
reconnections (of the process, then of handles and subscriptions).
`SendUpFails` is a call whose write fails, after which only the process is
registered again, as in the code.

The order in which a map is walked is the order of insertion in the code and
of no consequence for the tables; messages that come from such a walk are sent
in any order (`SetToSeqs`). When `FTBM_Register_subscription` finds a mask its
sender already has, it frees that mask and then uses it as a key: the lookup
may or may not find anything, and `HandleRegSubscription` chooses.

`owed` is a history variable: the deliveries promised when an event was
published. It is what `OwedIsDelivered` is about, and is withdrawn only when
the subscriber cancels or ends, or an agent ends.

### MessageQueue and Fifo

The list has real `next` pointers. `Grab` is one round of
`FTBN_Grab_messages`: `select()` reports some connections; a message is read
from each in the order of the table, up to the first that was lost; a
`CLEANUP_CONN` is put in front, while the local `tail` stays what it was, hence
`NULL` if no message was read. `Fill` and `Recv` are the critical sections of
`message_queue_mutex`. The mapping to `Fifo` reads the list from the head
(`Listed`); `torn` is `TailLost`, the time between a lone `CLEANUP_CONN` and
the next moment the list is empty. A `Fifo` tears when, and only when, one of
the items `Tearing` is handed over alone, here the `CLEANUP_CONN`s
(`Tearing <- Cleanups`); it loses what is handed over while torn, all of it,
and is whole again exactly when it is empty.

### Topology

An agent is named by its address and keeps it when it is restarted. `pc` says
where in `FTBN_Connect` it is. Packets are sets of records; `Timeout` loses any
of an exchange's packets, or none when they are merely late, and repeats the
request or gives up as `FTBNI_util_exchange_bootstrap_msg` and its callers do.
A reply is readable by the exchange's own socket only, as every exchange opens
a new one. `serving` tells whether the reader thread runs: agents in
`FTBM_Init` have a listening socket, so that others can `connect()`, but read
no handshake. `Leave` and `Left` are the orderly end, `Crash` the other. A
`scenario`, chosen at first, says who runs and how many starts, faults and
timeouts there may be, so that one run asks its question of several of them.

### ClientLib

`Backplane` sees a process from outside: what it writes, and that it reads.
`ClientLib` is the inside, with the agent reduced to its tables for this
process (`known`, `agent`) and the stream of what it wrote (`stream`). A
thread is a record with a `pc`: a step is what it does between two points at
which another one may come in. The lock of a handle and `FTBNI_recv_lock` are
variables, because a thread keeps them over such points, or dies with them;
`FTBCI_lock` is not, for all that is done under it is one step. Callback
functions run between `Pick` and `CallbackReturns`, and may unsubscribe.

| Code | Actions |
|---|---|
| `FTBC_Connect` | `Connect`, `StartThreads`, `Insert`, `Register` |
| `FTBC_Subscribe_with_polling`, `..._callback` | `Subscribe`, `AddMask`, `SendMask` |
| `FTBC_Unsubscribe` | `Unsubscribe` or `UnsubscribeInCallback`, `DeleteMask` |
| `FTBC_Poll_event` | `Poll`, `Scan`, `PollNothing` |
| `FTBC_Disconnect` | `Disconnect`, `Finalize`, `Join`, `JoinedUnlock`, `RemoveHandle` |
| `FTBCI_Check_progress`, in all of them | `CheckProgress`, `Grab`, `GrabNothing` |
| `FTBCI_callback_thread_client` | `LockRecv`, `Receive` |
| both: a message, or the end of the connection | `Lookup`, `LockHandle`, `Push`; `Reconnect` |
| `FTBCI_callback_component` | `CallbackWaits`, `CallbackWakes`, `CallbackEnds`, `Pick`, `CallbackReturns`, `FreeUnmatched` |

The code reaches points at which C leaves open what happens: a queue used
after it was freed, a lock released for another thread. There `undefined`
tells what, and the model ends: properties are about what comes before. How
each of them is reached is told in section 6. The unlocked reads of the
callback thread (`Pick`) are taken to be atomic, and so is the walk over the
maps of a handle after a reconnection (`Reconnect`), which holds `FTBCI_lock`
but not the handle's.

`out`, `gone` and `cut` are history: what was handed out, what was dropped,
and whether the receiving thread was cancelled between its reconnection and
the registrations that follow it.

### SharedCalls

Three things that calls share without a critical section around the whole
of their use: the static bitmap `track` of the parser, the table of declared
events with its count, and the sequence number. Steps are the accesses: a bit
is tested and set (`TestPair`, `MarkPair`, which may undo what another thread
did in between, as `track = track | 2` does); the limit is tested, the name
looked for, the event inserted (`CheckLimit`, `FindDeclared`,
`InsertDeclared`); the number is raised and read (`Count`, `Stamp`). A
subscription string is the sequence of its pairs, each a record of the fields
it sets, and a schema file that of its words.

## 3. Runs

| Run | Instance | States | Properties, and what they show |
|---|---|---|---|
| `tree` | chain a1-a2-a3 with root a2; a process at each end with one handle; two masks that match one event; 5 calls | 312 600 | `InterestReaches`: no order of registrations and cancels cuts a subscriber off from agents joined with its own. `OwedIsDelivered`, `AtMostOnce`: an event arrives, once, also when both masks match |
| `handles` | two agents, two handles of one process at the leaf; one mask, no events; 5 calls, 1 fault, 1 write error | 1 197 000 | `TablesAgreeEverywhere`, `PeersSettle`, `InterestReaches` with a mask shared by handles, and a crash or an orderly end of any process |
| `agents` | a root with two children, a process at one, and an agent that joins late; one handle; 2 calls if it comes and 3 if not; 1 fault, 1 write error | 682 000 | the same and `ParentIsPeer`, `TypeOK`, across reconnections and failing writes, and where agents attach to one another in any way: in a chain, a star, several trees, a ring of three |
| `settle` | two agents and one that joins late, one handle; 2 calls, 1 fault | 84 000 | `Settles`: registrations and their echoes die out |
| `queue` | three connections with 2, 1, 1 messages, two of which are lost, one refused connection | 70 000 | `ListIsFifo` (refinement), `InOrder`, `PointersAreLive`, `ListedIsReceived`, `TypeOK` |
| `topology` | three agents: all start; a root with two children and 1 fault; the same with 1 start, 1 fault and 1 timeout | 78 000 | `TreeForms`: one tree results. `NoRing`: no ring on the way. `OneRootEntry`, `TypeOK`: also with losses, restarts and stale entries |
| `client` | one polled and one notified handle, two masks, two events, queue of length 1; six scenarios | 267 000 | `OnePlace`, `InOrder`: an event is not lost, doubled or overtaken. `MapsHoldSubscriptions`, `SubscribedIsRegistered`: maps and agent know the subscriptions, also after the connection was lost. `HandedOn`, `CallsReturn`: no event is stuck, and no call, but for the ways to hang that the property names |
| `calls` | two threads, 9 strings, 4 tables, 5 schema files, at most 2 declared events; 3 calls | 241 000 | `ParsedAlone`, `NothingInvented`: what a subscription string is taken to mean. `EachNameOnce`, `LimitNearlyKept`, `AcceptedIsDeclared`: the table. `SameNumberOverlapped`: the numbers |

The remaining four are counterexamples; see section 6.

**Bounds.** Calls, faults, starts, write errors and timeouts are counted, each
against a constant, in the guard of the action that makes one; nothing else is
bounded. Five calls let both ends connect, subscribe and publish, or both
connect, subscribe and one cancel: the shortest stories in which two
subscriptions meet. One fault is as much as a tree heals from: with a second
one, or a fourth agent, the code may leave no tree (section 6), so that the
runs of `Topology` stop short of that and the counterexamples show what lies
beyond. Three agents are the least with one that only forwards; the four of
`agents` are the least whose survivors can make a ring, of three. In that run
(`FewSpec`) the fourth agent comes only where there are two calls, no event,
and no end but the root's or its own; without it, a third call lets a parent be
lost while an event is forwarded. `client` asks in six scenarios for what needs
to meet: calls and a lost connection; three calls and an event, or a loss; two
events at a full queue, and two at one callback; two application threads, on
two handles and polling one. Three calls let a handle be disconnected,
connected and subscribed again, or a subscription be made, cancelled and
polled. In `calls`, three calls are two that overlap and one that sees what
they left, and the limit is two, which a table reaches alone. The queue needs a
loss to meet a list that is empty, one that is not, and one whose tail is
already lost: two losses and a third connection. `Tries = 2` stands for the
eight tries of the code, the first and a repeat. `handles` counts states up to
an exchange of its two handles, which live in one process: without events, no
action or property tells them apart. All runs but `queue` switch the deadlock
check off: when the bounded calls are used up and nothing is in flight, or
something undefined happened, the model stops.

**Fairness.** `Backplane`: weak fairness of each agent's dispatcher, of its
reader for every connection (`select()` reports all connections that have
something, and the reader serves each of them), and of each process's receiving
loop. Calls, faults and starts are not fair. `MessageQueue`: the reader hands
over what it fetched and the dispatcher calls `FTBM_Recv` in a loop; the
reader need not find anything, nor `pthread_cond_wait` wake up by itself.
`Topology`: the server serves requests that arrive and agents take the steps
of `FTBN_Connect`; losses and timeouts are not fair, and `TreeForms` is about
scenarios without any: with a limit of tries, an agent that never hears from
the server gives up. `ClientLib`: threads run on, and callback functions
return; calls, events and losses are not fair.

**Premises of the properties.** `PeersSettle` and `InterestReaches` are about
quiet moments, and about runs in which no write reported an error: after one
they are false, as finding `unnoticed` shows. `InterestReaches` promises a
route from the agents that the subscriber's is joined with (`JoinedWith`: those
that connections to parents, in either direction, lead to). That these are all
agents is not promised, as `FTBN_Connect` may leave several roots or a ring
apart; that it leaves one tree under `Calm` conditions is what `TreeForms`
checks of `Topology`. `RegisteredIsPropagated`, which finding `unnoticed`
violates, leaves several roots out. `Settles` is checked of three agents, one
of which may end: the two that remain cannot make a ring. `AtMostOnce` assumes
that no agent ended: while the tree is rebuilt an event may travel both ways
round. `NoRing` and `TreeForms` are about scenarios that are `Calm`: no packet
is lost or late, and agents do not start while others end; TLC finds rings
otherwise. In `ClientLib` no thread uses a handle while another one connects or
disconnects it, nobody subscribes what another thread is subscribing or
unsubscribing, and a handle is not disconnected from under a callback function
(`ftb_example_callback_unsubscribe.c:51-53` asks for that). `InOrder` is about
one application thread; the two properties of subscriptions are about quiet
moments and masks that differ in one of the four fields by which maps are
keyed, and, for handles of both styles, not about masks at all (*Both styles*
in section 6); `SubscribedIsRegistered` is about runs without `cut`. `HandedOn`
leaves out handles that are being disconnected, and a receiving thread that
ended, which it does after each reconnection. `ParsedAlone` and
`AcceptedIsDeclared` are about calls that no other one of the kind overlapped
(`alone`), while `NothingInvented`, `EachNameOnce`, `LimitNearlyKept` and
`SameNumberOverlapped` are about what remains when they do.

## 4. What is proved

For all agents, processes, handles, threads, masks, events, strings, first
trees and bounds that satisfy the `ASSUME`s of the modules. These say no more
than that the instance is one of this program: names of different kinds are
distinct and sets of them finite; in the first forest the level of an agent is
one more than its parent's, and a root's is 1; tables, subscription strings and
schema files are sequences of well-formed entries; a mask is its fields; a
queue has room for one event.

| Theorem | Statement |
|---|---|
| `Backplane_proofs!Invariance` | `Spec => []IInv` |
| `Backplane_proofs!TypeCorrect` | `Spec => []TypeOK` |
| `Backplane_proofs!TablesNeverDisagree` | `Spec => []TablesAgreeEverywhere` |
| `Backplane_proofs!ParentAlwaysPeer` | `Spec => []ParentIsPeer` |
| `Backplane_proofs!PeersAccounted` | `Spec => []PeersInv` |
| `Backplane_proofs!PeersAlwaysSettle` | `Spec => []PeersSettle` |
| `Backplane_proofs!InterestKept` | `Spec => []InterestInv` |
| `Backplane_proofs!InterestAlwaysReaches` | `Spec => []InterestReaches` |
| `MessageQueue_proofs!Invariance` | `Spec => []IInv` |
| `MessageQueue_proofs!TypeCorrect` | `Spec => []TypeOK` |
| `MessageQueue_proofs!NothingFreedIsUsed` | `Spec => []PointersAreLive` |
| `MessageQueue_proofs!TakenInOrder` | `Spec => []InOrder` |
| `MessageQueue_proofs!ListImplementsFifo` | `Spec => ListIsFifo` |
| `Topology_proofs!OneRootAtMost` | `Spec => []OneRootEntry` |
| `Topology_proofs!TypeCorrect` | `Spec => []TypeOK` |
| `ClientLib_proofs!TypeCorrect` | `Spec => []TypeOK` |
| `ClientEvents_proofs!OnePlaceAtATime` | `Spec => []OnePlace` |
| `ClientEvents_proofs!ServedInOrder` | `Spec => []InOrder` |
| `ClientSubs_proofs!MapsAreTrue` | `Spec => []MapsHoldSubscriptions` |
| `ClientSubs_proofs!AgentKnows` | `Spec => []SubscribedIsRegistered` |
| `SharedCalls_proofs!NoNameTwice` | `Spec => []EachNameOnce` |
| `SharedCalls_proofs!LimitOverrun` | `Spec => []LimitNearlyKept` |
| `SharedCalls_proofs!AloneIsExact` | `Spec => []ParsedAlone` |
| `SharedCalls_proofs!MaskIsFromString` | `Spec => []NothingInvented` |
| `SharedCalls_proofs!AloneIsWhole` | `Spec => []AcceptedIsDeclared` |
| `SharedCalls_proofs!SameNumberMeansOverlap` | `Spec => []SameNumberOverlapped` |

*Tables.* `TablesAgreeEverywhere` says of each mask that it is in a
component's set exactly when the component is in the mask's map, and that both
name peers only. This is inductive for table operators (one lemma per
operator), given types. `RemoveComps` is where the two halves need
each other: the map is cleaned through the set. `ParentIsPeer` needs a case
split where a handler may remove the parent: each such handler either keeps
the parent a peer or reconnects, which installs another one; `Finish` carries
the condition under which it does. For types the invariant adds that an open
handle's process runs and is attached to an agent, without which the actions of
a client would write to nowhere. `IInv` is the conjunction; the step lemmas are
one per action, each of them through `FinishOK`, `JoinOK` or `NetStepType`,
which hold for all handlers.

*Peers.* `PeersSettle` speaks of quiet moments, and is inductive only if it
says of the others what will be: whether a component will be a peer once the
agent has handled what is on its way from the component's location, in the
queue and on the connection (`ExpectedAt`: the last message that registers or
ends it decides, and with none the table). `Accounted` says that this is so
exactly for who belongs there: parent, children, attached processes, their
handles. It takes two companions. `Links`: of a process that has not started
nothing is known; a location speaks for its own components only; between
processes that run, no connection ends; whoever belongs to an agent is
connected to it, so that what is written arrives; a client process has written
to no other agent. `LastWords`: a manager deregisters last, when its handles
have; without this, closing the connection after `CLIENT_DEREG`
(`HandleClientDereg`) could cut messages off that count. All three hold while no write has reported an
error, and `PeersInv` says no more. The proof counts what a handler may do to
one component (`AgentMove`), a process (`ProcessMove`), and the end of either
(`EndsPeers`); the actions are instances of these. TLC checked `PeersInv`
before it was proved.

*Interest.* `InterestReaches` says of a quiet moment that each subscription has
a route from every agent that the subscriber's is joined with. What `PeersInv`
does for components, `InterestInv` does for masks, again as long as no write
reported an error. `KnownAt` says whether an agent will know of an interest
once everything on its way from there was handled: the last message counts that
registers it, cancels it, or begins or ends its component. `Wants` says who is
to know: a neighbour of any mask that somebody else asks the agent for, the
agent of a client of its subscriptions. `Heeded`: who is to know will know. The
steps that take something away are the interesting ones. An agent cancels a
mask only when the last catcher is gone, and then no neighbour is to know; but
while one neighbour is left as the only catcher, just this one is not to know
any more, which is why `Wants` leaves out whom the interest came from. A table
operation keeps the interests of the others and tells those who are to know of
more (`Keeps`, one lemma per handler); the rest of a handler is common to all
(`HandledKnown`). Who attaches elsewhere says everything again: an agent that
reconnects all masks it catches (`GreetingTurns`), a process its handles and
then their subscriptions, where the order matters (`ReceiveEOFKnown`); a new
parent was no neighbour before, as `Offers` names none that the agent is
connected to. Companions: a location cancels for its own components only
(`OwnCancels`); a process whose agent ended will read the end of its connection
(`Noticed`); a closed handle holds no subscription (`Shut`).

In a quiet moment `Heeded` speaks of the tables, and the rest is about graphs.
It assumes no shape of them: no tree, no single root, no levels. `RoutedFrom`
collects agents hop by hop; as each hop adds an agent or is the last, the
result is closed (`RoutedClosed`). It holds the client's own agent. An agent in
it catches the mask for the client, or for another one in it, and all its
neighbours except that one know (`RouteSpreads`); so it contains the neighbours
of its members, parents and children alike, and with them all of `JoinedWith`,
the smallest set that does. TLC checked the parts of `InterestInv` before they
were proved.

*Queue.* What is in the list is found by following pointers (`Listed`), with a
recursive function over pointers that each step changes. The invariant
therefore speaks of a sequence `s` of nodes and says that it is what the
pointers show: `Holds(s)` is `TableInv` (which connections are still read),
`BatchInv` (what the reader has fetched), `OrderInv(s)` (messages of a
connection are in the order they were written, those taken before those in the
list, and these before the ones in the batch), and `PointerInv(s)`: the head
begins `s`, each `next` leads on in it, and the tail is its last node, or nil,
or, after a tail was lost, a node that is in neither list and was not taken.
Each step names the next `s`: the same, `Tail(s)`, or `s` with the batch behind
it, if the tail is at its end (`HandedOver`). `FoundIs` shows that a sequence
which is linked so is the one the pointers lead to, hence `Listed`, by an
induction that `Lists_proofs` carries out as the absence of a least
counterexample. The refinement `ListIsFifo` follows: each step of the
code is one of `Fifo`'s, or a stutter.

*Topology.* `OneRootAtMost` needs only that the server's table is a function:
`REG_REQ` with level 1 is refused while there is a root, other updates make
nobody a root. For `TypeCorrect` the question is whether a level fits its
16 bits: an agent takes the level of its parent plus one, and the server names
only parents that have a smaller level than the asking agent, so that the sum
does not overflow (`TypeInv`, with what packets may carry).

*Client types.* `TypeInv` gives the record of a thread a shape by its place
(`ThreadInv`). The counters `num_components` and `enable_callback` have a type
only because they count something: the open handles with those being opened
(`Counted`, `Served`), which takes that no two threads open or close the same
handle (`AloneInv`). What a callback thread reads from its queue is there
because nobody else takes anything out of it (`HeadInv`).

*Events.* `OnePlace` counts the places of one number, and is not inductive. The
places are made the cells of a partition (`Held`): the stream, a hand of each
thread, the polling queue, callback queue and handed-out sequence of each
handle, and what is gone. `EventInv` says that each number up to the last one
sent is in exactly one cell, once there, and every step is shown to move
numbers to one cell from others, or none (`Transfer`). That no event is left in
what a closed handle had, or put there, is `HandleInv`: queues of closed
handles are empty, a freed queue stays empty, an event on its way to a queue is
for an open handle, a handle is removed when its thread has ended, and the end
of a connection is the last that is read from it.

*Order.* With one application thread, `OrderInv` orders the cells by number:
what is in a hand comes before the stream, what is queued or was handed out
before both, and what was handed out before what the same callbacks or the same
subscription still wait for. Only one thread has an event in hand: the
application thread receives itself only while no handle has callbacks
(`SoleInv`), and then there is no receiving thread. All that a step may do to
the sequences is one of seven effects (`Effect`: drop events or leave them
alone; one is read from the stream, put in a queue, polled, given to a callback
function, removed when that returns, or sent), so that there is one lemma for
each effect in place of one for each action. TLC checked `EventInv` and
`OrderInv` before they were proved.

*Subscriptions.* At other moments than quiet ones maps differ from the
subscriptions by what threads are about to do. `MapInv` says by how much: the
maps of a handle of one style hold what is subscribed, and what some thread has
cancelled but not yet deleted (`Leaving`). This is inductive only together
with who may do so: no two threads are about to change the same mask of a
handle, what a thread is about to change is not subscribed, no thread changes
a handle that is closed (from `FTBC_Disconnect` on, `Closed`), the maps of a
handle that is not open are empty, and no map has a key twice (`Apart`), so
that one removal is enough. `RegInv` says the same of the agent while the
connection stands and nobody is about to reconnect (`Steady`): it knows each
open handle, or a thread is about to register it, and each mask, or a thread is
about to send it. That a mask is not refused because its handle is unknown
takes `AloneInv`: who registers a handle is the only one to use it. The step
that needs `MapInv` is `Reconnect`, which registers what is in the maps. Steps
that leave handles, subscriptions and maps alone (`Quiet`) share one lemma for
each of the two. TLC checked both before they were proved; `MapInv` failed for
handles of both styles (section 6).

*Declaring.* The limit is tested before an event is looked for, so that the
inductive invariant counts the threads that have passed the test: the length
of the table and the number of threads between test and insertion are together
at most `MaxEvents + Cardinality(Thread) - 1` (`Passed`). A thread passes the
test only while `total < MaxEvents`, and at most all the others are past it
then; an insertion moves one from one summand to the other. `EachNameOnce` is
inductive by itself, for insertion looks again (`FTBU_map_insert`). A call that
nobody overlaps finds the table as it left it: names that are fresh when it
begins are not found later, so that an accepted file is declared as a whole
(`DeclareInv`).

*Parsing.* While a parser is alone, the bitmap holds the attributes of the
pairs read so far, and none of these pairs offends a rule (`ParsingAlone`).
Overlapped or not, a mask has only what its string sets, and wildcards, as the
mask is not shared (`ParseInv`).

*Numbers.* The sequence number has 16 bits and wraps. Up to 65535 calls it
only grows: a call that has raised it has a number larger than all that were
published by then (`NumberInv`), so that a call with the same number must have
overlapped it.

*Model-checked only.* Liveness (`Settles`, `TreeForms`, `ListedIsReceived`,
`HandedOn`, `CallsReturn`), as the prover handles no fairness.
`OwedIsDelivered` and `AtMostOnce` of `Backplane`, which need an invariant over
the events in flight, as `InterestInv` is one over the registrations of masks.
`NoRing` is false for
four agents (finding `ring`) and has no proof.

## 5. What is not modelled

- In `Backplane`: an agent that gives up on `FTBN_Connect`, and one that takes
  its own child for a parent, which makes two connections between the same two
  processes. `Topology` has both.
- Locks of the transport and blocking writes; `select()` on descriptors that
  another thread closes: planned (`Transport`).
- `main`'s shutdown of the two threads: planned (`AgentShutdown`). The models
  of the orderly end begin at `FTBM_Finalize`.
- An agent that dies in the middle of a handler; `CrashAgent` falls between.
- In `ClientLib`: handles of style `FTB_SUBSCRIPTION_NONE`, which receive
  nothing; a second `FTBC_Connect` with the ids of a handle that is there;
  writes that fail (`Backplane` has them, as `SendUpFails`).
- In `ClientLib`, too: a map node that another thread's unsubscribe frees
  (`util/ftb_util.c:373`) under a walk over the map (`ftb_client_lib.c:685`,
  862), which is one step here. And of the locks a cancelled receiving thread
  may hold, only `FTBNI_recv_lock` and those of handles: with the lock of the
  connection table, or of the manager library during a reconnection, it would
  leave later calls to hang in the same way, so that `CallsReturn` says nothing
  of these two.
- Dynamic tags (`FTBC_Add_dynamic_tag` and the like): one string rewritten
  under `FTBCI_lock`. Event handles: copies and comparisons of fields.
- In `SharedCalls`: lengths of strings and spelling of words. A name is
  well-formed or not, and what is not is refused. The code refuses most, but
  passes `NULL` to `strcmp` for an event space with fewer than two dots
  (`ftb_client_lib.c:233`, 241), and counts the pairs of a string only after it
  has stored them in `pair[10]` (405).
- `Manager` takes which masks match an event as a constant: routing does not
  depend on how they do.
- `FTBM_Register_publishable_event` and its cancel do nothing in the code.
- `FTBM_Abort` and `FTBNI_Bootstrap_abort`: nothing in the agent calls them.
- Platform wrappers, configuration, examples.
- `FTBN_my_level` wrapping round: it takes 65534 levels or reconnections.

## 6. Findings

Each is a run in which TLC finds a property violated that a document or comment
of the repository states.

1. `every_event` (`ftb_manager_lib.c:1111`). A `CLEANUP_CONN` alone in its
   batch sets `message_queue_tail` to `NULL` while the list is not empty;
   messages handed over next are linked to nothing, and lost.
2. `unnoticed` (`ftb_manager_lib.c:164`). A propagation that fails to be
   written drops the connection; the reader never sees its end, the lost
   parent stays a peer, and the agent does not reconnect.
3. `ring` (`ftb_network_tcp.c:353`). An agent refused as the root resets its
   level to 65535; its own child is then of a smaller level and may be named
   to it.
4. `callback_unsubscribe` (`ftb_client_lib.c:908`). An event waits in the
   callback queue while a callback function unsubscribes: its thread finds no
   callback for it, gives it to the polling queue, which a notified handle has
   not, and which frees it, and then frees it again.

### What TLC showed besides

Further scenarios met while modelling. They have no run of their own and no
property claims the opposite.

- *Phantom interest.* A mask is cancelled at the neighbours when its last
  catcher goes. Two neighbouring agents whose subscribers both cancel keep each
  other as catchers for ever (`ftb_manager_lib.c:200`, against the comment at
  816-818); events go on being sent to agents with no subscriber.
- *A root refused because of itself.* The check at
  `ftb_database_server_udp.c:305` does not ask whether the listed root is the
  sender. A root that repeats its request, the first reply being late, is
  refused, and then looks for a parent.
- *Waiting for each other.* Two agents that restart while their old entries are
  still listed may be given each other as a parent; each waits without a
  timeout for its handshake to be read (`ftb_network_tcp.c:229`), and neither
  reads before `FTBM_Init` is over.
- *A dead root that stays.* After a second failure an agent may ask for a
  parent with a crashed agent still listed; `CONN_FAIL` does not remove it and
  the agent asks on and on.
- *More rings.* A root with three children and no grandchild, when it ends,
  leaves three agents that make a ring as well. So do three agents if one
  starts while another ends, or a reply is late.
- *Round and round.* In a ring of agents a registration may travel for ever:
  each of them has the mask already, frees it (`ftb_manager_lib.c:830`), need
  not find it by the freed key, and then sends it on. `Settles`, with the
  fairness of `settle`, is violated where a root with three children ends.
- *The same parent again.* The report of a failed connect carries the
  address in `addr`, while the server looks up `parent_addr`
  (`ftb_database_server_udp.c:393`), and the next request names nobody
  (against the comment at `ftb_bootstrap_udp.c:184`): the agent that cannot be
  reached is named again.

In the client library (lines of `ftb_client_lib.c`):

- *Unlocked once too often.* `FTBC_Poll_event` unlocks the handle again when
  there is no event (1621), and so does `FTBC_Disconnect` for a notified handle
  (1703), whoever holds it by then.
- *Used after it was freed.* The receiving thread looks a handle up, releases
  the lock (735) and goes on with the pointer while the handle is
  disconnected: with its freed event queue from `FTBCI_util_finalize_component`
  on, later with its map, in the end with the handle itself.
  `FTBCI_util_reconnect` meets such handles as well.
- *A lock taken to the grave.* `FTBC_Disconnect` of the last notified handle
  cancels the receiving thread, asynchronously, mostly in `select()` with
  `FTBNI_recv_lock`: if another handle is left, the next progress check waits
  for ever, in that very call. It may also take the lock of a handle with it.
- *A signal too early.* `finalizing` is tested after the wait only (849-857).
  If the callback thread is not waiting when `FTBC_Disconnect` signals, it
  waits afterwards, and `pthread_join` does for ever.
- *Cancelled between two halves.* A receiving thread that is cancelled after
  `FTBM_Get` reconnected and before `FTBCI_util_reconnect` (820-826) leaves the
  other handles unregistered.
- *The receiving thread ends* after it has reconnected (826), while
  `enable_callback` stays positive: nobody receives any more.
- *A poll that blocks.* A progress check begun before the receiving thread was
  started waits, non-blocking as it is, for `FTBNI_recv_lock`.
- *Two that poll* may overtake each other between connection and queue.
- *Both styles.* A handle of style `FTB_SUBSCRIPTION_BOTH` may subscribe a mask
  in either way. Unsubscribing one takes the mask from both maps and from the
  agent (1662, against the comment at 1664; 1653 suspects it): the other
  subscription stays valid, and gets nothing any more.
- *Four fields.* Maps compare severity, category, component and name only: of
  two masks that differ in the others, the second is not stored, and
  unsubscribing either removes the first. A mask subscribed anew while another
  thread unsubscribes it is lost.
- *The same number twice* for events published at once (1520); strings that
  are refused, or accepted with an attribute given twice, when two threads
  parse at once (278); a table that is left, with `FTB_SUCCESS`, at the first
  entry that is declared already (523).

## 7. Plan

Done: `Manager`, `Backplane`, `MessageQueue` with `Fifo`, `Topology`,
`Matching`, `ClientLib`, `SharedCalls`; proved: types of the four modules that
state them; agreement of the tables, the parent, that the peers settle and that interests
reach all agents joined with the subscriber's for `Backplane`; live pointers, order and the refinement of `Fifo` for `MessageQueue`; the root's
uniqueness for `Topology`; place and order of events, and all about
subscriptions, for `ClientLib`; all properties of `SharedCalls`.

To model:
1. `Transport`: the connection table's lock held across reads and writes on
   bounded streams, and `select()` against a close by the dispatcher; that
   agents do not all wait for each other.
2. `AgentShutdown`: `main`, the two threads, `lock` and
   `message_queue_mutex`.
3. A crash that cuts the messages of a handler short, in `Backplane`.
4. An abstract event service (subscriptions and events, with no agents) that
   `Backplane` implements while the tree stands.

To prove:
1. For `Backplane`, on top of `InterestInv`, an invariant over the events on the
   links: that each is on one way to each handle (`AtMostOnce`), and on its way
   to whom it is owed (`OwedIsDelivered`).
