------------------------------ MODULE ClientLib ------------------------------
(***************************************************************************)
(* The inside of a process that uses the client library                    *)
(* (client_lib/ftb_client_lib.c): its handles, their subscription maps and *)
(* event queues, and the threads.  Those are the threads of the            *)
(* application, which make the calls; callback_thread, which receives as   *)
(* long as there is a handle with callbacks; and a thread for each such    *)
(* handle, named like the handle, which calls the callback functions.      *)
(*                                                                         *)
(* Of the locks, that of a handle and FTBNI_recv_lock are variables.       *)
(* FTBCI_lock is not: what is done under it is one step.  The agent is its *)
(* tables for this process and the stream of events it sends.  Messages    *)
(* come whole, writes do not block, and those to a connection that is      *)
(* lost go nowhere, until the end of it is read (Backplane has the others).*)
(*                                                                         *)
(* Where the code does what C leaves undefined, undefined tells what, and  *)
(* the model ends there.                                                   *)
(*                                                                         *)
(* Slips are wrong variants that nothing uses.                             *)
(***************************************************************************)
EXTENDS Matching

CONSTANTS
  Polls,        \* handles with FTB_SUBSCRIPTION_POLLING
  Notified,     \* handles with FTB_SUBSCRIPTION_NOTIFY
  App,          \* threads of the application
  Rx,           \* callback_thread
  NoOne,
  Mask, Event,
  QueueLen,     \* max_polling_queue_len
  Scenarios     \* what is there at first, and bounds

Handle == Polls \cup Notified
Thread == App \cup {Rx} \cup Handle

Subscription ==
  [h : Polls, mask : Mask, how : {"polling"}] \cup [h : Notified, mask : Mask, how : {"callback"}]

ASSUME NamesAreDistinct ==
  /\ App \cap Handle = {} /\ Rx \notin App \cup Handle /\ NoOne \notin Thread
ASSUME MaskType == \A m \in Mask : m = [f \in Field |-> m[f]]
ASSUME QueueLenType == QueueLen \in Nat \ {0}

(* The subscriptions that are there, the handles that are used, the        *)
(* threads that make calls, and how many calls, events and losses of the   *)
(* connection there are.                                                   *)
ASSUME ScenariosType ==
  \A s \in Scenarios :
    /\ s.boot \subseteq Subscription /\ IsFiniteSet(s.boot)
    /\ s.handles \subseteq Handle /\ s.app \subseteq App
    /\ {s.calls, s.events, s.losses} \subseteq Nat

VARIABLES
  open,        \* FTBCI_client_info_map
  num,         \* num_components
  enable,      \* enable_callback
  info,        \* client_info of each handle
  th,          \* each thread
  recvLock,    \* who holds FTBNI_recv_lock
  stream,      \* what the agent wrote and nobody read yet
  known,       \* handles registered at the agent
  agent,       \* masks registered at the agent, by handle
  held,        \* subscription handles that are valid
  out,         \* history, by handle: the events polled and called back, in order
  gone,        \* history: the events dropped from a full queue, or for no one
  cut,         \* history: callback_thread was cancelled before it had registered anew
  scenario, calls, arrivals, losses,
  undefined

net == <<stream, known, agent>>
counts == <<num, enable>>
history == <<out, gone, cut>>
bounds == <<scenario, calls, arrivals, losses>>
vars == <<open, counts, info, th, recvLock, net, held, history, bounds, undefined>>

EOF == [n |-> 0]
Up == \A i \in DOMAIN stream : stream[i] # EOF

(* stage: live; closing, the event queue is freed; gone, the callback map  *)
(* is, too.                                                                *)
FreshInfo == [polling |-> <<>>, callbacks |-> <<>>, queue |-> <<>>, pending |-> <<>>,
              lock |-> NoOne, finalizing |-> FALSE, stage |-> "live"]

(* h, mask: what the call is about.  item: a message on its way from the   *)
(* connection to a queue.  ret: where FTBCI_Check_progress returns to.     *)
NoThread == [pc |-> "none", h |-> NoOne, mask |-> NoOne, how |-> "polling", item |-> EOF,
             ret |-> "idle", round |-> 1]
Idle == [NoThread EXCEPT !.pc = "idle"]
Running(pc) == [NoThread EXCEPT !.pc = pc]

Is(t, pc) == th[t].pc = pc /\ undefined = "no"
Goes(t, pc) == th' = [th EXCEPT ![t].pc = pc]
Progress(t, ret) == th' = [th EXCEPT ![t].pc = "progress", ![t].ret = ret]
(* From FTBCI_Check_progress, with or without more to do.                  *)
Resumes(t) ==
  LET r == th[t] IN
  th' = [th EXCEPT ![t] = IF r.ret \in {"idle", "calling"} THEN Running(r.ret)
                          ELSE [r EXCEPT !.pc = r.ret]]
Undefined(what) == undefined' = what
Free(h) == info[h].lock = NoOne
StillLocked(record) == record                                         \* slip
Unlocked(record) == [record EXCEPT !.lock = NoOne]
Keys(map) == {map[i] : i \in DOMAIN map}

-----------------------------------------------------------------------------
(* A call of the application.  A thread does not use a handle that another *)
(* one connects or disconnects, nor disconnect one that another one uses.  *)
Calls(t, r) ==
  /\ Is(t, "idle") /\ t \in scenario.app /\ r.h \in scenario.handles /\ calls < scenario.calls
  /\ calls' = calls + 1
  /\ \A u \in App \ {t} : th[u].h = r.h =>
       r.pc \notin {"threads", "finalize"} /\ th[u].pc \notin
         {"threads", "insert", "register", "finalize", "join", "closed", "unlock", "remove"}
  /\ th' = [th EXCEPT ![t] = r]
  /\ UNCHANGED <<scenario, arrivals, losses>>
Within == UNCHANGED bounds

(* FTBC_Connect.  The first handle initialises the manager library, with a *)
(* new connection and new locks.                                           *)
Connect(t, h) ==
  /\ h \notin open
  /\ Calls(t, [Running("threads") EXCEPT !.h = h])
  /\ num' = num + 1
  /\ IF num = 0
     THEN stream' = <<>> /\ known' = {} /\ agent' = [k \in Handle |-> {}] /\ recvLock' = NoOne
     ELSE UNCHANGED <<net, recvLock>>
  /\ UNCHANGED <<open, enable, info, held, history, undefined>>

StartThreads(t) ==
  LET h == th[t].h IN
  /\ Is(t, "threads")
  /\ info' = [info EXCEPT ![h] = FreshInfo]
  /\ IF h \in Notified
     THEN /\ enable' = enable + 1
          /\ th' = [th EXCEPT ![t].pc = "insert", ![h] = Running("start"),
                              ![Rx] = IF enable = 0 THEN Running("receive") ELSE @]
     ELSE Goes(t, "insert") /\ UNCHANGED enable
  /\ UNCHANGED <<open, num, recvLock, net, held, history, undefined>> /\ Within

Insert(t) ==
  /\ Is(t, "insert")
  /\ open' = open \cup {th[t].h}
  /\ Goes(t, "register")
  /\ UNCHANGED <<counts, info, recvLock, net, held, history, undefined>> /\ Within

Register(t) ==
  /\ Is(t, "register")
  /\ known' = IF Up THEN known \cup {th[t].h} ELSE known
  /\ Progress(t, "idle")
  /\ UNCHANGED <<open, counts, info, recvLock, stream, agent, held, history, undefined>> /\ Within

-----------------------------------------------------------------------------
(* FTBC_Subscribe_with_polling and FTBC_Subscribe_with_callback.  Nothing  *)
(* is subscribed while another thread subscribes or unsubscribes the same. *)
Subscribe(t, s) ==
  /\ s.h \in open /\ s \notin held
  /\ ~ \E u \in Thread : th[u].h = s.h /\ th[u].mask = s.mask /\ th[u].ret # "look"
  /\ Calls(t, [Running("progress") EXCEPT !.h = s.h, !.mask = s.mask, !.how = s.how, !.ret = "add"])
  /\ UNCHANGED <<open, counts, info, recvLock, net, held, history, undefined>>

(* The maps are keyed with four fields of the mask; an equal key is        *)
(* refused, and nobody is told.                                            *)
Replaced(map, mask) == <<mask>>                                       \* slip
Inserted(map, mask) == FTBU_map_insert(map, EventKey, mask)

AddMask(t) ==
  LET r == th[t] IN
  /\ Is(t, "add") /\ Free(r.h)
  /\ info' = IF r.how = "polling"
             THEN [info EXCEPT ![r.h].polling = Inserted(@, r.mask)]
             ELSE [info EXCEPT ![r.h].callbacks = Inserted(@, r.mask)]
  /\ held' = held \cup {[h |-> r.h, mask |-> r.mask, how |-> r.how]}
  /\ Goes(t, "subscribe")
  /\ UNCHANGED <<open, counts, recvLock, net, history, undefined>> /\ Within

SendMask(t) ==
  LET r == th[t] IN
  /\ Is(t, "subscribe")
  /\ agent' = IF Up /\ r.h \in known THEN [agent EXCEPT ![r.h] = @ \cup {r.mask}] ELSE agent
  /\ th' = [th EXCEPT ![t] = Idle]
  /\ UNCHANGED <<open, counts, info, recvLock, stream, known, held, history, undefined>> /\ Within

-----------------------------------------------------------------------------
(* FTBC_Unsubscribe, by the application or by a callback function: the     *)
(* agent is told first.                                                    *)

Cancelled(s) == IF Up THEN [agent EXCEPT ![s.h] = @ \ {s.mask}] ELSE agent

Unsubscribe(t, s) ==
  /\ s \in held
  /\ Calls(t, [Running("delete") EXCEPT !.h = s.h, !.mask = s.mask])
  /\ held' = held \ {s} /\ agent' = Cancelled(s)
  /\ UNCHANGED <<open, counts, info, recvLock, stream, known, history, undefined>>

UnsubscribeInCallback(h, s) ==
  /\ s \in held /\ s.h = h /\ s.how = "callback"
  /\ Is(h, "calling")
  /\ th' = [th EXCEPT ![h].pc = "delete", ![h].h = h, ![h].mask = s.mask, ![h].ret = "calling"]
  /\ held' = held \ {s} /\ agent' = Cancelled(s)
  /\ UNCHANGED <<open, counts, info, recvLock, stream, known, history, undefined>> /\ Within

Removed(map, mask) == FTBU_map_remove_key(map, EventKey, mask)

DeleteMask(t) ==
  LET r == th[t] IN
  /\ Is(t, "delete") /\ Free(r.h)
  /\ info' = [info EXCEPT ![r.h].polling = Removed(@, r.mask), ![r.h].callbacks = Removed(@, r.mask)]
  /\ Progress(t, r.ret)
  /\ UNCHANGED <<open, counts, recvLock, net, held, history, undefined>> /\ Within

-----------------------------------------------------------------------------
(* Receiving: FTBCI_Check_progress and FTBCI_callback_thread_client.       *)

CheckProgress(t) ==
  /\ Is(t, "progress")
  /\ IF enable > 0 \/ num = 0 THEN Resumes(t) ELSE Goes(t, "grab")
  /\ UNCHANGED <<open, counts, info, recvLock, net, held, history, undefined>> /\ Within

(* FTBN_Recv_msg takes the lock, and the receiving thread keeps it in      *)
(* select() until something comes.                                         *)
LockRecv ==
  /\ Is(Rx, "receive") /\ recvLock = NoOne
  /\ recvLock' = Rx
  /\ Goes(Rx, "select")
  /\ UNCHANGED <<open, counts, info, net, held, history, undefined>> /\ Within

Next1(t) == IF t = Rx THEN "receive" ELSE "grab"

(* A message, or the end of the connection: then FTBM_Get reconnects.      *)
Read(t) ==
  /\ stream # <<>>
  /\ IF Head(stream) = EOF
     THEN /\ stream' = <<>> /\ known' = {} /\ agent' = [h \in Handle |-> {}]
          /\ Goes(t, "reconnect")
     ELSE /\ stream' = Tail(stream)
          /\ th' = [th EXCEPT ![t].pc = "lookup", ![t].item = Head(stream)]
          /\ UNCHANGED <<known, agent>>
  /\ UNCHANGED <<open, counts, info, held, history, undefined>> /\ Within

Receive == Is(Rx, "select") /\ Read(Rx) /\ recvLock' = NoOne

Grab(t) == Is(t, "grab") /\ recvLock = NoOne /\ Read(t) /\ UNCHANGED recvLock

GrabNothing(t) ==
  /\ Is(t, "grab") /\ recvLock = NoOne /\ stream = <<>>
  /\ Resumes(t)
  /\ UNCHANGED <<open, counts, info, recvLock, net, held, history, undefined>> /\ Within

(* FTBCI_util_reconnect.  The receiving thread returns after it.           *)
PollingOf(h) == Keys(info[h].polling)                                 \* slip
MapsOf(h) == Keys(info[h].polling) \cup Keys(info[h].callbacks)

Reconnect(t) ==
  /\ Is(t, "reconnect")
  /\ \/ /\ \E h \in open : info[h].stage # "live"
        /\ Undefined("handle used after it was freed") /\ UNCHANGED <<th, known, agent>>
     \/ /\ \A h \in open : info[h].stage = "live"
        /\ known' = IF Up THEN open ELSE known
        /\ agent' = IF Up THEN [h \in Handle |-> IF h \in open THEN MapsOf(h) ELSE agent[h]]
                          ELSE agent
        /\ IF t = Rx THEN Goes(t, "ended") ELSE Resumes(t)
        /\ UNCHANGED undefined
  /\ UNCHANGED <<open, counts, info, recvLock, stream, held, history>> /\ Within

(* FTBCI_util_handle_FTBM_msg: the handle is looked up,                    *)
Lookup(t) ==
  LET item == th[t].item IN
  /\ Is(t, "lookup")
  /\ IF item.to \in open
     THEN Goes(t, "deliver") /\ UNCHANGED gone
     ELSE th' = [th EXCEPT ![t].pc = Next1(t), ![t].item = EOF] /\ gone' = gone \cup {item.n}
  /\ UNCHANGED <<open, counts, info, recvLock, net, held, out, cut, undefined>> /\ Within

(* then locked,                                                            *)
LockHandle(t) ==
  LET h == th[t].item.to IN
  /\ Is(t, "deliver") /\ Free(h)
  /\ info' = [info EXCEPT ![h].lock = t]
  /\ Goes(t, "push")
  /\ UNCHANGED <<open, counts, recvLock, net, held, history, undefined>> /\ Within

Wanted(h, item) == \E i \in DOMAIN info[h].callbacks : FTBU_match_mask(item.ev, info[h].callbacks[i])

(* pthread_cond_signal wakes the handle's thread if it waits.              *)
NoSignal(h, threads) == threads                                       \* slip
Signal(h, threads) ==
  IF threads[h].pc = "waiting" THEN [threads EXCEPT ![h].pc = "woken"] ELSE threads

(* FTBCI_util_push_to_comp_polling_list: the oldest event makes room.      *)
NoRoom(queue) == queue                                                \* slip
WithRoom(queue) == IF Len(queue) = QueueLen THEN Tail(queue) ELSE queue
Displaced(queue) == IF Len(queue) = QueueLen THEN {Head(queue).n} ELSE {}

QueuedFirst(queue, item) == <<item>> \o queue                          \* slip
Queued(queue, item) == Append(queue, item)

(* and the event goes to the callbacks' queue if a callback is for it, or  *)
(* to the polling queue, whether it was subscribed that way or not.        *)
Push(t) ==
  LET item == th[t].item
      h == item.to
      unlocked == [info EXCEPT ![h] = Unlocked(@)]
      back == [th EXCEPT ![t].pc = Next1(t), ![t].item = EOF] IN
  /\ Is(t, "push")
  /\ CASE h \in Notified /\ info[h].stage = "gone" ->
            Undefined("map used after it was freed") /\ UNCHANGED <<info, th, gone>>
       [] h \in Notified /\ info[h].stage # "gone" /\ Wanted(h, item) ->
            /\ info' = [unlocked EXCEPT ![h].pending = Queued(@, item)]
            /\ th' = Signal(h, back)
            /\ UNCHANGED <<gone, undefined>>
       [] OTHER ->
            \/ /\ h \in Polls /\ info[h].stage # "live"
               /\ Undefined("queue used after it was freed") /\ UNCHANGED <<info, th, gone>>
            \/ /\ h \in Polls /\ info[h].stage = "live"
               /\ info' = [unlocked EXCEPT ![h].queue = Append(WithRoom(@), item)]
               /\ gone' = gone \cup Displaced(info[h].queue)
               /\ th' = back /\ UNCHANGED undefined
            \/ /\ h \notin Polls
               /\ info' = unlocked /\ gone' = gone \cup {item.n} /\ th' = back
               /\ UNCHANGED undefined
  /\ UNCHANGED <<open, counts, recvLock, net, held, out, cut>> /\ Within

-----------------------------------------------------------------------------
(* FTBC_Poll_event: twice FTBCI_Check_progress and a look at the queue.    *)

Poll(t, s) ==
  /\ s \in held /\ s.how = "polling" /\ s.h \in open
  /\ Calls(t, [Running("progress") EXCEPT !.h = s.h, !.mask = s.mask, !.ret = "look"])
  /\ UNCHANGED <<open, counts, info, recvLock, net, held, history, undefined>>

Fitting(queue, mask) == {i \in DOMAIN queue : FTBU_match_mask(queue[i].ev, mask)}

Scan(t) ==
  LET r == th[t]
      queue == info[r.h].queue
      fitting == Fitting(queue, r.mask) IN
  /\ Is(t, "look") /\ Free(r.h)
  /\ IF fitting # {}
     THEN /\ info' = [info EXCEPT ![r.h].queue = RemoveAt(@, Min(fitting))]
          /\ out' = [out EXCEPT ![r.h] = Append(@,
               [how |-> "polling", mask |-> r.mask, n |-> queue[Min(fitting)].n])]
          /\ th' = [th EXCEPT ![t] = Idle]
     ELSE /\ IF r.round = 1
             THEN th' = [th EXCEPT ![t].pc = "progress", ![t].round = 2]
             ELSE Goes(t, "polled")
          /\ UNCHANGED <<info, out>>
  /\ UNCHANGED <<open, counts, recvLock, net, held, gone, cut, undefined>> /\ Within

(* The handle is unlocked again at the end, by whomever it is locked.      *)
UnlockAgain(h) ==
  /\ IF Free(h) THEN UNCHANGED <<info, undefined>>
     ELSE info' = [info EXCEPT ![h].lock = NoOne] /\ Undefined("lock of another thread released")
  /\ UNCHANGED <<open, counts, recvLock, net, held, history>> /\ Within

PollNothing(t) == Is(t, "polled") /\ UnlockAgain(th[t].h) /\ th' = [th EXCEPT ![t] = Idle]

-----------------------------------------------------------------------------
(* FTBCI_callback_component: the thread of handle h.                       *)

(* It waits while its queue is empty; finalizing is looked at only after.  *)
Awaits(h, pc) == Is(h, pc) /\ Free(h)
Proceed(h) ==
  /\ Goes(h, IF info[h].pending = <<>> THEN "waiting" ELSE "pick")
  /\ UNCHANGED <<open, counts, info, recvLock, net, held, history, undefined>> /\ Within

CallbackWaits(h) == Awaits(h, "start") /\ Proceed(h)

CallbackWakes(h) == Awaits(h, "woken") /\ ~ info[h].finalizing /\ Proceed(h)

CallbackEnds(h) ==
  /\ Awaits(h, "woken") /\ info[h].finalizing
  /\ Goes(h, "ended")
  /\ UNCHANGED <<open, counts, info, recvLock, net, held, history, undefined>> /\ Within

(* Queue and map are read without the lock.                                *)
Pick(h) ==
  LET item == Head(info[h].pending) IN
  /\ Is(h, "pick")
  /\ IF Wanted(h, item)
     THEN /\ Goes(h, "calling")
          /\ out' = [out EXCEPT ![h] = Append(@, [how |-> "callback", mask |-> NoOne, n |-> item.n])]
     ELSE Goes(h, "unmatched") /\ UNCHANGED out
  /\ UNCHANGED <<open, counts, info, recvLock, net, held, gone, cut, undefined>> /\ Within

NotUnlinked(queue) == queue                                           \* slip
Unlinked(queue) == Tail(queue)

CallbackReturns(h) ==
  /\ Awaits(h, "calling")
  /\ info' = [info EXCEPT ![h].pending = Unlinked(@)]
  /\ Goes(h, "start")
  /\ UNCHANGED <<open, counts, recvLock, net, held, history, undefined>> /\ Within

(* Nobody wants the event any more: it goes to the polling queue, or is    *)
(* freed for want of one, and then it is freed.                            *)
FreeUnmatched(h) ==
  /\ Awaits(h, "unmatched")
  /\ Undefined(IF h \in Polls THEN "event freed in the queue" ELSE "event freed twice")
  /\ UNCHANGED <<open, counts, info, th, recvLock, net, held, history>> /\ Within

-----------------------------------------------------------------------------
(* FTBC_Disconnect.  The application sees to it that no callback function  *)
(* of the handle runs, as ftb_example_callback_unsubscribe.c:53 asks.      *)

Disconnect(t, h) ==
  /\ h \in open /\ th[h].pc \notin {"calling", "delete", "progress"}
  /\ Calls(t, [Running("finalize") EXCEPT !.h = h])
  /\ known' = IF Up THEN known \ {h} ELSE known
  /\ agent' = IF Up THEN [agent EXCEPT ![h] = {}] ELSE agent
  /\ held' = {s \in held : s.h # h}
  /\ UNCHANGED <<open, counts, info, recvLock, stream, history, undefined>>

(* FTBCI_util_finalize_component, up to pthread_join.                      *)
Finalize(t) ==
  LET h == th[t].h IN
  /\ Is(t, "finalize") /\ Free(h)
  /\ info' = [info EXCEPT ![h].stage = "closing", ![h].finalizing = TRUE, ![h].queue = <<>>]
  /\ gone' = gone \cup {info[h].queue[i].n : i \in DOMAIN info[h].queue}
  /\ th' = IF h \in Notified
           THEN Signal(h, [th EXCEPT ![t].pc = "join"])
           ELSE [th EXCEPT ![t].pc = "remove"]
  /\ UNCHANGED <<open, counts, recvLock, net, held, out, cut, undefined>> /\ Within

Join(t) ==
  LET h == th[t].h IN
  /\ Is(t, "join") /\ th[h].pc = "ended" /\ Free(h)
  /\ info' = [info EXCEPT ![h].stage = "gone"]
  /\ Goes(t, "closed")
  /\ UNCHANGED <<open, counts, recvLock, net, held, history, undefined>> /\ Within

JoinedUnlock(t) == Is(t, "closed") /\ UnlockAgain(th[t].h) /\ Goes(t, "remove")

(* With the last callback goes callback_thread, whatever it holds; with    *)
(* the last handle the manager library.  A thread that has looked the      *)
(* handle up goes on with a pointer to it.                                 *)
Uses(t, h) == th[t].pc \in {"deliver", "push"} /\ th[t].item.to = h

RemoveHandle(t) ==
  LET h == th[t].h
      cancelled == IF h \in Notified /\ enable = 1 THEN {Rx} ELSE {}
      finalized == num = 1 IN
  /\ Is(t, "remove")
  /\ open' = open \ {h}
  /\ num' = num - 1
  /\ enable' = IF h \in Notified THEN enable - 1 ELSE enable
  /\ th' = [u \in Thread |->
       CASE u = t                    -> [th[t] EXCEPT !.pc = "progress", !.ret = "idle"]
         [] u \in {h} \cup cancelled -> NoThread
         [] OTHER                    -> th[u]]
  /\ gone' = gone \cup {info[h].pending[i].n : i \in DOMAIN info[h].pending}
                  \cup {th[u].item.n : u \in cancelled}
                  \cup (IF finalized THEN {stream[i].n : i \in DOMAIN stream} ELSE {})
  /\ cut' = (cut \/ \E u \in cancelled : th[u].pc = "reconnect")
  /\ info' = [info EXCEPT ![h] = FreshInfo]
  /\ IF finalized
     THEN stream' = <<>> /\ known' = {} /\ agent' = [k \in Handle |-> {}]
     ELSE UNCHANGED net
  /\ IF \E u \in Thread \ cancelled : Uses(u, h)
     THEN Undefined("handle freed while it was in use")
     ELSE UNCHANGED undefined
  /\ UNCHANGED <<recvLock, held, out>> /\ Within

-----------------------------------------------------------------------------
(* The agent.                                                              *)

Arrive(h, e) ==
  /\ undefined = "no" /\ arrivals < scenario.events /\ Up /\ num > 0
  /\ \E m \in agent[h] : FTBU_match_mask(e, m)
  /\ arrivals' = arrivals + 1
  /\ stream' = Append(stream, [n |-> arrivals + 1, to |-> h, ev |-> e])
  /\ UNCHANGED <<open, counts, info, th, recvLock, known, agent, held, history, undefined,
                 scenario, calls, losses>>

Lose ==
  /\ undefined = "no" /\ losses < scenario.losses /\ Up /\ num > 0
  /\ losses' = losses + 1
  /\ stream' = Append(stream, EOF)
  /\ UNCHANGED <<open, counts, info, th, recvLock, known, agent, held, history, undefined,
                 scenario, calls, arrivals>>

-----------------------------------------------------------------------------
Booted == {s.h : s \in scenario.boot}
BootMap(h, how) == SetToSeq({s.mask : s \in {b \in scenario.boot : b.h = h /\ b.how = how}})

Init ==
  /\ scenario \in Scenarios
  /\ open = Booted /\ known = Booted /\ held = scenario.boot
  /\ num = Cardinality(Booted) /\ enable = Cardinality(Booted \cap Notified)
  /\ info = [h \in Handle |-> [FreshInfo EXCEPT !.polling = BootMap(h, "polling"),
                                                !.callbacks = BootMap(h, "callback")]]
  /\ th = [t \in Thread |->
       CASE t \in App                                  -> Idle
         [] t = Rx /\ Booted \cap Notified # {}        -> Running("receive")
         [] t \in Booted \cap Notified                 -> Running("start")
         [] OTHER                                      -> NoThread]
  /\ recvLock = NoOne /\ stream = <<>>
  /\ agent = [h \in Handle |-> {s.mask : s \in {b \in scenario.boot : b.h = h}}]
  /\ out = [h \in Handle |-> <<>>] /\ gone = {} /\ cut = FALSE
  /\ calls = 0 /\ arrivals = 0 /\ losses = 0 /\ undefined = "no"

Receives(t) == Lookup(t) \/ LockHandle(t) \/ Push(t) \/ Reconnect(t)

Proceeds(t) ==
  \/ StartThreads(t) \/ Insert(t) \/ Register(t)
  \/ AddMask(t) \/ SendMask(t) \/ DeleteMask(t)
  \/ CheckProgress(t) \/ Grab(t) \/ GrabNothing(t) \/ Receives(t)
  \/ Scan(t) \/ PollNothing(t)
  \/ Finalize(t) \/ Join(t) \/ JoinedUnlock(t) \/ RemoveHandle(t)

RxStep == LockRecv \/ Receive \/ Receives(Rx)

CallbackStep(h) ==
  \/ CallbackWaits(h) \/ CallbackWakes(h) \/ CallbackEnds(h)
  \/ Pick(h) \/ CallbackReturns(h) \/ FreeUnmatched(h)
  \/ DeleteMask(h) \/ CheckProgress(h)

Next ==
  \/ \E t \in App :
       \/ Proceeds(t)
       \/ \E h \in Handle : Connect(t, h) \/ Disconnect(t, h)
       \/ \E s \in Subscription : Subscribe(t, s) \/ Unsubscribe(t, s) \/ Poll(t, s)
  \/ RxStep
  \/ \E h \in Notified :
       \/ CallbackStep(h)
       \/ \E s \in Subscription : UnsubscribeInCallback(h, s)
  \/ \E h \in Handle, e \in Event : Arrive(h, e)
  \/ Lose

Spec == Init /\ [][Next]_vars

(* Threads run on; callback functions return.                              *)
Fairness ==
  /\ \A t \in App : WF_vars(Proceeds(t))
  /\ WF_vars(RxStep)
  /\ \A h \in Notified : WF_vars(CallbackStep(h))

FairSpec == Spec /\ Fairness
-----------------------------------------------------------------------------
Ordinal == 1..scenario.events
Item == {EOF} \cup [n : Ordinal, to : Handle, ev : Event]
PCs == {"none", "idle", "threads", "insert", "register", "add", "subscribe", "delete", "progress",
        "grab", "lookup", "deliver", "push", "reconnect", "look", "polled", "finalize",
        "join", "closed", "remove", "receive", "select", "ended", "start", "waiting", "woken",
        "pick", "calling", "unmatched"}

(* Every variable has its type.                                            *)
TypeOK ==
  /\ open \subseteq Handle /\ num \in Nat /\ enable \in 0..num
  /\ DOMAIN info = Handle
  /\ \A h \in Handle :
       /\ {info[h].polling, info[h].callbacks} \subseteq Seq(Mask)
       /\ {info[h].queue, info[h].pending} \subseteq Seq(Item \ {EOF})
       /\ info[h].lock \in Thread \cup {NoOne}
       /\ info[h].finalizing \in BOOLEAN
       /\ info[h].stage \in {"live", "closing", "gone"}
       /\ Len(info[h].queue) <= QueueLen
  /\ th \in [Thread -> [pc : PCs, h : Handle \cup {NoOne}, mask : Mask \cup {NoOne},
                        how : {"polling", "callback"}, item : Item,
                        ret : {"idle", "add", "look", "calling"}, round : 1..2]]
  /\ recvLock \in {Rx, NoOne} /\ stream \in Seq(Item)
  /\ known \subseteq Handle /\ agent \in [Handle -> SUBSET Mask] /\ held \subseteq Subscription
  /\ \A h \in Handle : out[h] \in
       Seq([how : {"polling", "callback"}, mask : Mask \cup {NoOne}, n : Ordinal])
  /\ gone \subseteq Ordinal \cup {0} /\ cut \in BOOLEAN
  /\ scenario \in Scenarios /\ calls \in 0..scenario.calls
  /\ arrivals \in 0..scenario.events /\ losses \in 0..scenario.losses

(* What came from the agent is in one place: unread, in the hands of a     *)
(* thread, in one of the two queues, handed out, or dropped.  The event a  *)
(* callback function is called with stays at the head of its queue.        *)
CalledWith(h) == IF th[h].pc \in {"calling", "delete", "progress"} THEN 1 ELSE 0

Places(n) ==
  LET In(what, seq, from) == {<<what, i>> : i \in {j \in DOMAIN seq : j > from /\ seq[j].n = n}} IN
  In("stream", stream, 0) \cup {<<"hand", t>> : t \in {u \in Thread : th[u].item.n = n}}
  \cup (IF n \in gone THEN {"gone"} ELSE {})
  \cup UNION {In(<<"queue", h>>, info[h].queue, 0) \cup In(<<"out", h>>, out[h], 0)
              \cup In(<<"pending", h>>, info[h].pending, CalledWith(h)) : h \in Handle}

OnePlace == undefined = "no" => \A n \in 1..arrivals : Cardinality(Places(n)) = 1

(* A single thread makes calls, if any.                                    *)
Sole == \A t, u \in scenario.app : t = u

(* A subscription is served in the order in which the agent sent, and so   *)
(* are the callback functions of a handle, if a single thread makes calls: *)
(* two that poll may overtake each other between connection and queue.     *)
InOrder ==
  Sole => \A h \in Handle : \A i, j \in DOMAIN out[h] :
    i < j /\ out[h][i].how = out[h][j].how /\ out[h][i].mask = out[h][j].mask
      => out[h][i].n < out[h][j].n

(* A handle of style FTB_SUBSCRIPTION_BOTH may subscribe a mask in either  *)
(* way, and unsubscribing one of them takes the mask from both maps and    *)
(* from the agent: what follows is about the masks of other handles.       *)
BothStyles == Polls \cap Notified

(* At a quiet moment, no call and no callback function being under way,    *)
(* the maps of a handle hold exactly its subscriptions, and                *)
Busy == {t \in Thread : th[t].pc \notin
           {"none", "idle", "receive", "select", "ended", "start", "waiting", "woken"}}
MasksHeld(h) == {s.mask : s \in {u \in held : u.h = h}}

(* (if no two masks are alike in the four fields that are the key)         *)
KeysTellApart ==
  \A a, b \in Mask : FTBU_is_equal_event(a, b) => FTBU_is_equal_event_mask(a, b)

MapsHoldSubscriptions ==
  KeysTellApart /\ Busy = {} => \A h \in open \ BothStyles : MapsOf(h) = MasksHeld(h)

(* the agent knows of every one of them, if the connection lasts: also of  *)
(* those that were made, or whose handle was, while it was lost, unless    *)
(* the thread that was about to register everything anew was cancelled.    *)
SubscribedIsRegistered ==
  KeysTellApart /\ Busy = {} /\ Up /\ ~ cut =>
    \A h \in open : h \in known /\ (h \notin BothStyles => MasksHeld(h) \subseteq agent[h])

(* The application makes finitely many calls, and the agent sends finitely *)
(* many events: then both come to rest.                                    *)

(* Unless a handle is being disconnected or the receiving thread is gone   *)
(* or stuck, no event stays unread or in the queue of the callbacks.       *)
AbandonedLock == \E h \in Handle : info[h].lock = Rx /\ th[Rx].pc # "push"
AbandonedRecv == recvLock = Rx /\ th[Rx].pc # "select"
Receiving ==
  /\ undefined = "no" /\ th[Rx].pc \notin {"none", "ended"}
  /\ ~ AbandonedLock /\ ~ AbandonedRecv
  /\ \A h \in Handle : ~ info[h].finalizing
Waiting == {stream[i] : i \in DOMAIN stream} \cup {th[t].item : t \in Thread}
             \cup UNION {{info[h].pending[i] : i \in DOMAIN info[h].pending} : h \in Notified}

HandedOn == <>[](Receiving => Waiting \subseteq {EOF})

(* A call returns, but for three ways to hang: the receiving thread has a  *)
(* lock in its hands, at work or in its grave; and a disconnecting thread  *)
(* waits for one that waits for a signal that was given before.            *)
Hangs(t) ==
  \/ th[t].pc = "grab" /\ recvLock = Rx
  \/ AbandonedLock
  \/ th[t].pc = "join" /\ th[th[t].h].pc = "waiting"

CallsReturn == <>[](undefined # "no" \/ \A t \in App : th[t].pc = "idle" \/ Hangs(t))

(* "At some time, the callback will unsubscribe the subscription_str and   *)
(* some of these events will not be caught"                                *)
(* (ftb_example_callback_unsubscribe.c:122): and that is all.              *)
UncaughtIsHarmless == undefined # "event freed twice"
=============================================================================
