-------------------------- MODULE ClientLib_proofs --------------------------
(***************************************************************************)
(* The inside of a client process, for all handles, threads, masks, events *)
(* and lengths of the queues: every variable has its type.  For the counts *)
(* of handles this takes knowing who opens and closes them; for what is    *)
(* read from a queue, that there is something to read.                     *)
(***************************************************************************)
EXTENDS ClientLib, Lists_proofs

-----------------------------------------------------------------------------
(* Threads.  What the record of a thread is like, by what it is doing.     *)

ThreadRecord == [pc : PCs, h : Handle \cup {NoOne}, mask : Mask \cup {NoOne},
                 how : {"polling", "callback"}, item : Item,
                 ret : {"idle", "add", "look", "calling"}, round : 1..2]

AppPCs == {"idle", "threads", "insert", "register", "add", "subscribe", "delete", "progress",
           "grab", "lookup", "deliver", "push", "reconnect", "look", "polled", "finalize",
           "join", "closed", "remove"}
RxPCs == {"none", "receive", "select", "lookup", "deliver", "push", "reconnect", "ended"}
CallbackPCs == {"none", "start", "waiting", "woken", "pick", "calling", "unmatched", "ended",
                "delete", "progress"}

Carries(r) == r.pc \in {"lookup", "deliver", "push"}

AppRecord(r) ==
  /\ r.pc \in AppPCs /\ r.ret # "calling"
  /\ r.pc # "idle" => r.h \in Handle
  /\ r.pc \in {"add", "subscribe"} => r.ret = "add"
  /\ r.ret = "add" => [h |-> r.h, mask |-> r.mask, how |-> r.how] \in Subscription
  /\ r.pc = "delete" => r.mask \in Mask

CallbackRecord(h, r) ==
  /\ r.pc \in CallbackPCs /\ r.h \in {NoOne, h}
  /\ r.pc \in {"delete", "progress"} => r.ret = "calling" /\ r.h = h
  /\ r.pc = "delete" => r.mask \in Mask

WellFormed(t, r) ==
  /\ r \in ThreadRecord
  /\ Carries(r) <=> r.item # EOF
  /\ t \in App => AppRecord(r)
  /\ t = Rx => r.pc \in RxPCs
  /\ t \in Handle => CallbackRecord(t, r)

ThreadInv ==
  /\ th \in [Thread -> ThreadRecord]
  /\ \A t \in Thread : WellFormed(t, th[t])

(* Handles.  Those that count: a handle is counted from FTBC_Connect on,   *)
(* its thread from its start on, both until it is removed.                 *)

OfThreads(pcs) == {th[t].h : t \in {u \in App : th[u].pc \in pcs}}
Counted == open \cup OfThreads({"threads", "insert"})
Served == open \cup OfThreads({"insert"})

Exclusive == {"threads", "insert", "register", "finalize", "join", "closed", "remove"}
Opening == {"threads", "insert"}
Closing == {"finalize", "join", "closed", "remove"}

CountInv ==
  /\ open \subseteq Handle
  /\ IsFiniteSet(Counted) /\ num = Cardinality(Counted)
  /\ enable = Cardinality(Served \cap Notified)
  /\ \A h \in Handle : th[h].pc # "none" => h \in Served \cap Notified
  /\ \A h \in Handle \ (Served \cap Notified) : th[h] = NoThread
  /\ Served \cap Notified = {} => th[Rx] = NoThread

AloneInv ==
  /\ \A t \in App : th[t].pc \in Opening => th[t].h \notin open
  /\ \A t \in App : th[t].pc \in Closing => th[t].h \in open
  /\ \A t, u \in App : th[t].pc \in Exclusive /\ t # u => th[u].h # th[t].h

InfoRecord ==
  [polling : Seq(Mask), callbacks : Seq(Mask), queue : Seq(Item \ {EOF}),
   pending : Seq(Item \ {EOF}), lock : Thread \cup {NoOne}, finalizing : BOOLEAN,
   stage : {"live", "closing", "gone"}]

InfoOK ==
  /\ info \in [Handle -> InfoRecord]
  /\ \A h \in Handle : Len(info[h].queue) <= QueueLen

NetOK ==
  /\ recvLock \in {Rx, NoOne} /\ stream \in Seq(Item)
  /\ known \subseteq Handle /\ agent \in [Handle -> SUBSET Mask]

PastOK ==
  /\ held \subseteq Subscription
  /\ out \in [Handle -> Seq([how : {"polling", "callback"}, mask : Mask \cup {NoOne}, n : Ordinal])]
  /\ gone \subseteq Ordinal \cup {0} /\ cut \in BOOLEAN
  /\ scenario \in Scenarios /\ calls \in 0..scenario.calls
  /\ arrivals \in 0..scenario.events /\ losses \in 0..scenario.losses

(* The thread of a handle that has picked an event finds it at the head.   *)
NeedsEvent == {"pick", "calling", "delete", "progress", "unmatched"}
HeadInv == \A h \in Handle : th[h].pc \in NeedsEvent => info[h].pending # <<>>

TypeInv == ThreadInv /\ CountInv /\ AloneInv /\ InfoOK /\ NetOK /\ PastOK /\ HeadInv

-----------------------------------------------------------------------------
(* Records of threads.                                                     *)

LEMMA Names ==
  /\ \A t \in App : t \in Thread /\ t \notin Handle /\ t # Rx /\ t # NoOne
  /\ \A h \in Handle : h \in Thread /\ h \notin App /\ h # Rx /\ h # NoOne
  /\ Rx \in Thread /\ Rx \notin App /\ Rx \notin Handle /\ Rx # NoOne
  /\ \A t \in Thread : t \in App \/ t = Rx \/ t \in Handle
BY NamesAreDistinct DEF Thread

LEMMA RunningType ==
  ASSUME NEW pc \in PCs
  PROVE  Running(pc) \in ThreadRecord /\ Running(pc).item = EOF /\ Running(pc).pc = pc
         /\ Running(pc).h = NoOne /\ Running(pc).ret = "idle"
BY DEF Running, NoThread, ThreadRecord, Item, PCs

LEMMA FreshRecords ==
  /\ \A t \in App : WellFormed(t, Running("idle"))
  /\ \A t \in Thread \ App : WellFormed(t, NoThread)
  /\ \A h \in Handle : WellFormed(h, Running("start")) /\ WellFormed(h, Running("calling"))
  /\ WellFormed(Rx, Running("receive"))
<1>1. {"idle", "start", "calling", "receive", "none"} \subseteq PCs
  BY DEF PCs
<1>2. NoThread = Running("none")
  BY DEF NoThread, Running
<1>3. \A t \in App : WellFormed(t, Running("idle"))
  BY <1>1, RunningType, Names DEF WellFormed, AppRecord, Carries, AppPCs
<1>4. \A t \in Thread \ App : WellFormed(t, NoThread)
  BY <1>1, <1>2, RunningType, Names DEF WellFormed, CallbackRecord, Carries, RxPCs, CallbackPCs
<1>5. \A h \in Handle : WellFormed(h, Running("start")) /\ WellFormed(h, Running("calling"))
  BY <1>1, RunningType, Names DEF WellFormed, CallbackRecord, Carries, CallbackPCs
<1>6. WellFormed(Rx, Running("receive"))
  BY <1>1, RunningType, Names DEF WellFormed, Carries, RxPCs
<1> QED
  BY <1>3, <1>4, <1>5, <1>6

(* A thread goes on to where it carries as much.                           *)
LEMMA AppGoes ==
  ASSUME NEW t \in App, NEW r, WellFormed(t, r), r.pc # "idle",
         NEW pc \in AppPCs \ {"idle", "delete"},
         pc \in {"add", "subscribe"} => r.ret = "add",
         Carries(r) <=> pc \in {"lookup", "deliver", "push"}
  PROVE  WellFormed(t, [r EXCEPT !.pc = pc])
<1> DEFINE q == [r EXCEPT !.pc = pc]
<1>1. r \in ThreadRecord /\ AppRecord(r) /\ (Carries(r) <=> r.item # EOF)
  BY DEF WellFormed
<1>2. pc \in PCs
  BY DEF AppPCs, PCs
<1>3. q \in ThreadRecord
  BY <1>1, <1>2 DEF ThreadRecord
<1>4. /\ q.pc = pc /\ q.h = r.h /\ q.mask = r.mask /\ q.how = r.how /\ q.item = r.item
      /\ q.ret = r.ret
  BY <1>1 DEF ThreadRecord
<1> HIDE DEF q
<1>5. AppRecord(q)
  BY <1>1, <1>4 DEF AppRecord
<1>6. WellFormed(t, q)
  BY <1>1, <1>3, <1>4, <1>5, Names DEF WellFormed, Carries
<1> QED
  BY <1>6 DEF q

LEMMA RxGoes ==
  ASSUME NEW r, WellFormed(Rx, r), NEW pc \in RxPCs,
         Carries(r) <=> pc \in {"lookup", "deliver", "push"}
  PROVE  WellFormed(Rx, [r EXCEPT !.pc = pc])
<1> DEFINE q == [r EXCEPT !.pc = pc]
<1>1. r \in ThreadRecord /\ (Carries(r) <=> r.item # EOF)
  BY Names DEF WellFormed
<1>2. pc \in PCs
  BY DEF RxPCs, PCs
<1>3. q \in ThreadRecord /\ q.pc = pc /\ q.item = r.item
  BY <1>1, <1>2 DEF ThreadRecord
<1> HIDE DEF q
<1>4. WellFormed(Rx, q)
  BY <1>1, <1>3, Names DEF WellFormed, Carries
<1> QED
  BY <1>4 DEF q

LEMMA CallbackGoes ==
  ASSUME NEW h \in Handle, NEW r, WellFormed(h, r), NEW pc \in CallbackPCs \ {"delete"},
         pc = "progress" => r.pc = "delete"
  PROVE  WellFormed(h, [r EXCEPT !.pc = pc])
<1> DEFINE q == [r EXCEPT !.pc = pc]
<1>1. r \in ThreadRecord /\ (Carries(r) <=> r.item # EOF) /\ CallbackRecord(h, r)
  BY Names DEF WellFormed
<1>2. pc \in PCs
  BY DEF CallbackPCs, PCs
<1>3. q \in ThreadRecord /\ q.pc = pc /\ q.item = r.item /\ q.h = r.h /\ q.ret = r.ret
  BY <1>1, <1>2 DEF ThreadRecord
<1> HIDE DEF q
<1>4. ~ Carries(r) /\ ~ Carries(q)
  BY <1>1, <1>3 DEF Carries, CallbackRecord, CallbackPCs
<1>5. CallbackRecord(h, q)
  BY <1>1, <1>3 DEF CallbackRecord
<1>6. WellFormed(h, q)
  BY <1>1, <1>3, <1>4, <1>5, Names DEF WellFormed
<1> QED
  BY <1>6 DEF q

-----------------------------------------------------------------------------
(* Steps that change one thread.                                           *)

(* How many events there are is settled at first.                          *)
LEMMA Lasting ==
  ASSUME scenario' = scenario
  PROVE  /\ Item' = Item /\ ThreadRecord' = ThreadRecord
         /\ \A t : WellFormed(t, th[t])' <=> WellFormed(t, th'[t])
<1>1. Item' = Item
  BY DEF Item, Ordinal
<1>2. ThreadRecord' = ThreadRecord
  BY <1>1 DEF ThreadRecord
<1> QED
  BY <1>1, <1>2 DEF WellFormed

(* One thread goes on, and wakes others up at most.                        *)
Wakes(u) == u \in Handle /\ th[u].pc = "waiting" /\ th'[u] = [th[u] EXCEPT !.pc = "woken"]

Moves(t, r) ==
  /\ th' = [u \in Thread |-> th'[u]]
  /\ th'[t] = r
  /\ \A u \in Thread \ {t} : th'[u] = th[u] \/ Wakes(u)

LEMMA MovesAlone ==
  ASSUME ThreadInv, NEW t \in Thread, NEW r, th' = [th EXCEPT ![t] = r]
  PROVE  Moves(t, r)
<1>1. th \in [Thread -> ThreadRecord]
  BY DEF ThreadInv
<1> QED
  BY <1>1 DEF Moves

LEMMA MovesSignals ==
  ASSUME ThreadInv, NEW t \in Thread, NEW r, NEW h \in Handle, h # t,
         th' = Signal(h, [th EXCEPT ![t] = r])
  PROVE  Moves(t, r)
<1>1. th \in [Thread -> ThreadRecord] /\ h \in Thread
  BY Names DEF ThreadInv
<1> QED
  BY <1>1 DEF Moves, Signal, Wakes

LEMMA ThreadStep ==
  ASSUME ThreadInv, scenario' = scenario, NEW t \in Thread, NEW r, WellFormed(t, r), Moves(t, r)
  PROVE  ThreadInv'
<1>1. th \in [Thread -> ThreadRecord] /\ \A u \in Thread : WellFormed(u, th[u])
  BY DEF ThreadInv
<1>2. \A u \in Thread : WellFormed(u, th'[u])
  <2> SUFFICES ASSUME NEW u \in Thread PROVE WellFormed(u, th'[u])
    OBVIOUS
  <2>1. CASE Wakes(u)
    <3>1. "woken" \in CallbackPCs \ {"delete"}
      BY DEF CallbackPCs
    <3>2. WellFormed(u, [th[u] EXCEPT !.pc = "woken"])
      BY <1>1, <2>1, <3>1, CallbackGoes DEF Wakes
    <3> QED
      BY <2>1, <3>2 DEF Wakes
  <2> QED
    BY <1>1, <2>1 DEF Moves
<1>3. \A u \in Thread : WellFormed(u, th[u])'
  BY <1>2, Lasting
<1>4. th' \in [Thread -> ThreadRecord]
  BY <1>2 DEF Moves, WellFormed
<1>5. ThreadRecord' = ThreadRecord
  BY Lasting
<1> QED
  BY <1>3, <1>4, <1>5 DEF ThreadInv

(* A thread of the application, which neither begins nor ends to open a    *)
(* handle.                                                                 *)
CanUse(t, r) == \A u \in App \ {t} : th[u].h = r.h => th[u].pc \notin Exclusive /\ r.pc \notin Exclusive

LEMMA KeepsHandle ==
  ASSUME ThreadInv, AloneInv, NEW t \in App, NEW r,
         \/ r.h = th[t].h /\ (r.pc \in Exclusive => th[t].pc \in Exclusive)
         \/ r.h = NoOne /\ r.pc = "idle"
  PROVE  CanUse(t, r)
<1> SUFFICES ASSUME NEW u \in App \ {t}, th[u].h = r.h
             PROVE  th[u].pc \notin Exclusive /\ r.pc \notin Exclusive
  BY DEF CanUse
<1>1. CASE r.h = th[t].h /\ (r.pc \in Exclusive => th[t].pc \in Exclusive)
  BY <1>1 DEF AloneInv
<1>2. CASE r.h = NoOne /\ r.pc = "idle"
  BY <1>2, Names DEF ThreadInv, WellFormed, AppRecord, Exclusive
<1> QED
  BY <1>1, <1>2

LEMMA AppStep ==
  ASSUME ThreadInv, CountInv, AloneInv, NEW t \in App, NEW r, WellFormed(t, r),
         Moves(t, r), UNCHANGED <<open, counts, scenario>>,
         th[t].pc \notin Opening, r.pc \notin Opening, r.pc \in Closing => r.h \in open,
         CanUse(t, r)
  PROVE  ThreadInv' /\ CountInv' /\ AloneInv'
<1>1. ThreadInv'
  BY ThreadStep, Names
<1>2. \A u \in App : th'[u] = IF u = t THEN r ELSE th[u]
  BY Names DEF Moves, Wakes
<1>3. OfThreads({"threads", "insert"})' = OfThreads({"threads", "insert"})
  BY <1>2, Names DEF OfThreads, Opening
<1>4. OfThreads({"insert"})' = OfThreads({"insert"})
  BY <1>2, Names DEF OfThreads, Opening
<1>5. Counted' = Counted /\ Served' = Served
  BY <1>3, <1>4 DEF Counted, Served
<1>6. CountInv'
  <2>1. \A h \in Handle : th'[h] = th[h] \/ (Wakes(h) /\ h \in Served \cap Notified)
    BY Names DEF Moves, Wakes, CountInv
  <2>2. th'[Rx] = th[Rx]
    BY Names DEF Moves, Wakes
  <2> QED
    BY <1>5, <2>1, <2>2 DEF CountInv, counts
<1>7. AloneInv'
  BY <1>2, Names DEF AloneInv, CanUse
<1> QED
  BY <1>1, <1>6, <1>7

(* The other threads, while they run.                                      *)
LEMMA OtherStep ==
  ASSUME ThreadInv, CountInv, AloneInv, NEW t \in Thread \ App, NEW r, WellFormed(t, r),
         Moves(t, r), UNCHANGED <<open, counts, scenario>>, th[t].pc # "none"
  PROVE  ThreadInv' /\ CountInv' /\ AloneInv'
<1>1. ThreadInv'
  BY ThreadStep
<1>2. \A u \in Thread : th'[u] = (IF u = t THEN r ELSE th[u]) \/ Wakes(u)
  BY DEF Moves
<1>3. \A u \in App : th'[u] = th[u]
  BY Names DEF Moves, Wakes
<1>4. Counted' = Counted /\ Served' = Served
  BY <1>3 DEF Counted, Served, OfThreads
<1>5. CountInv'
  <2>1. NoThread.pc = "none"
    BY DEF NoThread
  <2>2. \A h \in Handle : h = t \/ Wakes(h) => h \in Served \cap Notified
    BY DEF CountInv, Wakes
  <2>3. t = Rx => Served \cap Notified # {}
    BY <2>1 DEF CountInv
  <2>4. \A h \in Handle : th'[h] = th[h] \/ h \in Served \cap Notified
    BY <1>2, <2>2, Names
  <2>5. th'[Rx] = th[Rx] \/ Served \cap Notified # {}
    BY <1>2, <2>3, Names DEF Wakes
  <2> QED
    BY <1>4, <2>4, <2>5 DEF CountInv, counts
<1>6. AloneInv'
  BY <1>3 DEF AloneInv
<1> QED
  BY <1>1, <1>5, <1>6

(* Where threads stay, and handles too.                                    *)
LEMMA ThreadsStay ==
  ASSUME ThreadInv, CountInv, AloneInv, UNCHANGED <<open, counts, th, scenario>>
  PROVE  ThreadInv' /\ CountInv' /\ AloneInv'
<1>1. ThreadInv'
  <2>1. \A t \in Thread : th'[t] = th[t]
    OBVIOUS
  <2>2. \A t \in Thread : WellFormed(t, th[t])'
    BY <2>1, Lasting DEF ThreadInv
  <2> QED
    BY <2>2, Lasting DEF ThreadInv
<1>2. Counted' = Counted /\ Served' = Served
  BY DEF Counted, Served, OfThreads
<1>3. CountInv'
  BY <1>2 DEF CountInv, counts
<1>4. AloneInv'
  BY DEF AloneInv
<1> QED
  BY <1>1, <1>3, <1>4

-----------------------------------------------------------------------------
(* Handles come and go.                                                    *)

LEMMA CallsMeans ==
  ASSUME ThreadInv, NEW t \in App, NEW r, Calls(t, r),
         r.pc \in Exclusive => r.pc \in {"threads", "finalize"}
  PROVE  /\ th[t].pc = "idle" /\ Moves(t, r) /\ CanUse(t, r) /\ scenario' = scenario
         /\ r.pc \in Exclusive => \A u \in App \ {t} : th[u].h # r.h
<1>1. Moves(t, r)
  BY MovesAlone, Names DEF Calls
<1> QED
  BY <1>1 DEF Calls, Is, CanUse, Exclusive

LEMMA CalledRecord ==
  ASSUME NEW t \in App, NEW h \in Handle, NEW pc \in AppPCs \ {"idle", "add", "subscribe"},
         pc \notin {"lookup", "deliver", "push", "delete"}
  PROVE  WellFormed(t, [Running(pc) EXCEPT !.h = h])
<1>1. pc \in PCs
  BY DEF AppPCs, PCs
<1> DEFINE q == [Running(pc) EXCEPT !.h = h]
<1>2. q \in ThreadRecord /\ q.item = EOF /\ q.pc = pc /\ q.ret = "idle" /\ q.h = h
  BY <1>1, RunningType DEF ThreadRecord
<1> HIDE DEF q
<1>3. WellFormed(t, q)
  BY <1>2, Names DEF WellFormed, AppRecord, Carries
<1> QED
  BY <1>3 DEF q

LEMMA ConnectThreads ==
  ASSUME ThreadInv, CountInv, AloneInv, NEW t \in App, NEW h \in Handle, Connect(t, h)
  PROVE  ThreadInv' /\ CountInv' /\ AloneInv'
<1> DEFINE r == [Running("threads") EXCEPT !.h = h]
<1>1. "threads" \in AppPCs \ {"idle", "add", "subscribe"}
  BY DEF AppPCs
<1>2. WellFormed(t, r) /\ r.pc = "threads" /\ r.h = h
  BY <1>1, CalledRecord DEF Running, NoThread
<1>3. Calls(t, r) /\ h \notin open /\ UNCHANGED <<open, enable>> /\ num' = num + 1
  BY DEF Connect
<1> HIDE DEF r
<1>4. /\ th[t].pc = "idle" /\ Moves(t, r) /\ scenario' = scenario
      /\ \A u \in App \ {t} : th[u].h # h
  BY <1>2, <1>3, CallsMeans DEF Exclusive
<1>5. \A u \in App : th'[u] = IF u = t THEN r ELSE th[u]
  BY <1>4, Names DEF Moves, Wakes
<1>6. ThreadInv'
  BY <1>2, <1>4, ThreadStep, Names
<1>7. OfThreads(Opening)' = OfThreads(Opening) \cup {h} /\ h \notin OfThreads(Opening)
  BY <1>2, <1>4, <1>5 DEF OfThreads, Opening
<1>8. Counted' = Counted \cup {h} /\ h \notin Counted
  BY <1>3, <1>7 DEF Counted, Opening
<1>9. Served' = Served
  BY <1>2, <1>3, <1>4, <1>5 DEF Served, OfThreads
<1>10. IsFiniteSet(Counted') /\ num' = Cardinality(Counted')
  BY <1>3, <1>8, FS_AddElement DEF CountInv
<1>11. CountInv'
  <2>1. \A k \in Handle : th'[k] = th[k] \/ (Wakes(k) /\ k \in Served \cap Notified)
    BY <1>4, Names DEF Moves, Wakes, CountInv
  <2>2. th'[Rx] = th[Rx]
    BY <1>4, Names DEF Moves, Wakes
  <2> QED
    BY <1>3, <1>9, <1>10, <2>1, <2>2 DEF CountInv
<1>12. AloneInv'
  BY <1>2, <1>3, <1>4, <1>5 DEF AloneInv, Closing
<1> QED
  BY <1>6, <1>11, <1>12

LEMMA StartThreadsThreads ==
  ASSUME ThreadInv, CountInv, AloneInv, NEW t \in App, StartThreads(t)
  PROVE  ThreadInv' /\ CountInv' /\ AloneInv'
<1> DEFINE h == th[t].h
           r == [th[t] EXCEPT !.pc = "insert"]
<1>1. th[t].pc = "threads" /\ UNCHANGED <<open, num, scenario>> /\ h \notin open
  BY DEF StartThreads, Is, Within, bounds, AloneInv, Opening
<1>2. WellFormed(t, th[t]) /\ h \in Handle
  BY <1>1, Names DEF ThreadInv, WellFormed, AppRecord
<1>3. WellFormed(t, r)
  <2>1. "insert" \in AppPCs \ {"idle", "delete"}
    BY DEF AppPCs
  <2> QED
    BY <1>1, <1>2, <2>1, AppGoes DEF Carries
<1>4. th \in [Thread -> ThreadRecord] /\ t \in Thread /\ h \in Thread /\ h # t
  BY <1>2, Names DEF ThreadInv
<1>5. /\ th' = [u \in Thread |-> th'[u]]
      /\ th'[t] = r
      /\ \A u \in Thread \ {t} :
           \/ th'[u] = th[u] /\ (u = h => h \notin Notified)
           \/ u = h /\ h \in Notified /\ th'[u] = Running("start")
           \/ u = Rx /\ h \in Notified /\ th'[u] = Running("receive")
  BY <1>4, Names DEF StartThreads, Goes
<1>6. /\ h \in Notified => enable' = enable + 1
      /\ h \notin Notified => enable' = enable
  BY DEF StartThreads
<1>7. r.pc = "insert" /\ r.h = h
  BY <1>2 DEF WellFormed, ThreadRecord
<1> HIDE DEF r, h
<1>8. \A u \in Thread : WellFormed(u, th'[u])
  BY <1>3, <1>5, <1>2, FreshRecords, Names DEF ThreadInv
<1>9. ThreadInv'
  <2>1. th' \in [Thread -> ThreadRecord]
    BY <1>5, <1>8 DEF WellFormed
  <2>2. \A u \in Thread : WellFormed(u, th[u])'
    BY <1>1, <1>8, Lasting
  <2> QED
    BY <1>1, <2>1, <2>2, Lasting DEF ThreadInv
<1>10. \A u \in App : th'[u] = IF u = t THEN r ELSE th[u]
  BY <1>2, <1>5, Names
<1>11. \A u \in App \ {t} : th[u].h # h
  BY <1>1 DEF AloneInv, Exclusive, h
<1>12. OfThreads({"threads", "insert"})' = OfThreads({"threads", "insert"})
  BY <1>1, <1>7, <1>10 DEF OfThreads, h
<1>13. OfThreads({"insert"})' = OfThreads({"insert"}) \cup {h} /\ h \notin OfThreads({"insert"})
  BY <1>1, <1>7, <1>10, <1>11 DEF OfThreads
<1>14. Counted' = Counted /\ Served' = Served \cup {h} /\ h \notin Served /\ Served \subseteq Counted
  BY <1>1, <1>12, <1>13 DEF Counted, Served, OfThreads
<1>15. enable' = Cardinality(Served' \cap Notified)
  <2>1. IsFiniteSet(Served \cap Notified)
    BY <1>14, FS_Subset DEF CountInv
  <2>2. CASE h \in Notified
    <3>1. Served' \cap Notified = (Served \cap Notified) \cup {h} /\ h \notin Served \cap Notified
      BY <1>14, <2>2
    <3> QED
      BY <1>6, <2>1, <2>2, <3>1, FS_AddElement DEF CountInv
  <2>3. CASE h \notin Notified
    <3>1. Served' \cap Notified = Served \cap Notified
      BY <1>14, <2>3
    <3> QED
      BY <1>6, <2>3, <3>1 DEF CountInv
  <2> QED
    BY <2>2, <2>3
<1>16. CountInv'
  <2>1. \A k \in Handle : th'[k] = th[k] \/ (k = h /\ h \in Notified)
    BY <1>5, Names
  <2>2. th'[Rx] = th[Rx] \/ h \in Notified
    BY <1>5, Names
  <2> QED
    BY <1>1, <1>14, <1>15, <2>1, <2>2 DEF CountInv
<1>17. AloneInv'
  BY <1>1, <1>7, <1>10, <1>11 DEF AloneInv, Opening, Closing, Exclusive
<1> QED
  BY <1>9, <1>16, <1>17

LEMMA InsertThreads ==
  ASSUME ThreadInv, CountInv, AloneInv, NEW t \in App, Insert(t)
  PROVE  ThreadInv' /\ CountInv' /\ AloneInv'
<1> DEFINE h == th[t].h
           r == [th[t] EXCEPT !.pc = "register"]
<1>1. th[t].pc = "insert" /\ UNCHANGED <<counts, scenario>> /\ h \notin open /\ open' = open \cup {h}
  BY DEF Insert, Is, Within, bounds, AloneInv, Opening
<1>2. WellFormed(t, th[t]) /\ h \in Handle
  BY <1>1, Names DEF ThreadInv, WellFormed, AppRecord
<1>3. WellFormed(t, r)
  <2>1. "register" \in AppPCs \ {"idle", "delete"}
    BY DEF AppPCs
  <2> QED
    BY <1>1, <1>2, <2>1, AppGoes DEF Carries
<1>4. Moves(t, r)
  BY MovesAlone, Names DEF Insert, Goes
<1>5. r.pc = "register" /\ r.h = h
  BY <1>2 DEF WellFormed, ThreadRecord
<1> HIDE DEF r
<1>6. ThreadInv'
  BY <1>1, <1>3, <1>4, ThreadStep, Names
<1>7. \A u \in App : th'[u] = IF u = t THEN r ELSE th[u]
  BY <1>4, Names DEF Moves, Wakes
<1>8. \A u \in App \ {t} : th[u].h # h
  BY <1>1 DEF AloneInv, Exclusive
<1>9. OfThreads({"threads", "insert"}) = OfThreads({"threads", "insert"})' \cup {h}
  BY <1>1, <1>5, <1>7 DEF OfThreads
<1>10. OfThreads({"insert"}) = OfThreads({"insert"})' \cup {h}
  BY <1>1, <1>5, <1>7 DEF OfThreads
<1>11. Counted' = Counted /\ Served' = Served
  BY <1>1, <1>9, <1>10 DEF Counted, Served
<1>12. CountInv'
  <2>1. \A k \in Handle : th'[k] = th[k] \/ (Wakes(k) /\ k \in Served \cap Notified)
    BY <1>4, Names DEF Moves, Wakes, CountInv
  <2>2. th'[Rx] = th[Rx]
    BY <1>4, Names DEF Moves, Wakes
  <2> QED
    BY <1>1, <1>2, <1>11, <2>1, <2>2 DEF CountInv, counts
<1>13. AloneInv'
  BY <1>1, <1>5, <1>7, <1>8 DEF AloneInv, Opening, Closing, Exclusive
<1> QED
  BY <1>6, <1>12, <1>13

LEMMA RemoveThreads ==
  ASSUME ThreadInv, CountInv, AloneInv, NEW t \in App, RemoveHandle(t)
  PROVE  ThreadInv' /\ CountInv' /\ AloneInv'
<1> DEFINE h == th[t].h
           r == [th[t] EXCEPT !.pc = "progress", !.ret = "idle"]
<1>1. th[t].pc = "remove" /\ scenario' = scenario /\ h \in open
  BY DEF RemoveHandle, Is, Within, bounds, AloneInv, Closing
<1>2. WellFormed(t, th[t]) /\ h \in Handle /\ t \in Thread
  BY <1>1, Names DEF ThreadInv, WellFormed, AppRecord
<1>3. r \in ThreadRecord /\ r.pc = "progress" /\ r.ret = "idle" /\ r.h = h /\ r.item = EOF
  <2>1. th[t] \in ThreadRecord /\ "progress" \in PCs /\ th[t].item = EOF
    BY <1>1, <1>2 DEF WellFormed, PCs, Carries
  <2> QED
    BY <2>1 DEF ThreadRecord
<1>4. /\ open' = open \ {h} /\ num' = num - 1
      /\ enable' = IF h \in Notified THEN enable - 1 ELSE enable
      /\ th' = [u \in Thread |-> th'[u]]
      /\ th'[t] = r
      /\ \A u \in Thread \ {t} :
           \/ th'[u] = th[u] /\ u # h /\ (u = Rx => h \notin Notified \/ enable # 1)
           \/ u = h /\ th'[u] = NoThread
           \/ u = Rx /\ h \in Notified /\ enable = 1 /\ th'[u] = NoThread
  BY <1>2, Names DEF RemoveHandle
<1> HIDE DEF r, h
<1>5. WellFormed(t, r)
  BY <1>2, <1>3, Names DEF WellFormed, AppRecord, AppPCs, Carries
<1>6. \A u \in Thread : WellFormed(u, th'[u])
  BY <1>2, <1>4, <1>5, FreshRecords, Names DEF ThreadInv
<1>7. ThreadInv'
  <2>1. th' \in [Thread -> ThreadRecord]
    BY <1>4, <1>6 DEF WellFormed
  <2>2. \A u \in Thread : WellFormed(u, th[u])'
    BY <1>1, <1>6, Lasting
  <2> QED
    BY <1>1, <2>1, <2>2, Lasting DEF ThreadInv
<1>8. \A u \in App : th'[u] = IF u = t THEN r ELSE th[u]
  BY <1>2, <1>4, Names
<1>9. \A u \in App \ {t} : th[u].h # h
  BY <1>1 DEF AloneInv, Exclusive, h
<1>10. OfThreads({"threads", "insert"})' = OfThreads({"threads", "insert"})
       /\ h \notin OfThreads({"threads", "insert"})
  BY <1>1, <1>3, <1>8, <1>9 DEF OfThreads
<1>11. OfThreads({"insert"})' = OfThreads({"insert"}) /\ h \notin OfThreads({"insert"})
  BY <1>1, <1>3, <1>8, <1>9 DEF OfThreads
<1>12. /\ Counted' = Counted \ {h} /\ h \in Counted
       /\ Served' = Served \ {h} /\ h \in Served /\ Served \subseteq Counted
  BY <1>1, <1>4, <1>10, <1>11 DEF Counted, Served, OfThreads
<1>13. IsFiniteSet(Counted') /\ num' = Cardinality(Counted')
  <2>1. IsFiniteSet(Counted')
    BY <1>12, FS_RemoveElement DEF CountInv
  <2>2. Cardinality(Counted \ {h}) = Cardinality(Counted) - 1
    BY <1>12, FS_RemoveElement DEF CountInv
  <2> QED
    BY <1>4, <1>12, <2>1, <2>2 DEF CountInv
<1>14. IsFiniteSet(Served \cap Notified)
  BY <1>12, FS_Subset DEF CountInv
<1>15. enable' = Cardinality(Served' \cap Notified)
  <2>1. CASE h \in Notified
    <3>1. Served' \cap Notified = (Served \cap Notified) \ {h} /\ h \in Served \cap Notified
      BY <1>12, <2>1
    <3>2. Cardinality((Served \cap Notified) \ {h}) = Cardinality(Served \cap Notified) - 1
      BY <1>14, <3>1, FS_RemoveElement
    <3> QED
      BY <1>4, <2>1, <3>1, <3>2 DEF CountInv
  <2>2. CASE h \notin Notified
    <3>1. Served' \cap Notified = Served \cap Notified
      BY <1>12, <2>2
    <3> QED
      BY <1>4, <2>2, <3>1 DEF CountInv
  <2> QED
    BY <2>1, <2>2
<1>16. Served' \cap Notified = {} => th'[Rx] = NoThread
  <2> SUFFICES ASSUME Served' \cap Notified = {} PROVE th'[Rx] = NoThread
    OBVIOUS
  <2>1. CASE h \in Notified
    <3>1. Served \cap Notified = {h}
      BY <1>12, <2>1
    <3>2. enable = 1
      BY <3>1, FS_Singleton DEF CountInv
    <3> QED
      BY <1>2, <1>4, <2>1, <3>2, Names
  <2>2. CASE h \notin Notified
    <3>1. Served \cap Notified = {}
      BY <1>12, <2>2
    <3> QED
      BY <1>2, <1>4, <3>1, Names DEF CountInv
  <2> QED
    BY <2>1, <2>2
<1>17. \A k \in Handle : (th'[k] = th[k] /\ k # h) \/ th'[k] = NoThread
  BY <1>2, <1>4, Names
<1>18. CountInv'
  <2>1. NoThread.pc = "none"
    BY DEF NoThread
  <2>2. \A k \in Handle : th'[k].pc # "none" => k \in Served' \cap Notified
    BY <1>12, <1>17, <2>1 DEF CountInv
  <2>3. \A k \in Handle \ (Served' \cap Notified) : th'[k] = NoThread
    BY <1>12, <1>17 DEF CountInv
  <2>4. open' \subseteq Handle
    BY <1>4 DEF CountInv
  <2> QED
    BY <1>13, <1>15, <1>16, <2>2, <2>3, <2>4 DEF CountInv
<1>19. AloneInv'
  BY <1>1, <1>3, <1>4, <1>8, <1>9 DEF AloneInv, Opening, Closing, Exclusive
<1> QED
  BY <1>7, <1>18, <1>19

-----------------------------------------------------------------------------
(* The other steps of the application's threads.                           *)

(* To FTBCI_Check_progress, and back.                                      *)
LEMMA AppProgress ==
  ASSUME NEW t \in App, NEW r, WellFormed(t, r), r.pc # "idle", ~ Carries(r),
         NEW ret, ret = "idle" \/ ret = r.ret
  PROVE  WellFormed(t, [r EXCEPT !.pc = "progress", !.ret = ret])
<1> DEFINE q == [r EXCEPT !.pc = "progress", !.ret = ret]
<1>1. r \in ThreadRecord /\ AppRecord(r) /\ r.item = EOF
  BY DEF WellFormed
<1>2. "progress" \in PCs
  BY DEF PCs
<1>3. q \in ThreadRecord
  BY <1>1, <1>2 DEF ThreadRecord
<1>4. /\ q.pc = "progress" /\ q.h = r.h /\ q.mask = r.mask /\ q.how = r.how /\ q.item = EOF
      /\ q.ret = ret
  BY <1>1 DEF ThreadRecord
<1> HIDE DEF q
<1>5. AppRecord(q)
  BY <1>1, <1>4 DEF AppRecord, AppPCs
<1>6. WellFormed(t, q)
  BY <1>3, <1>4, <1>5, Names DEF WellFormed, Carries
<1> QED
  BY <1>6 DEF q

Resumed(r) == IF r.ret \in {"idle", "calling"} THEN Running(r.ret) ELSE [r EXCEPT !.pc = r.ret]

LEMMA AppResumes ==
  ASSUME NEW t \in App, NEW r, WellFormed(t, r), r.pc # "idle", ~ Carries(r)
  PROVE  /\ WellFormed(t, Resumed(r))
         /\ Resumed(r).pc \in {"idle", "add", "look"}
         /\ Resumed(r).h = r.h \/ (Resumed(r).h = NoOne /\ Resumed(r).pc = "idle")
<1>1. r \in ThreadRecord /\ AppRecord(r) /\ r.item = EOF
  BY DEF WellFormed
<1>2. CASE r.ret = "idle"
  <2>1. Resumed(r) = Running("idle")
    BY <1>2 DEF Resumed
  <2>2. "idle" \in PCs
    BY DEF PCs
  <2> QED
    BY <2>1, <2>2, RunningType, FreshRecords
<1>3. CASE r.ret # "idle"
  <2>1. r.ret \in {"add", "look"}
    BY <1>1, <1>3 DEF ThreadRecord, AppRecord
  <2>2. Resumed(r) = [r EXCEPT !.pc = r.ret] /\ Resumed(r).pc = r.ret /\ Resumed(r).h = r.h
    BY <1>1, <2>1 DEF Resumed, ThreadRecord
  <2>3. r.ret \in AppPCs \ {"idle", "delete"} /\ r.ret # "subscribe"
    BY <2>1 DEF AppPCs
  <2>4. WellFormed(t, [r EXCEPT !.pc = r.ret])
    BY <2>1, <2>3, AppGoes
  <2> QED
    BY <2>1, <2>2, <2>4
<1> QED
  BY <1>2, <1>3

(* FTBC_Subscribe_with_polling and _with_callback, FTBC_Poll_event,        *)
(* FTBC_Unsubscribe, FTBC_Disconnect.                                      *)
LEMMA NewCalls ==
  ASSUME NEW t \in App, NEW s \in Subscription
  PROVE  /\ WellFormed(t, [Running("progress") EXCEPT !.h = s.h, !.mask = s.mask, !.how = s.how,
                                                      !.ret = "add"])
         /\ WellFormed(t, [Running("progress") EXCEPT !.h = s.h, !.mask = s.mask, !.ret = "look"])
         /\ WellFormed(t, [Running("delete") EXCEPT !.h = s.h, !.mask = s.mask])
<1>1. /\ s.h \in Handle /\ s.mask \in Mask /\ s.how \in {"polling", "callback"}
      /\ [h |-> s.h, mask |-> s.mask, how |-> s.how] = s
  BY DEF Subscription, Handle
<1>2. \A pc \in {"progress", "delete"} :
        Running(pc) \in ThreadRecord /\ Running(pc).item = EOF /\ Running(pc).pc = pc
        /\ Running(pc).ret = "idle"
  BY RunningType DEF PCs
<1> DEFINE q1 == [Running("progress") EXCEPT !.h = s.h, !.mask = s.mask, !.how = s.how,
                                             !.ret = "add"]
           q2 == [Running("progress") EXCEPT !.h = s.h, !.mask = s.mask, !.ret = "look"]
           q3 == [Running("delete") EXCEPT !.h = s.h, !.mask = s.mask]
<1>3. q1 \in ThreadRecord /\ q1.pc = "progress" /\ q1.h = s.h /\ q1.mask = s.mask
      /\ q1.how = s.how /\ q1.ret = "add" /\ q1.item = EOF
  BY <1>1, <1>2 DEF ThreadRecord
<1>4. q2 \in ThreadRecord /\ q2.pc = "progress" /\ q2.h = s.h /\ q2.ret = "look" /\ q2.item = EOF
  BY <1>1, <1>2 DEF ThreadRecord
<1>5. q3 \in ThreadRecord /\ q3.pc = "delete" /\ q3.h = s.h /\ q3.mask = s.mask
      /\ q3.ret = "idle" /\ q3.item = EOF
  BY <1>1, <1>2 DEF ThreadRecord
<1> HIDE DEF q1, q2, q3
<1>6. WellFormed(t, q1)
  BY <1>1, <1>3, Names DEF WellFormed, AppRecord, AppPCs, Carries
<1>7. WellFormed(t, q2)
  BY <1>1, <1>4, Names DEF WellFormed, AppRecord, AppPCs, Carries
<1>8. WellFormed(t, q3)
  BY <1>1, <1>5, Names DEF WellFormed, AppRecord, AppPCs, Carries
<1> QED
  BY <1>6, <1>7, <1>8 DEF q1, q2, q3

LEMMA CallsThreads ==
  ASSUME ThreadInv, CountInv, AloneInv, NEW t \in App, NEW r, WellFormed(t, r), Calls(t, r),
         r.pc \in {"progress", "delete"} \/ (r.pc = "finalize" /\ r.h \in open),
         UNCHANGED <<open, counts>>
  PROVE  ThreadInv' /\ CountInv' /\ AloneInv'
<1>1. /\ th[t].pc = "idle" /\ Moves(t, r) /\ CanUse(t, r) /\ scenario' = scenario
  BY CallsMeans DEF Exclusive
<1> QED
  BY <1>1, AppStep DEF Opening, Closing

LEMMA CallThreads ==
  ASSUME TypeInv, NEW t \in App,
         \/ \E h \in Handle : Connect(t, h) \/ Disconnect(t, h)
         \/ \E s \in Subscription : Subscribe(t, s) \/ Unsubscribe(t, s) \/ Poll(t, s)
  PROVE  ThreadInv' /\ CountInv' /\ AloneInv'
<1> USE DEF TypeInv
<1>1. ASSUME NEW h \in Handle, Connect(t, h) PROVE ThreadInv' /\ CountInv' /\ AloneInv'
  BY <1>1, ConnectThreads
<1>2. ASSUME NEW h \in Handle, Disconnect(t, h) PROVE ThreadInv' /\ CountInv' /\ AloneInv'
  <2> DEFINE r == [Running("finalize") EXCEPT !.h = h]
  <2>1. "finalize" \in AppPCs \ {"idle", "add", "subscribe"}
    BY DEF AppPCs
  <2>2. WellFormed(t, r) /\ r.pc = "finalize" /\ r.h = h
    BY <2>1, CalledRecord DEF Running, NoThread
  <2>3. Calls(t, r) /\ h \in open /\ UNCHANGED <<open, counts>>
    BY <1>2 DEF Disconnect
  <2> HIDE DEF r
  <2> QED
    BY <2>2, <2>3, CallsThreads
<1>3. ASSUME NEW s \in Subscription, Subscribe(t, s) PROVE ThreadInv' /\ CountInv' /\ AloneInv'
  <2> DEFINE r == [Running("progress") EXCEPT !.h = s.h, !.mask = s.mask, !.how = s.how,
                                              !.ret = "add"]
  <2>1. WellFormed(t, r) /\ r.pc = "progress"
    BY NewCalls DEF Running, NoThread
  <2>2. Calls(t, r) /\ UNCHANGED <<open, counts>>
    BY <1>3 DEF Subscribe
  <2> HIDE DEF r
  <2> QED
    BY <2>1, <2>2, CallsThreads
<1>4. ASSUME NEW s \in Subscription, Unsubscribe(t, s) PROVE ThreadInv' /\ CountInv' /\ AloneInv'
  <2> DEFINE r == [Running("delete") EXCEPT !.h = s.h, !.mask = s.mask]
  <2>1. WellFormed(t, r) /\ r.pc = "delete"
    BY NewCalls DEF Running, NoThread
  <2>2. Calls(t, r) /\ UNCHANGED <<open, counts>>
    BY <1>4 DEF Unsubscribe
  <2> HIDE DEF r
  <2> QED
    BY <2>1, <2>2, CallsThreads
<1>5. ASSUME NEW s \in Subscription, Poll(t, s) PROVE ThreadInv' /\ CountInv' /\ AloneInv'
  <2> DEFINE r == [Running("progress") EXCEPT !.h = s.h, !.mask = s.mask, !.ret = "look"]
  <2>1. WellFormed(t, r) /\ r.pc = "progress"
    BY NewCalls DEF Running, NoThread
  <2>2. Calls(t, r) /\ UNCHANGED <<open, counts>>
    BY <1>5 DEF Poll
  <2> HIDE DEF r
  <2> QED
    BY <2>1, <2>2, CallsThreads
<1> QED
  BY <1>1, <1>2, <1>3, <1>4, <1>5

(* What a thread does by itself.                                           *)
LEMMA AppThread ==
  ASSUME TypeInv, NEW t \in App, th[t].pc # "idle"
  PROVE  WellFormed(t, th[t]) /\ th[t] \in ThreadRecord /\ AppRecord(th[t]) /\ th[t].h \in Handle
BY Names DEF TypeInv, ThreadInv, WellFormed, AppRecord

(* Steps of a thread t that is busy with handle h, from pc to pc.          *)
LEMMA BusyStep ==
  ASSUME TypeInv, NEW t \in App, NEW r, WellFormed(t, r), Moves(t, r),
         UNCHANGED <<open, counts, scenario>>,
         th[t].pc \notin {"idle", "threads", "insert"},
         \/ r.h = th[t].h /\ r.pc \in {"add", "subscribe", "delete", "progress", "grab", "lookup",
                                       "deliver", "push", "reconnect", "look", "polled"}
         \/ r.h = th[t].h /\ th[t].pc \in Closing /\ r.pc \in Closing
         \/ r.h = NoOne /\ r.pc = "idle"
  PROVE  ThreadInv' /\ CountInv' /\ AloneInv'
<1>0. ThreadInv /\ CountInv /\ AloneInv
  BY DEF TypeInv
<1>1. CanUse(t, r)
  <2>1. \/ r.h = th[t].h /\ (r.pc \in Exclusive => th[t].pc \in Exclusive)
        \/ r.h = NoOne /\ r.pc = "idle"
    BY DEF Exclusive, Closing
  <2> QED
    BY <1>0, <2>1, KeepsHandle
<1>2. r.pc \in Closing => r.h \in open
  BY <1>0 DEF AloneInv, Closing
<1> QED
  BY <1>0, <1>1, <1>2, AppStep DEF Opening, Closing

LEMMA ProgressThreads ==
  ASSUME TypeInv, NEW t \in App, UNCHANGED <<open, counts, scenario>>,
         th[t].pc \in {"register", "delete"},
         NEW ret, ret = "idle" \/ ret = th[t].ret, Progress(t, ret)
  PROVE  ThreadInv' /\ CountInv' /\ AloneInv'
<1> DEFINE r == [th[t] EXCEPT !.pc = "progress", !.ret = ret]
<1>1. WellFormed(t, r)
  BY AppThread, AppProgress DEF Carries
<1>2. r.pc = "progress" /\ r.h = th[t].h
  BY AppThread DEF ThreadRecord
<1>3. Moves(t, r)
  BY MovesAlone, Names DEF Progress, TypeInv
<1> HIDE DEF r
<1> QED
  BY <1>1, <1>2, <1>3, BusyStep

LEMMA ResumesThreads ==
  ASSUME TypeInv, NEW t \in App, UNCHANGED <<open, counts, scenario>>,
         th[t].pc \in {"progress", "grab", "reconnect"}, Resumes(t)
  PROVE  ThreadInv' /\ CountInv' /\ AloneInv'
<1> DEFINE r == Resumed(th[t])
<1>1. /\ WellFormed(t, r) /\ r.pc \in {"idle", "add", "look"}
      /\ r.h = th[t].h \/ (r.h = NoOne /\ r.pc = "idle")
  BY AppThread, AppResumes DEF Carries
<1>2. th' = [th EXCEPT ![t] = r]
  BY DEF Resumes, Resumed
<1>3. Moves(t, r)
  BY <1>2, MovesAlone, Names DEF TypeInv
<1>4. r.pc = "idle" => r.h = NoOne
  BY <1>1, AppThread, RunningType DEF Resumed, PCs, AppRecord
<1> HIDE DEF r
<1> QED
  BY <1>1, <1>3, <1>4, BusyStep

LEMMA IdleThreads ==
  ASSUME TypeInv, NEW t \in App, UNCHANGED <<open, counts, scenario>>,
         th[t].pc \notin {"idle", "threads", "insert"}, th' = [th EXCEPT ![t] = Idle]
  PROVE  ThreadInv' /\ CountInv' /\ AloneInv'
<1>1. Idle = Running("idle") /\ Idle.pc = "idle" /\ Idle.h = NoOne
  BY DEF Idle, Running, NoThread
<1>2. WellFormed(t, Idle) /\ Moves(t, Idle)
  BY <1>1, FreshRecords, MovesAlone, Names DEF TypeInv
<1> QED
  BY <1>1, <1>2, BusyStep

LEMMA GoesThreads ==
  ASSUME TypeInv, NEW t \in App, UNCHANGED <<open, counts, scenario>>,
         NEW pc, Moves(t, [th[t] EXCEPT !.pc = pc]),
         \/ th[t].pc = "add" /\ pc = "subscribe"
         \/ th[t].pc = "progress" /\ pc = "grab"
         \/ th[t].pc = "grab" /\ pc = "reconnect"
         \/ th[t].pc = "lookup" /\ pc = "deliver"
         \/ th[t].pc = "deliver" /\ pc = "push"
         \/ th[t].pc = "look" /\ pc = "polled"
         \/ th[t].pc = "finalize" /\ pc \in {"join", "remove"}
         \/ th[t].pc = "join" /\ pc = "closed"
         \/ th[t].pc = "closed" /\ pc = "remove"
  PROVE  ThreadInv' /\ CountInv' /\ AloneInv'
<1> DEFINE r == [th[t] EXCEPT !.pc = pc]
<1>1. WellFormed(t, th[t]) /\ th[t] \in ThreadRecord /\ AppRecord(th[t])
  BY AppThread
<1>2. pc \in AppPCs \ {"idle", "delete"} /\ (pc \in {"add", "subscribe"} => th[t].ret = "add")
  BY <1>1 DEF AppPCs, AppRecord
<1>3. WellFormed(t, r)
  BY <1>1, <1>2, AppGoes DEF Carries
<1>4. r.pc = pc /\ r.h = th[t].h
  BY <1>1 DEF ThreadRecord
<1> HIDE DEF r
<1>5. Moves(t, r)
  BY DEF r
<1> QED
  BY <1>3, <1>4, <1>5, BusyStep DEF Closing

(* A thread lets go of the message it carried.                             *)
LEMMA LetsGo ==
  ASSUME NEW t \in App \cup {Rx}, NEW r, WellFormed(t, r), Carries(r)
  PROVE  /\ WellFormed(t, [r EXCEPT !.pc = Next1(t), !.item = EOF])
         /\ [r EXCEPT !.pc = Next1(t), !.item = EOF].pc = Next1(t)
         /\ [r EXCEPT !.pc = Next1(t), !.item = EOF].h = r.h
<1> DEFINE q == [r EXCEPT !.pc = Next1(t), !.item = EOF]
<1>1. r \in ThreadRecord /\ (t \in App => AppRecord(r)) /\ r.pc \in {"lookup", "deliver", "push"}
  BY DEF WellFormed, Carries
<1>2. Next1(t) \in PCs /\ EOF \in Item /\ Next1(t) \in {"receive", "grab"}
      /\ (t \in App => Next1(t) = "grab") /\ (t = Rx => Next1(t) = "receive")
  BY Names DEF Next1, PCs, Item
<1>3. /\ q \in ThreadRecord /\ q.pc = Next1(t) /\ q.item = EOF
      /\ q.h = r.h /\ q.mask = r.mask /\ q.how = r.how /\ q.ret = r.ret
  BY <1>1, <1>2 DEF ThreadRecord
<1> HIDE DEF q
<1>4. t \in App => AppRecord(q)
  BY <1>1, <1>2, <1>3 DEF AppRecord, AppPCs
<1>5. WellFormed(t, q)
  BY <1>2, <1>3, <1>4, Names DEF WellFormed, Carries, RxPCs
<1> QED
  BY <1>3, <1>5 DEF q

(* It takes one.                                                           *)
LEMMA TakesOne ==
  ASSUME NEW t \in App \cup {Rx}, NEW r, WellFormed(t, r), ~ Carries(r), r.pc # "idle",
         NEW item \in Item \ {EOF}
  PROVE  /\ WellFormed(t, [r EXCEPT !.pc = "lookup", !.item = item])
         /\ [r EXCEPT !.pc = "lookup", !.item = item].pc = "lookup"
         /\ [r EXCEPT !.pc = "lookup", !.item = item].h = r.h
<1> DEFINE q == [r EXCEPT !.pc = "lookup", !.item = item]
<1>1. r \in ThreadRecord /\ (t \in App => AppRecord(r))
  BY DEF WellFormed
<1>2. "lookup" \in PCs
  BY DEF PCs
<1>3. /\ q \in ThreadRecord /\ q.pc = "lookup" /\ q.item = item
      /\ q.h = r.h /\ q.mask = r.mask /\ q.how = r.how /\ q.ret = r.ret
  BY <1>1, <1>2 DEF ThreadRecord
<1> HIDE DEF q
<1>4. t \in App => AppRecord(q)
  BY <1>1, <1>3 DEF AppRecord, AppPCs
<1>5. WellFormed(t, q)
  BY <1>3, <1>4, Names DEF WellFormed, Carries, RxPCs
<1> QED
  BY <1>3, <1>5 DEF q

(* FTBCI_callback_thread_client, while there is one.                       *)
LEMMA RxThread ==
  ASSUME TypeInv, th[Rx].pc # "none"
  PROVE  WellFormed(Rx, th[Rx]) /\ th[Rx] \in ThreadRecord /\ Rx \in Thread \ App
BY Names DEF TypeInv, ThreadInv, WellFormed

LEMMA RxGoesThreads ==
  ASSUME TypeInv, UNCHANGED <<open, counts, scenario>>,
         NEW pc, Moves(Rx, [th[Rx] EXCEPT !.pc = pc]),
         \/ th[Rx].pc = "receive" /\ pc = "select"
         \/ th[Rx].pc = "select" /\ pc = "reconnect"
         \/ th[Rx].pc = "reconnect" /\ pc = "ended"
         \/ th[Rx].pc = "lookup" /\ pc = "deliver"
         \/ th[Rx].pc = "deliver" /\ pc = "push"
  PROVE  ThreadInv' /\ CountInv' /\ AloneInv'
<1> DEFINE r == [th[Rx] EXCEPT !.pc = pc]
<1>1. WellFormed(Rx, th[Rx]) /\ Rx \in Thread \ App
  BY RxThread
<1>2. pc \in RxPCs
  BY DEF RxPCs
<1>3. WellFormed(Rx, r)
  BY <1>1, <1>2, RxGoes DEF Carries
<1>4. Moves(Rx, r)
  OBVIOUS
<1> HIDE DEF r
<1>5. th[Rx].pc # "none"
  OBVIOUS
<1> QED
  BY <1>1, <1>3, <1>4, <1>5, OtherStep DEF TypeInv

(* Receiving, by either.                                                   *)
LEMMA TakesThreads ==
  ASSUME TypeInv, NEW t \in App \cup {Rx}, UNCHANGED <<open, counts, scenario>>,
         th[t].pc = IF t = Rx THEN "select" ELSE "grab",
         NEW item \in Item \ {EOF}, th' = [th EXCEPT ![t].pc = "lookup", ![t].item = item]
  PROVE  ThreadInv' /\ CountInv' /\ AloneInv'
<1> DEFINE r == [th[t] EXCEPT !.pc = "lookup", !.item = item]
<1>1. WellFormed(t, th[t]) /\ t \in Thread
  BY AppThread, RxThread, Names
<1>2. WellFormed(t, r) /\ r.pc = "lookup" /\ r.h = th[t].h
  BY <1>1, TakesOne DEF Carries
<1>3. Moves(t, r)
  BY <1>1, MovesAlone DEF TypeInv
<1> HIDE DEF r
<1>4. CASE t \in App
  BY <1>2, <1>3, <1>4, BusyStep, Names
<1>5. CASE t = Rx
  BY <1>2, <1>3, <1>5, OtherStep, Names DEF TypeInv
<1> QED
  BY <1>4, <1>5

LEMMA LetsGoThreads ==
  ASSUME TypeInv, NEW t \in App \cup {Rx}, UNCHANGED <<open, counts, scenario>>,
         Carries(th[t]), Moves(t, [th[t] EXCEPT !.pc = Next1(t), !.item = EOF])
  PROVE  ThreadInv' /\ CountInv' /\ AloneInv'
<1> DEFINE r == [th[t] EXCEPT !.pc = Next1(t), !.item = EOF]
<1>1. WellFormed(t, th[t]) /\ t \in Thread
  BY Names DEF TypeInv, ThreadInv
<1>2. WellFormed(t, r) /\ r.pc = Next1(t) /\ r.h = th[t].h
  BY <1>1, LetsGo
<1>3. Moves(t, r)
  OBVIOUS
<1> HIDE DEF r
<1>4. CASE t \in App
  BY <1>2, <1>3, <1>4, BusyStep, Names DEF Next1, Carries
<1>5. CASE t = Rx
  BY <1>1, <1>2, <1>3, <1>5, OtherStep, Names DEF TypeInv, Carries
<1> QED
  BY <1>4, <1>5

(* FTBCI_callback_component.                                               *)
LEMMA CallbackThread ==
  ASSUME TypeInv, NEW h \in Handle, th[h].pc # "none"
  PROVE  WellFormed(h, th[h]) /\ th[h] \in ThreadRecord /\ CallbackRecord(h, th[h])
         /\ h \in Thread \ App
BY Names DEF TypeInv, ThreadInv, WellFormed

LEMMA CallbackGoesThreads ==
  ASSUME TypeInv, UNCHANGED <<open, counts, scenario>>,
         NEW h \in Handle, th[h].pc # "none", NEW pc \in CallbackPCs \ {"delete", "progress"}, Goes(h, pc)
  PROVE  ThreadInv' /\ CountInv' /\ AloneInv'
<1> DEFINE r == [th[h] EXCEPT !.pc = pc]
<1>1. WellFormed(h, th[h]) /\ h \in Thread \ App
  BY CallbackThread
<1>2. WellFormed(h, r)
  BY <1>1, CallbackGoes
<1>3. Moves(h, r)
  BY <1>1, MovesAlone DEF TypeInv, Goes
<1> HIDE DEF r
<1> QED
  BY <1>1, <1>2, <1>3, OtherStep DEF TypeInv

(* Unsubscribing from within a callback function, and back.                *)
LEMMA CallbackDeletes ==
  ASSUME TypeInv, NEW h \in Handle, NEW s \in Subscription, UnsubscribeInCallback(h, s)
  PROVE  ThreadInv' /\ CountInv' /\ AloneInv'
<1> DEFINE r == [th[h] EXCEPT !.pc = "delete", !.h = h, !.mask = s.mask, !.ret = "calling"]
<1>1. th[h].pc = "calling" /\ UNCHANGED <<open, counts, scenario>>
  BY DEF UnsubscribeInCallback, Is, Within, bounds
<1>2. WellFormed(h, th[h]) /\ th[h] \in ThreadRecord /\ h \in Thread \ App
  BY <1>1, CallbackThread
<1>3. s.mask \in Mask
  BY DEF Subscription
<1>4. /\ r \in ThreadRecord /\ r.pc = "delete" /\ r.h = h /\ r.mask = s.mask /\ r.ret = "calling"
      /\ r.item = th[h].item
  <2>1. "delete" \in PCs
    BY DEF PCs
  <2> QED
    BY <1>2, <1>3, <2>1 DEF ThreadRecord
<1>5. Moves(h, r)
  <2>1. th' = [th EXCEPT ![h] = r]
    BY <1>2 DEF UnsubscribeInCallback, TypeInv, ThreadInv, ThreadRecord
  <2> HIDE DEF r
  <2> QED
    BY <1>2, <2>1, MovesAlone DEF TypeInv
<1> HIDE DEF r
<1>6. CallbackRecord(h, r)
  BY <1>3, <1>4 DEF CallbackRecord, CallbackPCs
<1>7. WellFormed(h, r)
  BY <1>1, <1>2, <1>4, <1>6, Names DEF WellFormed, Carries
<1> QED
  BY <1>1, <1>2, <1>5, <1>7, OtherStep DEF TypeInv

LEMMA CallbackDeleted ==
  ASSUME TypeInv, NEW h \in Handle, DeleteMask(h)
  PROVE  ThreadInv' /\ CountInv' /\ AloneInv'
<1> DEFINE r == [th[h] EXCEPT !.pc = "progress"]
<1>1. th[h].pc = "delete" /\ UNCHANGED <<open, counts, scenario>>
  BY DEF DeleteMask, Is, Within, bounds
<1>2. WellFormed(h, th[h]) /\ th[h] \in ThreadRecord /\ h \in Thread \ App
  BY <1>1, CallbackThread
<1>3. WellFormed(h, r)
  BY <1>1, <1>2, CallbackGoes DEF CallbackPCs
<1>4. th' = [th EXCEPT ![h] = r]
  BY <1>2 DEF DeleteMask, Progress, TypeInv, ThreadInv, ThreadRecord
<1>5. Moves(h, r)
  BY <1>2, <1>4, MovesAlone DEF TypeInv
<1> HIDE DEF r
<1> QED
  BY <1>1, <1>2, <1>3, <1>5, OtherStep DEF TypeInv

(* While its handle has a thread, FTBCI_Check_progress leaves receiving to *)
(* callback_thread.                                                        *)
LEMMA CallbackProgressed ==
  ASSUME TypeInv, NEW h \in Handle, CheckProgress(h)
  PROVE  ThreadInv' /\ CountInv' /\ AloneInv' /\ th' = [th EXCEPT ![h] = Running("calling")]
<1>1. th[h].pc = "progress" /\ UNCHANGED <<open, counts, scenario>>
  BY DEF CheckProgress, Is, Within, bounds
<1>2. WellFormed(h, th[h]) /\ th[h].ret = "calling" /\ h \in Thread \ App
  BY <1>1, CallbackThread DEF CallbackRecord
<1>3. enable > 0
  <2>1. h \in Served \cap Notified
    BY <1>1 DEF TypeInv, CountInv
  <2>2. IsFiniteSet(Served \cap Notified)
    <3>1. Served \subseteq Counted
      BY DEF Served, Counted, OfThreads
    <3> QED
      BY <3>1, FS_Subset DEF TypeInv, CountInv
  <2>3. Cardinality(Served \cap Notified) \in Nat /\ Cardinality(Served \cap Notified) # 0
    BY <2>1, <2>2, FS_CardinalityType, FS_EmptySet
  <2> QED
    BY <2>3 DEF TypeInv, CountInv
<1>4. th' = [th EXCEPT ![h] = Running("calling")]
  BY <1>2, <1>3 DEF CheckProgress, Resumes
<1>5. WellFormed(h, Running("calling")) /\ Moves(h, Running("calling"))
  BY <1>2, <1>4, FreshRecords, MovesAlone DEF TypeInv
<1> QED
  BY <1>1, <1>2, <1>4, <1>5, OtherStep DEF TypeInv

-----------------------------------------------------------------------------
(* All steps, as far as threads and handles go.                            *)

LEMMA ReadThreads ==
  ASSUME TypeInv, NEW t \in App \cup {Rx}, Read(t), UNCHANGED counts,
         th[t].pc = IF t = Rx THEN "select" ELSE "grab"
  PROVE  ThreadInv' /\ CountInv' /\ AloneInv'
<1>1. UNCHANGED <<open, counts, scenario>> /\ stream # <<>> /\ stream \in Seq(Item)
  BY DEF Read, Within, bounds, TypeInv, NetOK
<1>2. CASE Head(stream) = EOF
  <2>1. Moves(t, [th[t] EXCEPT !.pc = "reconnect"])
    BY <1>2, MovesAlone, Names DEF Read, Goes, TypeInv
  <2> QED
    BY <1>1, <2>1, GoesThreads, RxGoesThreads, Names
<1>3. CASE Head(stream) # EOF
  <2>1. Head(stream) \in Item \ {EOF}
    BY <1>1, <1>3
  <2>2. th' = [th EXCEPT ![t].pc = "lookup", ![t].item = Head(stream)]
    BY <1>3 DEF Read
  <2> QED
    BY <1>1, <2>1, <2>2, TakesThreads
<1> QED
  BY <1>2, <1>3

LEMMA ReceivesThreads ==
  ASSUME TypeInv, NEW t \in App \cup {Rx}, Receives(t)
  PROVE  ThreadInv' /\ CountInv' /\ AloneInv'
<1>0. ThreadInv /\ CountInv /\ AloneInv /\ t \in Thread
  BY Names DEF TypeInv
<1>1. CASE Lookup(t)
  <2>1. th[t].pc = "lookup" /\ UNCHANGED <<open, counts, scenario>>
    BY <1>1 DEF Lookup, Is, Within, bounds
  <2>2. CASE th' = [th EXCEPT ![t].pc = "deliver"]
    <3>1. Moves(t, [th[t] EXCEPT !.pc = "deliver"])
      BY <1>0, <2>2, MovesAlone
    <3> QED
      BY <2>1, <3>1, GoesThreads, RxGoesThreads
  <2>3. CASE th' = [th EXCEPT ![t].pc = Next1(t), ![t].item = EOF]
    <3>1. Moves(t, [th[t] EXCEPT !.pc = Next1(t), !.item = EOF])
      <4> DEFINE r == [th[t] EXCEPT !.pc = Next1(t), !.item = EOF]
      <4>1. th' = [th EXCEPT ![t] = r]
        BY <1>0, <2>3 DEF ThreadInv, ThreadRecord
      <4> HIDE DEF r
      <4>2. Moves(t, r)
        BY <1>0, <4>1, MovesAlone
      <4> QED
        BY <4>2 DEF r
    <3> QED
      BY <2>1, <3>1, LetsGoThreads DEF Carries
  <2> QED
    BY <1>1, <2>2, <2>3 DEF Lookup, Goes
<1>2. CASE LockHandle(t)
  <2>1. th[t].pc = "deliver" /\ UNCHANGED <<open, counts, scenario>>
        /\ th' = [th EXCEPT ![t].pc = "push"]
    BY <1>2 DEF LockHandle, Is, Within, bounds, Goes
  <2>2. Moves(t, [th[t] EXCEPT !.pc = "push"])
    BY <1>0, <2>1, MovesAlone
  <2> QED
    BY <2>1, <2>2, GoesThreads, RxGoesThreads
<1>3. CASE Push(t)
  <2> DEFINE r == [th[t] EXCEPT !.pc = Next1(t), !.item = EOF]
             back == [th EXCEPT ![t].pc = Next1(t), ![t].item = EOF]
             h == th[t].item.to
  <2>1. th[t].pc = "push" /\ UNCHANGED <<open, counts, scenario>>
    BY <1>3 DEF Push, Is, Within, bounds
  <2>2. back = [th EXCEPT ![t] = r]
    BY <1>0 DEF ThreadInv, ThreadRecord
  <2>3. UNCHANGED th \/ th' = back \/ (h \in Notified /\ th' = Signal(h, back))
    BY <1>3 DEF Push
  <2>4. CASE UNCHANGED th
    BY <1>0, <2>1, <2>4, ThreadsStay
  <2>5. CASE th' = back \/ (h \in Notified /\ th' = Signal(h, back))
    <3> HIDE DEF r, back
    <3>1. h \in Notified => h \in Handle /\ h # t
      BY Names DEF Handle
    <3> HIDE DEF h
    <3>2. Moves(t, r)
      BY <1>0, <2>2, <2>5, <3>1, MovesAlone, MovesSignals
    <3>3. Moves(t, [th[t] EXCEPT !.pc = Next1(t), !.item = EOF])
      BY <3>2 DEF r
    <3> QED
      BY <2>1, <3>3, LetsGoThreads DEF Carries
  <2> QED
    BY <2>3, <2>4, <2>5
<1>4. CASE Reconnect(t)
  <2>1. th[t].pc = "reconnect" /\ UNCHANGED <<open, counts, scenario>>
    BY <1>4 DEF Reconnect, Is, Within, bounds
  <2>2. CASE UNCHANGED th
    BY <1>0, <2>1, <2>2, ThreadsStay
  <2>3. CASE t = Rx /\ Goes(t, "ended")
    <3>1. Moves(Rx, [th[Rx] EXCEPT !.pc = "ended"])
      BY <1>0, <2>3, MovesAlone DEF Goes
    <3> QED
      BY <2>1, <2>3, <3>1, RxGoesThreads
  <2>4. CASE t # Rx /\ Resumes(t)
    BY <2>1, <2>4, ResumesThreads
  <2> QED
    BY <1>4, <2>2, <2>3, <2>4 DEF Reconnect
<1> QED
  BY <1>1, <1>2, <1>3, <1>4 DEF Receives

LEMMA ScanThreads ==
  ASSUME TypeInv, NEW t \in App, Scan(t)
  PROVE  ThreadInv' /\ CountInv' /\ AloneInv'
<1>0. ThreadInv /\ CountInv /\ AloneInv /\ t \in Thread
  BY Names DEF TypeInv
<1>1. th[t].pc = "look" /\ UNCHANGED <<open, counts, scenario>>
  BY DEF Scan, Is, Within, bounds
<1>2. WellFormed(t, th[t]) /\ th[t] \in ThreadRecord /\ AppRecord(th[t])
  BY <1>1, AppThread
<1>3. \/ th' = [th EXCEPT ![t] = Idle]
      \/ th' = [th EXCEPT ![t].pc = "progress", ![t].round = 2]
      \/ th' = [th EXCEPT ![t].pc = "polled"]
  BY DEF Scan, Goes
<1>4. CASE th' = [th EXCEPT ![t] = Idle]
  BY <1>1, <1>4, IdleThreads
<1>5. CASE th' = [th EXCEPT ![t].pc = "progress", ![t].round = 2]
  <2> DEFINE r == [th[t] EXCEPT !.pc = "progress", !.round = 2]
  <2>1. "progress" \in PCs /\ 2 \in 1..2
    BY DEF PCs
  <2>2. /\ r \in ThreadRecord /\ r.pc = "progress" /\ r.h = th[t].h /\ r.mask = th[t].mask
        /\ r.how = th[t].how /\ r.item = th[t].item /\ r.ret = th[t].ret
    BY <1>2, <2>1 DEF ThreadRecord
  <2>3. th' = [th EXCEPT ![t] = r]
    BY <1>0, <1>5 DEF ThreadInv, ThreadRecord
  <2> HIDE DEF r
  <2>4. WellFormed(t, r)
    BY <1>1, <1>2, <2>2, Names DEF WellFormed, AppRecord, AppPCs, Carries
  <2>5. Moves(t, r)
    BY <1>0, <2>3, MovesAlone
  <2> QED
    BY <1>1, <2>2, <2>4, <2>5, BusyStep
<1>6. CASE th' = [th EXCEPT ![t].pc = "polled"]
  <2>1. Moves(t, [th[t] EXCEPT !.pc = "polled"])
    BY <1>0, <1>6, MovesAlone
  <2> QED
    BY <1>1, <2>1, GoesThreads
<1> QED
  BY <1>3, <1>4, <1>5, <1>6

LEMMA FinalizeThreads ==
  ASSUME TypeInv, NEW t \in App, Finalize(t)
  PROVE  ThreadInv' /\ CountInv' /\ AloneInv'
<1> DEFINE h == th[t].h
<1>0. ThreadInv /\ CountInv /\ AloneInv /\ t \in Thread
  BY Names DEF TypeInv
<1>1. th[t].pc = "finalize" /\ UNCHANGED <<open, counts, scenario>>
  BY DEF Finalize, Is, Within, bounds
<1>2. h \in Handle /\ h # t
  BY <1>1, AppThread, Names
<1>3. CASE h \in Notified
  <2> DEFINE r == [th[t] EXCEPT !.pc = "join"]
  <2>1. th' = Signal(h, [th EXCEPT ![t] = r])
    BY <1>3 DEF Finalize
  <2> HIDE DEF r, h
  <2>2. Moves(t, r)
    BY <1>0, <1>2, <2>1, MovesSignals
  <2>3. Moves(t, [th[t] EXCEPT !.pc = "join"])
    BY <2>2 DEF r
  <2> QED
    BY <1>1, <2>3, GoesThreads
<1>4. CASE h \notin Notified
  <2>1. Moves(t, [th[t] EXCEPT !.pc = "remove"])
    BY <1>0, <1>4, MovesAlone DEF Finalize
  <2> QED
    BY <1>1, <2>1, GoesThreads
<1> QED
  BY <1>3, <1>4

LEMMA ProceedsThreads ==
  ASSUME TypeInv, NEW t \in App, Proceeds(t)
  PROVE  ThreadInv' /\ CountInv' /\ AloneInv'
<1>0. ThreadInv /\ CountInv /\ AloneInv /\ t \in Thread /\ t # Rx
  BY Names DEF TypeInv
<1>1. CASE StartThreads(t) \/ Insert(t) \/ RemoveHandle(t)
  BY <1>0, <1>1, StartThreadsThreads, InsertThreads, RemoveThreads
<1>2. CASE Register(t)
  <2>1. th[t].pc = "register" /\ UNCHANGED <<open, counts, scenario>> /\ Progress(t, "idle")
    BY <1>2 DEF Register, Is, Within, bounds
  <2> QED
    BY <2>1, ProgressThreads
<1>3. CASE AddMask(t)
  <2>1. th[t].pc = "add" /\ UNCHANGED <<open, counts, scenario>> /\ Goes(t, "subscribe")
    BY <1>3 DEF AddMask, Is, Within, bounds
  <2>2. Moves(t, [th[t] EXCEPT !.pc = "subscribe"])
    BY <1>0, <2>1, MovesAlone DEF Goes
  <2> QED
    BY <2>1, <2>2, GoesThreads
<1>4. CASE SendMask(t)
  <2>1. th[t].pc = "subscribe" /\ UNCHANGED <<open, counts, scenario>> /\ th' = [th EXCEPT ![t] = Idle]
    BY <1>4 DEF SendMask, Is, Within, bounds
  <2> QED
    BY <2>1, IdleThreads
<1>5. CASE DeleteMask(t)
  <2>1. th[t].pc = "delete" /\ UNCHANGED <<open, counts, scenario>> /\ Progress(t, th[t].ret)
    BY <1>5 DEF DeleteMask, Is, Within, bounds
  <2> QED
    BY <2>1, ProgressThreads
<1>6. CASE CheckProgress(t)
  <2>1. th[t].pc = "progress" /\ UNCHANGED <<open, counts, scenario>>
        /\ (Resumes(t) \/ Goes(t, "grab"))
    BY <1>6 DEF CheckProgress, Is, Within, bounds
  <2>2. CASE Resumes(t)
    BY <2>1, <2>2, ResumesThreads
  <2>3. CASE Goes(t, "grab")
    <3>1. Moves(t, [th[t] EXCEPT !.pc = "grab"])
      BY <1>0, <2>3, MovesAlone DEF Goes
    <3> QED
      BY <2>1, <3>1, GoesThreads
  <2> QED
    BY <2>1, <2>2, <2>3
<1>7. CASE Grab(t)
  BY <1>0, <1>7, ReadThreads DEF Grab, Is, Read
<1>8. CASE GrabNothing(t)
  <2>1. th[t].pc = "grab" /\ UNCHANGED <<open, counts, scenario>> /\ Resumes(t)
    BY <1>8 DEF GrabNothing, Is, Within, bounds
  <2> QED
    BY <2>1, ResumesThreads
<1>9. CASE Receives(t)
  BY <1>9, ReceivesThreads
<1>10. CASE Scan(t) \/ Finalize(t)
  BY <1>10, ScanThreads, FinalizeThreads
<1>11. CASE PollNothing(t)
  <2>1. th[t].pc = "polled" /\ UNCHANGED <<open, counts, scenario>> /\ th' = [th EXCEPT ![t] = Idle]
    BY <1>11 DEF PollNothing, UnlockAgain, Is, Within, bounds
  <2> QED
    BY <2>1, IdleThreads
<1>12. CASE Join(t)
  <2>1. th[t].pc = "join" /\ UNCHANGED <<open, counts, scenario>> /\ Goes(t, "closed")
    BY <1>12 DEF Join, Is, Within, bounds
  <2>2. Moves(t, [th[t] EXCEPT !.pc = "closed"])
    BY <1>0, <2>1, MovesAlone DEF Goes
  <2> QED
    BY <2>1, <2>2, GoesThreads
<1>13. CASE JoinedUnlock(t)
  <2>1. th[t].pc = "closed" /\ UNCHANGED <<open, counts, scenario>> /\ Goes(t, "remove")
    BY <1>13 DEF JoinedUnlock, UnlockAgain, Is, Within, bounds
  <2>2. Moves(t, [th[t] EXCEPT !.pc = "remove"])
    BY <1>0, <2>1, MovesAlone DEF Goes
  <2> QED
    BY <2>1, <2>2, GoesThreads
<1> QED
  BY <1>1, <1>2, <1>3, <1>4, <1>5, <1>6, <1>7, <1>8, <1>9, <1>10, <1>11, <1>12, <1>13 DEF Proceeds

LEMMA RxThreads ==
  ASSUME TypeInv, RxStep
  PROVE  ThreadInv' /\ CountInv' /\ AloneInv'
<1>1. CASE LockRecv
  <2>1. th[Rx].pc = "receive" /\ UNCHANGED <<open, counts, scenario>> /\ Goes(Rx, "select")
    BY <1>1 DEF LockRecv, Is, Within, bounds
  <2>2. Moves(Rx, [th[Rx] EXCEPT !.pc = "select"])
    BY <2>1, MovesAlone, Names DEF Goes, TypeInv
  <2> QED
    BY <2>1, <2>2, RxGoesThreads
<1>2. CASE Receive
  BY <1>2, ReadThreads DEF Receive, Is, Read
<1>3. CASE Receives(Rx)
  BY <1>3, ReceivesThreads
<1> QED
  BY <1>1, <1>2, <1>3 DEF RxStep

LEMMA CallbackThreads ==
  ASSUME TypeInv, NEW h \in Handle,
         CallbackStep(h) \/ \E s \in Subscription : UnsubscribeInCallback(h, s)
  PROVE  ThreadInv' /\ CountInv' /\ AloneInv'
<1>1. CASE \/ CallbackWaits(h) \/ CallbackWakes(h) \/ CallbackEnds(h) \/ Pick(h)
           \/ CallbackReturns(h)
  <2>1. /\ th[h].pc # "none" /\ UNCHANGED <<open, counts, scenario>>
        /\ \E pc \in {"waiting", "pick", "ended", "calling", "unmatched", "start"} : Goes(h, pc)
    BY <1>1 DEF CallbackWaits, CallbackWakes, CallbackEnds, Pick, CallbackReturns, Proceed, Awaits,
                Is, Within, bounds
  <2>2. {"waiting", "pick", "ended", "calling", "unmatched", "start"}
          \subseteq CallbackPCs \ {"delete", "progress"}
    BY DEF CallbackPCs
  <2> QED
    BY <2>1, <2>2, CallbackGoesThreads
<1>2. CASE FreeUnmatched(h)
  BY <1>2, ThreadsStay DEF FreeUnmatched, Within, bounds, TypeInv
<1>3. CASE DeleteMask(h) \/ CheckProgress(h)
  BY <1>3, CallbackDeleted, CallbackProgressed
<1>4. CASE \E s \in Subscription : UnsubscribeInCallback(h, s)
  BY <1>4, CallbackDeletes
<1> QED
  BY <1>1, <1>2, <1>3, <1>4 DEF CallbackStep

LEMMA NextThreads ==
  ASSUME TypeInv, [Next]_vars
  PROVE  ThreadInv' /\ CountInv' /\ AloneInv'
<1>1. CASE \/ \E h \in Handle, e \in Event : Arrive(h, e)
           \/ Lose
           \/ UNCHANGED vars
  <2>1. UNCHANGED <<open, counts, th, scenario>>
    BY <1>1 DEF Arrive, Lose, vars, bounds
  <2> QED
    BY <2>1, ThreadsStay DEF TypeInv
<1>2. Notified \subseteq Handle
  BY DEF Handle
<1> QED
  BY <1>1, <1>2, ProceedsThreads, CallThreads, RxThreads, CallbackThreads DEF Next

-----------------------------------------------------------------------------
(* The other variables.                                                    *)

(* How many events there may be is settled at first, and so are the types. *)
LEMMA LastingTypes ==
  ASSUME scenario' = scenario
  PROVE  Item' = Item /\ Ordinal' = Ordinal /\ InfoRecord' = InfoRecord
<1>1. Item' = Item /\ Ordinal' = Ordinal
  BY DEF Item, Ordinal
<1> QED
  BY <1>1 DEF InfoRecord

LEMMA ItemType ==
  \A x \in Item \ {EOF} : x.n \in Ordinal /\ x.to \in Handle /\ x.ev \in Event
BY DEF Item

LEMMA MapType ==
  ASSUME NEW map \in Seq(Mask), NEW m \in Mask
  PROVE  Inserted(map, m) \in Seq(Mask) /\ Removed(map, m) \in Seq(Mask)
<1>1. Inserted(map, m) \in Seq(Mask)
  BY AppendShape DEF Inserted, FTBU_map_insert
<1>2. CASE Holds(map, EventKey, m)
  <2> DEFINE Found == {i \in DOMAIN map : Agree(map[i], m, EventKey)}
  <2>1. Found \in SUBSET Nat /\ Found # {} /\ Found \subseteq 1..Len(map)
    BY <1>2, SeqShape DEF Holds
  <2>2. PICK i \in Found : \A k \in Found : i <= k
    BY <2>1, Least
  <2>3. i \in DOMAIN map /\ Agree(map[i], m, EventKey)
        /\ \A j \in 1..(i - 1) : ~ Agree(map[j], m, EventKey)
    <3>1. \A j \in 1..(i - 1) : j \in DOMAIN map /\ ~ (i <= j)
      BY <2>1, SeqShape
    <3> QED
      BY <2>2, <3>1
  <2>4. FTBU_map_find_key(map, EventKey, m) \in DOMAIN map
    BY <2>3 DEF FTBU_map_find_key
  <2>5. FTBU_map_find_key(map, EventKey, m) \in 1..Len(map)
    BY <2>4, SeqShape
  <2>6. RemoveAt(map, FTBU_map_find_key(map, EventKey, m)) \in Seq(Mask)
    BY <2>5, RemoveShape
  <2> QED
    BY <1>1, <1>2, <2>6 DEF Removed, FTBU_map_remove_key
<1>3. CASE ~ Holds(map, EventKey, m)
  BY <1>1, <1>3 DEF Removed, FTBU_map_remove_key
<1> QED
  BY <1>2, <1>3

LEMMA FittingType ==
  ASSUME NEW S, NEW queue \in Seq(S), NEW mask, Fitting(queue, mask) # {}
  PROVE  Min(Fitting(queue, mask)) \in 1..Len(queue)
<1>1. Fitting(queue, mask) \in SUBSET Nat /\ Fitting(queue, mask) \subseteq 1..Len(queue)
  BY SeqShape DEF Fitting
<1>2. \E m \in Fitting(queue, mask) : \A k \in Fitting(queue, mask) : m <= k
  BY <1>1, Least
<1>3. Min(Fitting(queue, mask)) \in Fitting(queue, mask)
  BY <1>2 DEF Min
<1> QED
  BY <1>1, <1>3

LEMMA QueueType ==
  ASSUME NEW S, NEW queue \in Seq(S), NEW item \in S, Len(queue) <= QueueLen
  PROVE  /\ Queued(WithRoom(queue), item) \in Seq(S)
         /\ Len(Queued(WithRoom(queue), item)) <= QueueLen
         /\ Displaced(queue) \subseteq {queue[i].n : i \in 1..Len(queue)}
<1>1. CASE Len(queue) = QueueLen
  <2>1. queue # <<>>
    BY <1>1, QueueLenType
  <2>2. /\ Tail(queue) \in Seq(S) /\ Len(Tail(queue)) = QueueLen - 1
        /\ Head(queue) = queue[1] /\ 1 \in 1..Len(queue)
    BY <1>1, <2>1, TailShape
  <2>3. /\ Append(Tail(queue), item) \in Seq(S)
        /\ Len(Append(Tail(queue), item)) = QueueLen - 1 + 1
    BY <2>2, AppendShape
  <2> QED
    BY <1>1, <2>2, <2>3, QueueLenType DEF WithRoom, Queued, Displaced
<1>2. CASE Len(queue) # QueueLen
  <2>1. /\ Append(queue, item) \in Seq(S)
        /\ Len(Append(queue, item)) = Len(queue) + 1
    BY AppendShape
  <2> QED
    BY <1>2, <2>1, QueueLenType, SeqShape DEF WithRoom, Queued, Displaced
<1> QED
  BY <1>1, <1>2

LEMMA FreshType == FreshInfo \in InfoRecord /\ FreshInfo.queue = <<>>
BY DEF FreshInfo, InfoRecord

(* A step that changes the record of one handle.                           *)
LEMMA InfoStep ==
  ASSUME InfoOK, scenario' = scenario, NEW h \in Handle, NEW r \in InfoRecord,
         Len(r.queue) <= QueueLen, info' = [info EXCEPT ![h] = r]
  PROVE  InfoOK'
BY LastingTypes DEF InfoOK

LEMMA InfoStays ==
  ASSUME InfoOK, UNCHANGED <<info, scenario>>
  PROVE  InfoOK'
BY LastingTypes DEF InfoOK

LEMMA HandleRecord ==
  ASSUME InfoOK, NEW h \in Handle
  PROVE  /\ info[h] \in InfoRecord /\ Len(info[h].queue) <= QueueLen
         /\ info[h].polling \in Seq(Mask) /\ info[h].callbacks \in Seq(Mask)
         /\ info[h].queue \in Seq(Item \ {EOF}) /\ info[h].pending \in Seq(Item \ {EOF})
BY DEF InfoOK, InfoRecord

(* Fields of it that are set.                                              *)
LEMMA FieldsStep ==
  ASSUME InfoOK, scenario' = scenario, NEW h \in Handle,
         NEW polling \in Seq(Mask), NEW callbacks \in Seq(Mask),
         NEW queue \in Seq(Item \ {EOF}), NEW pending \in Seq(Item \ {EOF}),
         NEW lock \in Thread \cup {NoOne}, NEW finalizing \in BOOLEAN,
         NEW stage \in {"live", "closing", "gone"}, Len(queue) <= QueueLen,
         info' = [info EXCEPT ![h] = [info[h] EXCEPT
           !.polling = polling, !.callbacks = callbacks, !.queue = queue, !.pending = pending,
           !.lock = lock, !.finalizing = finalizing, !.stage = stage]]
  PROVE  InfoOK'
<1> DEFINE r == [info[h] EXCEPT
           !.polling = polling, !.callbacks = callbacks, !.queue = queue, !.pending = pending,
           !.lock = lock, !.finalizing = finalizing, !.stage = stage]
<1>1. info[h] \in InfoRecord
  BY HandleRecord
<1>2. r \in InfoRecord /\ r.queue = queue
  BY <1>1 DEF InfoRecord
<1>3. info' = [info EXCEPT ![h] = r]
  OBVIOUS
<1> HIDE DEF r
<1> QED
  BY <1>2, <1>3, InfoStep

LEMMA InfoOfCall ==
  ASSUME TypeInv, NEW t \in App, NEW r, Calls(t, r), UNCHANGED info
  PROVE  InfoOK'
BY InfoStays DEF Calls, TypeInv

LEMMA MapsInfo ==
  ASSUME TypeInv, NEW t \in Thread,
         (AddMask(t) /\ t \in App) \/ DeleteMask(t)
  PROVE  InfoOK'
<1> DEFINE h == th[t].h
           m == th[t].mask
<1>1. WellFormed(t, th[t]) /\ InfoOK /\ th[t] \in ThreadRecord
  BY DEF TypeInv, ThreadInv
<1>2. scenario' = scenario
  BY DEF AddMask, DeleteMask, Within, bounds
<1>3. CASE AddMask(t) /\ t \in App
  <2>1. [h |-> h, mask |-> m, how |-> th[t].how] \in Subscription
    BY <1>1, <1>3 DEF AddMask, Is, WellFormed, AppRecord
  <2>2. h \in Handle /\ m \in Mask
    BY <2>1 DEF Subscription, Handle
  <2>3. info[h].polling \in Seq(Mask) /\ info[h].callbacks \in Seq(Mask)
    BY <1>1, <2>2, HandleRecord
  <2>4. Inserted(info[h].polling, m) \in Seq(Mask) /\ Inserted(info[h].callbacks, m) \in Seq(Mask)
    BY <2>2, <2>3, MapType
  <2>5. info[h] \in InfoRecord /\ Len(info[h].queue) <= QueueLen /\ info \in [Handle -> InfoRecord]
    BY <1>1, <2>2, HandleRecord DEF InfoOK
  <2> DEFINE p == [info[h] EXCEPT !.polling = Inserted(info[h].polling, m)]
             c == [info[h] EXCEPT !.callbacks = Inserted(info[h].callbacks, m)]
  <2>6. p \in InfoRecord /\ c \in InfoRecord /\ p.queue = info[h].queue /\ c.queue = info[h].queue
    BY <2>4, <2>5 DEF InfoRecord
  <2>7. info' = [info EXCEPT ![h] = p] \/ info' = [info EXCEPT ![h] = c]
    BY <1>3, <2>2, <2>5 DEF AddMask
  <2> HIDE DEF p, c, h
  <2> QED
    BY <1>1, <1>2, <2>2, <2>5, <2>6, <2>7, InfoStep
<1>4. CASE DeleteMask(t)
  <2>0. th[t].pc = "delete"
    BY <1>4 DEF DeleteMask, Is
  <2>2. h \in Handle /\ m \in Mask
    BY <1>1, <2>0, Names DEF WellFormed, AppRecord, CallbackRecord, RxPCs
  <2>3. info[h].polling \in Seq(Mask) /\ info[h].callbacks \in Seq(Mask)
    BY <1>1, <2>2, HandleRecord
  <2>4. Removed(info[h].polling, m) \in Seq(Mask) /\ Removed(info[h].callbacks, m) \in Seq(Mask)
    BY <2>2, <2>3, MapType
  <2>5. info[h] \in InfoRecord /\ Len(info[h].queue) <= QueueLen /\ info \in [Handle -> InfoRecord]
    BY <1>1, <2>2, HandleRecord DEF InfoOK
  <2> DEFINE p == [info[h] EXCEPT !.polling = Removed(info[h].polling, m),
                                  !.callbacks = Removed(info[h].callbacks, m)]
  <2>6. p \in InfoRecord /\ p.queue = info[h].queue
    BY <2>4, <2>5 DEF InfoRecord
  <2>7. info' = [info EXCEPT ![h] = p]
    BY <1>4, <2>2, <2>5 DEF DeleteMask, InfoRecord
  <2> HIDE DEF p, h
  <2> QED
    BY <1>1, <1>2, <2>2, <2>5, <2>6, <2>7, InfoStep
<1> QED
  BY <1>3, <1>4

(* A handle that is locked, unlocked, or whose stage changes.              *)
LEMMA LocksInfo ==
  ASSUME InfoOK, scenario' = scenario, NEW h \in Handle, NEW lock \in Thread \cup {NoOne},
         NEW finalizing \in BOOLEAN, NEW stage \in {"live", "closing", "gone"},
         \/ info' = [info EXCEPT ![h].lock = lock]
         \/ info' = [info EXCEPT ![h].stage = stage]
         \/ info' = [info EXCEPT ![h].stage = stage, ![h].finalizing = finalizing, ![h].queue = <<>>]
  PROVE  InfoOK'
<1> DEFINE a == [info[h] EXCEPT !.lock = lock]
           b == [info[h] EXCEPT !.stage = stage]
           c == [info[h] EXCEPT !.stage = stage, !.finalizing = finalizing, !.queue = <<>>]
<1>1. info[h] \in InfoRecord /\ Len(info[h].queue) <= QueueLen /\ info \in [Handle -> InfoRecord]
  BY HandleRecord DEF InfoOK
<1>2. /\ a \in InfoRecord /\ a.queue = info[h].queue
      /\ b \in InfoRecord /\ b.queue = info[h].queue
      /\ c \in InfoRecord /\ c.queue = <<>>
  <2>1. a \in InfoRecord /\ a.queue = info[h].queue
    BY <1>1 DEF InfoRecord
  <2>2. b \in InfoRecord /\ b.queue = info[h].queue
    BY <1>1 DEF InfoRecord
  <2>3. <<>> \in Seq(Item \ {EOF})
    OBVIOUS
  <2>4. c \in InfoRecord /\ c.queue = <<>>
    BY <1>1, <2>3 DEF InfoRecord
  <2> QED
    BY <2>1, <2>2, <2>4
<1>3. Len(<<>>) <= QueueLen
  BY QueueLenType
<1>4. \/ info' = [info EXCEPT ![h] = a] \/ info' = [info EXCEPT ![h] = b]
      \/ info' = [info EXCEPT ![h] = c]
  BY <1>1 DEF InfoRecord
<1> HIDE DEF a, b, c
<1> QED
  BY <1>1, <1>2, <1>3, <1>4, InfoStep

(* What a thread does with the message it carries.                         *)
LEMMA CarriedItem ==
  ASSUME TypeInv, NEW t \in App \cup {Rx}, Carries(th[t])
  PROVE  /\ th[t].item \in Item \ {EOF} /\ th[t].item.to \in Handle /\ th[t].item.n \in Ordinal
<1>1. WellFormed(t, th[t])
  BY Names DEF TypeInv, ThreadInv
<1>2. th[t].item \in Item \ {EOF}
  BY <1>1 DEF WellFormed, ThreadRecord
<1> QED
  BY <1>2, ItemType

LEMMA PushCases ==
  ASSUME TypeInv, NEW t \in App \cup {Rx}, Push(t)
  PROVE  LET item == th[t].item
             h == item.to IN
    \/ undefined' # "no" /\ UNCHANGED <<info, th, gone>>
    \/ /\ info' = [info EXCEPT ![h] = [info[h] EXCEPT !.lock = NoOne,
                                           !.pending = Queued(info[h].pending, item)]]
       /\ gone' = gone
    \/ /\ info[h].stage = "live"
       /\ info' = [info EXCEPT ![h] = [info[h] EXCEPT !.lock = NoOne,
                                           !.queue = Queued(WithRoom(info[h].queue), item)]]
       /\ gone' = gone \cup Displaced(info[h].queue)
    \/ /\ info' = [info EXCEPT ![h] = [info[h] EXCEPT !.lock = NoOne]]
       /\ gone' = gone \cup {item.n}
<1> DEFINE item == th[t].item
           h == item.to
           unlocked == [info EXCEPT ![h] = Unlocked(@)]
<1>1. h \in Handle
  BY CarriedItem DEF Push, Is, Carries
<1>2. info \in [Handle -> InfoRecord]
  BY DEF TypeInv, InfoOK
<1>3. unlocked = [info EXCEPT ![h] = [info[h] EXCEPT !.lock = NoOne]]
  BY DEF Unlocked
<1>4. [unlocked EXCEPT ![h].pending = Queued(@, item)]
        = [info EXCEPT ![h] = [info[h] EXCEPT !.lock = NoOne,
                                   !.pending = Queued(info[h].pending, item)]]
  BY <1>1, <1>2 DEF Unlocked, InfoRecord
<1>5. [unlocked EXCEPT ![h].queue = Append(WithRoom(@), item)]
        = [info EXCEPT ![h] = [info[h] EXCEPT !.lock = NoOne,
                                   !.queue = Queued(WithRoom(info[h].queue), item)]]
  BY <1>1, <1>2 DEF Unlocked, InfoRecord, Queued
<1>6. \/ undefined' # "no" /\ UNCHANGED <<info, th, gone>>
      \/ info' = [unlocked EXCEPT ![h].pending = Queued(@, item)] /\ gone' = gone
      \/ /\ info[h].stage = "live"
         /\ info' = [unlocked EXCEPT ![h].queue = Append(WithRoom(@), item)]
         /\ gone' = gone \cup Displaced(info[h].queue)
      \/ info' = unlocked /\ gone' = gone \cup {item.n}
  <2> HIDE DEF unlocked
  <2> QED
    BY DEF Push, Undefined, unlocked
<1> QED
  BY <1>3, <1>4, <1>5, <1>6

LEMMA PushInfo ==
  ASSUME TypeInv, NEW t \in App \cup {Rx}, Push(t)
  PROVE  InfoOK'
<1> DEFINE item == th[t].item
           h == item.to
           p == [info[h] EXCEPT !.lock = NoOne, !.pending = Queued(info[h].pending, item)]
           q == [info[h] EXCEPT !.lock = NoOne, !.queue = Queued(WithRoom(info[h].queue), item)]
           u == [info[h] EXCEPT !.lock = NoOne]
<1>1. h \in Handle /\ item \in Item \ {EOF}
  BY CarriedItem DEF Push, Is, Carries
<1>2. InfoOK /\ scenario' = scenario
  BY DEF Push, Within, bounds, TypeInv
<1>3. /\ info[h] \in InfoRecord /\ Len(info[h].queue) <= QueueLen
      /\ info[h].queue \in Seq(Item \ {EOF}) /\ info[h].pending \in Seq(Item \ {EOF})
  BY <1>1, <1>2, HandleRecord
<1>4. UNCHANGED info \/ info' = [info EXCEPT ![h] = p] \/ info' = [info EXCEPT ![h] = q]
      \/ info' = [info EXCEPT ![h] = u]
  BY PushCases
<1>5. Queued(info[h].pending, item) \in Seq(Item \ {EOF})
  BY <1>1, <1>3, AppendShape DEF Queued
<1>6. /\ Queued(WithRoom(info[h].queue), item) \in Seq(Item \ {EOF})
      /\ Len(Queued(WithRoom(info[h].queue), item)) <= QueueLen
  BY <1>1, <1>3, QueueType
<1>7. p \in InfoRecord /\ p.queue = info[h].queue
  BY <1>3, <1>5 DEF InfoRecord
<1>8. q \in InfoRecord /\ q.queue = Queued(WithRoom(info[h].queue), item)
  BY <1>3, <1>6 DEF InfoRecord
<1>9. u \in InfoRecord /\ u.queue = info[h].queue
  BY <1>3 DEF InfoRecord
<1> HIDE DEF p, q, u, h, item
<1> QED
  BY <1>1, <1>2, <1>3, <1>4, <1>6, <1>7, <1>8, <1>9, InfoStep, InfoStays

LEMMA QueuesInfo ==
  ASSUME InfoOK, scenario' = scenario, NEW h \in Handle,
         \/ \E k \in 1..Len(info[h].queue) : info' = [info EXCEPT ![h].queue = RemoveAt(@, k)]
         \/ info[h].pending # <<>> /\ info' = [info EXCEPT ![h].pending = Unlinked(@)]
         \/ info' = [info EXCEPT ![h] = FreshInfo]
  PROVE  InfoOK'
<1>1. /\ info[h] \in InfoRecord /\ Len(info[h].queue) <= QueueLen
      /\ info[h].queue \in Seq(Item \ {EOF}) /\ info[h].pending \in Seq(Item \ {EOF})
  BY HandleRecord
<1>2. CASE \E k \in 1..Len(info[h].queue) : info' = [info EXCEPT ![h].queue = RemoveAt(@, k)]
  <2>1. PICK k \in 1..Len(info[h].queue) : info' = [info EXCEPT ![h].queue = RemoveAt(@, k)]
    BY <1>2
  <2>2. RemoveAt(info[h].queue, k) \in Seq(Item \ {EOF})
        /\ Len(RemoveAt(info[h].queue, k)) = Len(info[h].queue) - 1
    BY <1>1, RemoveShape
  <2> DEFINE r == [info[h] EXCEPT !.queue = RemoveAt(info[h].queue, k)]
  <2>3. r \in InfoRecord /\ r.queue = RemoveAt(info[h].queue, k)
    BY <1>1, <2>2 DEF InfoRecord
  <2>4. info' = [info EXCEPT ![h] = r]
    BY <2>1
  <2>5. Len(info[h].queue) - 1 <= QueueLen
    BY <1>1, QueueLenType, SeqShape
  <2> HIDE DEF r
  <2> QED
    BY <1>1, <2>2, <2>3, <2>4, <2>5, InfoStep
<1>3. CASE info[h].pending # <<>> /\ info' = [info EXCEPT ![h].pending = Unlinked(@)]
  <2>1. Unlinked(info[h].pending) \in Seq(Item \ {EOF})
    BY <1>1, <1>3, TailShape DEF Unlinked
  <2> DEFINE r == [info[h] EXCEPT !.pending = Unlinked(info[h].pending)]
  <2>2. r \in InfoRecord /\ r.queue = info[h].queue
    BY <1>1, <2>1 DEF InfoRecord
  <2>3. info' = [info EXCEPT ![h] = r]
    BY <1>3
  <2> HIDE DEF r
  <2> QED
    BY <1>1, <2>2, <2>3, InfoStep
<1>4. CASE info' = [info EXCEPT ![h] = FreshInfo]
  <2>1. Len(FreshInfo.queue) <= QueueLen
    BY FreshType, QueueLenType
  <2> QED
    BY <1>4, <2>1, FreshType, InfoStep
<1> QED
  BY <1>2, <1>3, <1>4

LEMMA NextInfo ==
  ASSUME TypeInv, [Next]_vars
  PROVE  InfoOK'
<1>0. InfoOK
  BY DEF TypeInv
<1>1. ASSUME NEW t \in App, Proceeds(t) PROVE InfoOK'
  <2>0. scenario' = scenario /\ t \in Thread
    BY <1>1, Names DEF Proceeds, StartThreads, Insert, Register, AddMask, SendMask, DeleteMask, CheckProgress, Grab,
                Read, GrabNothing, Receives, Lookup, LockHandle, Push, Reconnect, Scan, PollNothing,
                UnlockAgain, Finalize, Join, JoinedUnlock, RemoveHandle, Within, bounds
  <2>1. th[t].pc # "idle" => th[t].h \in Handle
    BY AppThread
  <2>2. CASE StartThreads(t) \/ RemoveHandle(t)
    <3>1. info' = [info EXCEPT ![th[t].h] = FreshInfo] /\ th[t].pc # "idle"
      BY <2>2 DEF StartThreads, RemoveHandle, Is
    <3> QED
      BY <1>0, <2>0, <2>1, <3>1, QueuesInfo
  <2>3. CASE AddMask(t) \/ DeleteMask(t)
    BY <2>0, <2>3, MapsInfo
  <2>4. CASE Push(t)
    BY <2>4, PushInfo
  <2>5. CASE LockHandle(t)
    <3>1. th[t].item.to \in Handle
      BY <2>5, CarriedItem DEF LockHandle, Is, Carries
    <3>2. info' = [info EXCEPT ![th[t].item.to].lock = t]
      BY <2>5 DEF LockHandle
    <3> QED
      BY <1>0, <2>0, <3>1, <3>2, LocksInfo
  <2>6. CASE Scan(t)
    <3>1. th[t].h \in Handle
      BY <2>1, <2>6 DEF Scan, Is
    <3>2. info[th[t].h].queue \in Seq(Item \ {EOF})
      BY <1>0, <3>1, HandleRecord
    <3> DEFINE fitting == Fitting(info[th[t].h].queue, th[t].mask)
    <3>3. CASE fitting # {}
      <4>1. Min(fitting) \in 1..Len(info[th[t].h].queue)
        BY <3>2, <3>3, FittingType
      <4>2. info' = [info EXCEPT ![th[t].h].queue = RemoveAt(@, Min(fitting))]
        BY <2>6, <3>3 DEF Scan
      <4> QED
        BY <1>0, <2>0, <3>1, <4>1, <4>2, QueuesInfo
    <3>4. CASE fitting = {}
      BY <1>0, <2>0, <2>6, <3>4, InfoStays DEF Scan
    <3> QED
      BY <3>3, <3>4
  <2>7. CASE PollNothing(t) \/ JoinedUnlock(t)
    <3>1. UNCHANGED info \/ info' = [info EXCEPT ![th[t].h].lock = NoOne]
      BY <2>7 DEF PollNothing, JoinedUnlock, UnlockAgain
    <3>2. th[t].h \in Handle
      BY <2>1, <2>7 DEF PollNothing, JoinedUnlock, Is
    <3> QED
      BY <1>0, <2>0, <3>1, <3>2, LocksInfo, InfoStays
  <2>8. CASE Finalize(t) \/ Join(t)
    <3>1. \/ info' = [info EXCEPT ![th[t].h].stage = "closing", ![th[t].h].finalizing = TRUE,
                                  ![th[t].h].queue = <<>>]
          \/ info' = [info EXCEPT ![th[t].h].stage = "gone"]
      BY <2>8 DEF Finalize, Join
    <3>2. th[t].h \in Handle
      BY <2>1, <2>8 DEF Finalize, Join, Is
    <3> QED
      BY <1>0, <2>0, <3>1, <3>2, LocksInfo
  <2>9. CASE UNCHANGED info
    BY <1>0, <2>0, <2>9, InfoStays
  <2> QED
    BY <1>1, <2>2, <2>3, <2>4, <2>5, <2>6, <2>7, <2>8, <2>9
    DEF Proceeds, Insert, Register, SendMask, CheckProgress, Grab, Read, GrabNothing,
        Receives, Lookup, Reconnect
<1>2. ASSUME RxStep PROVE InfoOK'
  <2>0. scenario' = scenario
    BY <1>2 DEF RxStep, LockRecv, Receive, Read, Receives, Lookup, LockHandle, Push, Reconnect, Within, bounds
  <2>1. CASE Push(Rx)
    BY <2>1, PushInfo
  <2>2. CASE LockHandle(Rx)
    <3>1. th[Rx].item.to \in Handle
      BY <2>2, CarriedItem DEF LockHandle, Is, Carries
    <3>2. info' = [info EXCEPT ![th[Rx].item.to].lock = Rx]
      BY <2>2 DEF LockHandle
    <3> QED
      BY <1>0, <2>0, <3>1, <3>2, LocksInfo, Names
  <2>3. CASE UNCHANGED info
    BY <1>0, <2>0, <2>3, InfoStays
  <2> QED
    BY <1>2, <2>1, <2>2, <2>3 DEF RxStep, LockRecv, Receive, Read, Receives, Lookup, Reconnect
<1>3. ASSUME NEW h \in Handle,
             CallbackStep(h) \/ \E s \in Subscription : UnsubscribeInCallback(h, s)
      PROVE  InfoOK'
  <2>0. scenario' = scenario
    BY <1>3 DEF CallbackStep, CallbackWaits, CallbackWakes, CallbackEnds, Proceed, Pick, CallbackReturns,
                FreeUnmatched, DeleteMask, CheckProgress, UnsubscribeInCallback, Within, bounds
  <2>1. CASE DeleteMask(h)
    BY <2>1, MapsInfo, Names
  <2>2. CASE CallbackReturns(h)
    <3>1. info[h].pending # <<>> /\ info' = [info EXCEPT ![h].pending = Unlinked(@)]
      BY <2>2 DEF CallbackReturns, Awaits, Is, TypeInv, HeadInv, NeedsEvent
    <3> QED
      BY <1>0, <2>0, <3>1, QueuesInfo
  <2>3. CASE UNCHANGED info
    BY <1>0, <2>0, <2>3, InfoStays
  <2> QED
    BY <1>3, <2>1, <2>2, <2>3 DEF CallbackStep, CallbackWaits, CallbackWakes, CallbackEnds, Proceed,
         Pick, FreeUnmatched, CheckProgress, UnsubscribeInCallback
<1>4. ASSUME NEW t \in App, NEW h \in Handle, Connect(t, h) \/ Disconnect(t, h) PROVE InfoOK'
  BY <1>0, <1>4, InfoStays DEF Connect, Disconnect, Calls
<1>5. ASSUME NEW t \in App, NEW s \in Subscription,
             Subscribe(t, s) \/ Unsubscribe(t, s) \/ Poll(t, s)
      PROVE  InfoOK'
  BY <1>0, <1>5, InfoStays DEF Subscribe, Unsubscribe, Poll, Calls
<1>6. CASE \/ \E h \in Handle, e \in Event : Arrive(h, e)
           \/ Lose
           \/ UNCHANGED vars
  BY <1>0, <1>6, InfoStays DEF Arrive, Lose, vars, bounds
<1>7. Notified \subseteq Handle
  BY DEF Handle
<1> QED
  BY <1>1, <1>2, <1>3, <1>4, <1>5, <1>6, <1>7 DEF Next

-----------------------------------------------------------------------------
(* A thread that carries on leaves the others alone, but for waking.       *)
Leaves(t) == \A u \in Thread \ {t} : th'[u] = th[u] \/ Wakes(u)

LEMMA Woken ==
  ASSUME ThreadInv, NEW u, Wakes(u)
  PROVE  /\ th[u].pc = "waiting" /\ th'[u].pc = "woken" /\ th'[u].item = th[u].item
         /\ th'[u].h = th[u].h /\ th'[u].ret = th[u].ret
<1>1. th[u] \in ThreadRecord
  BY Names DEF ThreadInv, Wakes
<1> QED
  BY <1>1 DEF Wakes, ThreadRecord

LEMMA AppLeaves ==
  ASSUME TypeInv, NEW t \in App \cup {Rx},
         \/ Register(t) \/ AddMask(t) \/ SendMask(t) \/ DeleteMask(t) \/ CheckProgress(t)
         \/ Insert(t) \/ Grab(t) \/ GrabNothing(t) \/ Receives(t) \/ Scan(t) \/ PollNothing(t)
         \/ (Finalize(t) /\ t \in App) \/ Join(t) \/ JoinedUnlock(t)
         \/ t = Rx /\ (LockRecv \/ Receive)
  PROVE  Leaves(t)
<1>0. th \in [Thread -> ThreadRecord] /\ t \in Thread /\ \A h \in Handle : h # t /\ h \in Thread
  BY Names DEF TypeInv, ThreadInv
<1>1. CASE Push(t)
  <2> DEFINE back == [th EXCEPT ![t].pc = Next1(t), ![t].item = EOF]
             h == th[t].item.to
  <2>1. UNCHANGED th \/ th' = back \/ (h \in Notified /\ th' = Signal(h, back))
    BY <1>1 DEF Push
  <2>2. back \in [Thread -> {back[u] : u \in Thread}] /\ \A u \in Thread \ {t} : back[u] = th[u]
    BY <1>0
  <2>3. h \in Notified => h \in Handle
    BY DEF Handle
  <2> HIDE DEF back, h
  <2> QED
    BY <1>0, <2>1, <2>2, <2>3 DEF Leaves, Signal, Wakes
<1>2. CASE Finalize(t) /\ t \in App
  <2> DEFINE back == [th EXCEPT ![t].pc = "join"]
             h == th[t].h
  <2>1. th' = [th EXCEPT ![t].pc = "remove"] \/ (h \in Notified /\ th' = Signal(h, back))
    BY <1>2 DEF Finalize
  <2>2. back \in [Thread -> {back[u] : u \in Thread}] /\ \A u \in Thread \ {t} : back[u] = th[u]
    BY <1>0
  <2>3. h \in Notified => h \in Handle
    BY DEF Handle
  <2> HIDE DEF back, h
  <2> QED
    BY <1>0, <2>1, <2>2, <2>3 DEF Leaves, Signal, Wakes
<1>3. CASE \/ Register(t) \/ AddMask(t) \/ SendMask(t) \/ DeleteMask(t) \/ CheckProgress(t)
           \/ Insert(t) \/ GrabNothing(t)
  BY <1>0, <1>3 DEF Leaves, Register, AddMask, SendMask, DeleteMask, CheckProgress, Insert, GrabNothing,
                    Progress, Goes, Resumes
<1>4. CASE Grab(t) \/ (t = Rx /\ (LockRecv \/ Receive))
  BY <1>0, <1>4 DEF Leaves, Grab, Read, LockRecv, Receive, Goes
<1>5. CASE Lookup(t) \/ LockHandle(t) \/ Reconnect(t)
  BY <1>0, <1>5 DEF Leaves, Lookup, LockHandle, Reconnect, Goes, Resumes
<1>6. CASE Scan(t) \/ PollNothing(t) \/ Join(t) \/ JoinedUnlock(t)
  BY <1>0, <1>6 DEF Leaves, Scan, PollNothing, Join, JoinedUnlock, Goes
<1> QED
  BY <1>1, <1>2, <1>3, <1>4, <1>5, <1>6 DEF Receives

LEMMA CallLeaves ==
  ASSUME TypeInv, NEW t \in App,
         \/ \E h \in Handle : Connect(t, h) \/ Disconnect(t, h)
         \/ \E s \in Subscription : Subscribe(t, s) \/ Unsubscribe(t, s) \/ Poll(t, s)
  PROVE  /\ Leaves(t) /\ th[t].pc = "idle" /\ th[t].item = EOF /\ th'[t].item = EOF
         /\ th'[t].pc \in {"threads", "finalize", "progress", "delete"}
         /\ UNCHANGED <<info, out, gone, undefined, cut, open, arrivals>>
<1>0. th \in [Thread -> ThreadRecord] /\ t \in Thread /\ WellFormed(t, th[t])
  BY Names DEF TypeInv, ThreadInv
<1>1. PICK r : Calls(t, r) /\ r.item = EOF /\ r.pc \in {"threads", "finalize", "progress", "delete"}
               /\ UNCHANGED <<info, out, gone, undefined, cut, open>>
  BY DEF Connect, Disconnect, Subscribe, Unsubscribe, Poll, history, Running, NoThread
<1>2. th' = [th EXCEPT ![t] = r] /\ th[t].pc = "idle" /\ UNCHANGED arrivals
  BY <1>1 DEF Calls, Is
<1>3. th[t].item = EOF
  BY <1>0, <1>2 DEF WellFormed, Carries
<1> QED
  BY <1>0, <1>1, <1>2, <1>3 DEF Leaves

(* Fields that stay, when another one changes.                             *)
OtherField(f, g, k, v, w) ==
  \/ g = [f EXCEPT ![k].lock = v]
  \/ g = [f EXCEPT ![k].stage = v]
  \/ g = [f EXCEPT ![k].polling = v]
  \/ g = [f EXCEPT ![k].callbacks = v]
  \/ g = [f EXCEPT ![k].polling = v, ![k].callbacks = w]
OtherFields(f, g) == g = f \/ \E k, v, w : OtherField(f, g, k, v, w)

SetsQueue(f, g, k, v) ==
  \/ g = [f EXCEPT ![k].queue = v]
  \/ g = [f EXCEPT ![k].stage = "closing", ![k].finalizing = TRUE, ![k].queue = v]

LEMMA FieldKept ==
  ASSUME NEW f \in [Handle -> InfoRecord], NEW h \in Handle, NEW k, NEW v, NEW w, NEW g,
         OtherField(f, g, k, v, w)
  PROVE  g[h].pending = f[h].pending /\ g[h].queue = f[h].queue
<1>1. f[h] \in InfoRecord
  OBVIOUS
<1>2. CASE h = k
  <2>1. CASE g = [f EXCEPT ![k].lock = v]
    BY <1>1, <1>2, <2>1 DEF InfoRecord
  <2>2. CASE g = [f EXCEPT ![k].stage = v]
    BY <1>1, <1>2, <2>2 DEF InfoRecord
  <2>3. CASE g = [f EXCEPT ![k].polling = v]
    BY <1>1, <1>2, <2>3 DEF InfoRecord
  <2>4. CASE g = [f EXCEPT ![k].callbacks = v]
    BY <1>1, <1>2, <2>4 DEF InfoRecord
  <2>5. CASE g = [f EXCEPT ![k].polling = v, ![k].callbacks = w]
    BY <1>1, <1>2, <2>5 DEF InfoRecord
  <2> QED
    BY <2>1, <2>2, <2>3, <2>4, <2>5 DEF OtherField
<1>3. CASE h # k
  <2>1. g[h] = f[h]
    BY <1>3 DEF OtherField
  <2> QED
    BY <2>1
<1> QED
  BY <1>2, <1>3

LEMMA FieldsKept ==
  ASSUME NEW f \in [Handle -> InfoRecord], NEW h \in Handle, NEW g, OtherFields(f, g)
  PROVE  g[h].pending = f[h].pending /\ g[h].queue = f[h].queue
BY FieldKept DEF OtherFields

LEMMA QueueKept ==
  ASSUME NEW f \in [Handle -> InfoRecord], NEW h \in Handle, NEW k, NEW v, NEW g,
         SetsQueue(f, g, k, v)
  PROVE  g[h].pending = f[h].pending /\ g[h].queue = IF h = k THEN v ELSE f[h].queue
<1>1. f[h] \in InfoRecord
  OBVIOUS
<1>2. CASE h = k
  <2>1. CASE g = [f EXCEPT ![k].queue = v]
    BY <1>1, <1>2, <2>1 DEF InfoRecord
  <2>2. CASE g = [f EXCEPT ![k].stage = "closing", ![k].finalizing = TRUE, ![k].queue = v]
    BY <1>1, <1>2, <2>2 DEF InfoRecord
  <2> QED
    BY <2>1, <2>2 DEF SetsQueue
<1>3. CASE h # k
  <2>1. g[h] = f[h]
    BY <1>3 DEF SetsQueue
  <2> QED
    BY <1>3, <2>1
<1> QED
  BY <1>2, <1>3

LEMMA OtherInfo ==
  ASSUME NEW t, \/ AddMask(t) \/ DeleteMask(t) \/ LockHandle(t) \/ PollNothing(t) \/ Join(t)
                \/ JoinedUnlock(t)
  PROVE  OtherFields(info, info')
<1>1. CASE AddMask(t)
  <2>1. \/ OtherField(info, info', th[t].h, Inserted(info[th[t].h].polling, th[t].mask), 0)
        \/ OtherField(info, info', th[t].h, Inserted(info[th[t].h].callbacks, th[t].mask), 0)
    BY <1>1 DEF AddMask, OtherField
  <2> QED
    BY <2>1 DEF OtherFields
<1>2. CASE DeleteMask(t)
  <2>1. OtherField(info, info', th[t].h, Removed(info[th[t].h].polling, th[t].mask),
                   Removed(info[th[t].h].callbacks, th[t].mask))
    BY <1>2 DEF DeleteMask, OtherField
  <2> QED
    BY <2>1 DEF OtherFields
<1>3. CASE LockHandle(t)
  <2>1. OtherField(info, info', th[t].item.to, t, 0)
    BY <1>3 DEF LockHandle, OtherField
  <2> QED
    BY <2>1 DEF OtherFields
<1>4. CASE PollNothing(t) \/ JoinedUnlock(t)
  <2>1. UNCHANGED info \/ OtherField(info, info', th[t].h, NoOne, 0)
    BY <1>4 DEF PollNothing, JoinedUnlock, UnlockAgain, OtherField
  <2> QED
    BY <2>1 DEF OtherFields
<1>5. CASE Join(t)
  <2>1. OtherField(info, info', th[t].h, "gone", 0)
    BY <1>5 DEF Join, OtherField
  <2> QED
    BY <2>1 DEF OtherFields
<1> QED
  BY <1>1, <1>2, <1>3, <1>4, <1>5

(* In the callbacks' queue of a handle, what is there stays.               *)
LEMMA PendingGrows ==
  ASSUME TypeInv, NEW t \in App \cup {Rx}, NEW h \in Handle, info[h].pending # <<>>,
         \/ Register(t) \/ AddMask(t) \/ SendMask(t) \/ DeleteMask(t) \/ CheckProgress(t)
         \/ Insert(t) \/ Grab(t) \/ GrabNothing(t) \/ Receives(t) \/ Scan(t) \/ PollNothing(t)
         \/ Finalize(t) \/ Join(t) \/ JoinedUnlock(t)
         \/ t = Rx /\ (LockRecv \/ Receive)
  PROVE  info'[h].pending # <<>>
<1>0. info \in [Handle -> InfoRecord] /\ \A k \in Handle : info[k].pending \in Seq(Item \ {EOF})
  BY HandleRecord DEF TypeInv, InfoOK
<1>1. CASE Push(t)
  <2> DEFINE item == th[t].item
             k == item.to
             p == [info[k] EXCEPT !.lock = NoOne, !.pending = Queued(info[k].pending, item)]
             q == [info[k] EXCEPT !.lock = NoOne, !.queue = Queued(WithRoom(info[k].queue), item)]
             u == [info[k] EXCEPT !.lock = NoOne]
  <2>1. k \in Handle /\ item \in Item \ {EOF}
    BY <1>1, CarriedItem DEF Push, Is, Carries
  <2>2. UNCHANGED info \/ info' = [info EXCEPT ![k] = p] \/ info' = [info EXCEPT ![k] = q]
        \/ info' = [info EXCEPT ![k] = u]
    BY <1>1, PushCases
  <2>3. Queued(info[k].pending, item) # <<>>
    <3>1. info[k].pending \in Seq(Item \ {EOF})
      BY <1>0, <2>1
    <3>2. Len(Append(info[k].pending, item)) = Len(info[k].pending) + 1 /\ Len(info[k].pending) \in Nat
      BY <2>1, <3>1, AppendShape, SeqShape
    <3>3. Len(Append(info[k].pending, item)) # Len(<<>>)
      BY <3>2
    <3> QED
      BY <3>3 DEF Queued
  <2>4. p.pending # <<>> /\ q.pending = info[k].pending /\ u.pending = info[k].pending
    BY <1>0, <2>1, <2>3 DEF InfoRecord
  <2> HIDE DEF p, q, u, k, item
  <2>5. info \in [Handle -> InfoRecord]
    BY <1>0
  <2>6. CASE h = k
    BY <2>1, <2>2, <2>4, <2>5, <2>6
  <2>7. CASE h # k
    BY <2>1, <2>2, <2>5, <2>7
  <2> QED
    BY <2>6, <2>7
<1>2. CASE \/ AddMask(t) \/ DeleteMask(t) \/ LockHandle(t) \/ PollNothing(t) \/ Join(t)
           \/ JoinedUnlock(t)
  <2>1. OtherFields(info, info')
    BY <1>2, OtherInfo
  <2>2. info'[h].pending = info[h].pending
    BY <1>0, <2>1, FieldsKept
  <2> QED
    BY <2>2
<1>3. CASE Scan(t) \/ Finalize(t)
  <2>1. UNCHANGED info \/ \E k, v : SetsQueue(info, info', k, v)
    BY <1>3 DEF Scan, Finalize, SetsQueue
  <2>2. info'[h].pending = info[h].pending
    BY <1>0, <2>1, QueueKept
  <2> QED
    BY <2>2
<1>4. CASE UNCHANGED info
  BY <1>4
<1> QED
  BY <1>1, <1>2, <1>3, <1>4
  DEF Register, SendMask, CheckProgress, Insert, Grab, Read, GrabNothing, Receives, Lookup, Reconnect,
      LockRecv, Receive

LEMMA NextHead ==
  ASSUME TypeInv, [Next]_vars
  PROVE  HeadInv'
<1>0. HeadInv /\ th \in [Thread -> ThreadRecord] /\ info \in [Handle -> InfoRecord]
      /\ \A h \in Handle : h \in Thread
  BY Names DEF TypeInv, ThreadInv, InfoOK
<1>1. ASSUME NEW t \in App, Proceeds(t), ~ StartThreads(t), ~ RemoveHandle(t)
      PROVE  HeadInv'
  <2>1. \A h \in Handle : info[h].pending # <<>> => info'[h].pending # <<>>
    BY <1>1, PendingGrows DEF Proceeds
  <2>2. Leaves(t)
    BY <1>1, AppLeaves DEF Proceeds
  <2>3. \A h \in Handle : th'[h] = th[h] \/ Wakes(h)
    BY <1>0, <2>2, Names DEF Leaves
  <2> QED
    BY <1>0, <2>1, <2>3, Woken DEF HeadInv, NeedsEvent, TypeInv
<1>2. ASSUME NEW t \in App, StartThreads(t) \/ RemoveHandle(t)
      PROVE  HeadInv'
  <2> DEFINE h == th[t].h
  <2>1. h \in Handle /\ th[t].pc \in {"threads", "remove"}
    BY <1>2, AppThread DEF StartThreads, RemoveHandle, Is
  <2>2. t \in Thread /\ t \notin Handle
    BY Names
  <2>3. \A k \in Handle \ {h} : info'[k] = info[k] /\ (th'[k] = th[k] \/ th'[k] = NoThread)
    BY <1>0, <1>2, <2>2, Names DEF StartThreads, RemoveHandle, Goes
  <2>4. th'[h].pc \in {"start", "none"}
    <3>1. CASE StartThreads(t) /\ h \in Notified
      BY <1>0, <2>1, <2>2, <3>1, Names DEF StartThreads, Running, NoThread
    <3>2. CASE StartThreads(t) /\ h \notin Notified
      <4>1. th'[h] = th[h] /\ th[h] = NoThread
        BY <1>0, <2>1, <2>2, <3>2 DEF StartThreads, Goes, TypeInv, CountInv
      <4> QED
        BY <4>1 DEF NoThread
    <3>3. CASE RemoveHandle(t)
      BY <1>0, <2>1, <2>2, <3>3 DEF RemoveHandle, NoThread
    <3> QED
      BY <1>2, <3>1, <3>2, <3>3
  <2>5. NoThread.pc = "none"
    BY DEF NoThread
  <2> QED
    BY <1>0, <2>3, <2>4, <2>5 DEF HeadInv, NeedsEvent
<1>3. ASSUME NEW t \in App,
             \/ \E h \in Handle : Connect(t, h) \/ Disconnect(t, h)
             \/ \E s \in Subscription : Subscribe(t, s) \/ Unsubscribe(t, s) \/ Poll(t, s)
      PROVE  HeadInv'
  <2>1. Leaves(t) /\ UNCHANGED info
    BY <1>3, CallLeaves
  <2>2. \A h \in Handle : th'[h] = th[h] \/ Wakes(h)
    BY <1>0, <2>1, Names DEF Leaves
  <2> QED
    BY <1>0, <2>1, <2>2, Woken DEF HeadInv, NeedsEvent, TypeInv
<1>4. ASSUME RxStep PROVE HeadInv'
  <2>1. \A h \in Handle : info[h].pending # <<>> => info'[h].pending # <<>>
    BY <1>4, PendingGrows DEF RxStep
  <2>2. Leaves(Rx)
    BY <1>4, AppLeaves DEF RxStep
  <2>3. \A h \in Handle : th'[h] = th[h] \/ Wakes(h)
    BY <1>0, <2>2, Names DEF Leaves
  <2> QED
    BY <1>0, <2>1, <2>3, Woken DEF HeadInv, NeedsEvent, TypeInv
<1>5. ASSUME NEW h \in Handle,
             CallbackStep(h) \/ \E s \in Subscription : UnsubscribeInCallback(h, s)
      PROVE  HeadInv'
  <2>1. \A k \in Handle \ {h} : th'[k] = th[k] /\ info'[k].pending = info[k].pending
    <3>1. CASE \/ CallbackWaits(h) \/ CallbackWakes(h) \/ CallbackEnds(h) \/ Pick(h)
               \/ CallbackReturns(h) \/ FreeUnmatched(h)
      BY <1>0, <3>1 DEF CallbackWaits, CallbackWakes, CallbackEnds, Pick, CallbackReturns,
                        FreeUnmatched, Proceed, Goes
    <3>2. CASE CheckProgress(h) \/ \E s \in Subscription : UnsubscribeInCallback(h, s)
      BY <1>0, <3>2 DEF CheckProgress, UnsubscribeInCallback, Resumes, Goes
    <3>3. CASE DeleteMask(h)
      BY <1>0, <3>3 DEF DeleteMask, Progress, InfoRecord
    <3> QED
      BY <1>5, <3>1, <3>2, <3>3 DEF CallbackStep
  <2>2. th'[h].pc \in NeedsEvent => info'[h].pending # <<>>
    <3>1. CASE \/ CallbackWaits(h) \/ CallbackWakes(h) \/ CallbackEnds(h) \/ Pick(h)
               \/ FreeUnmatched(h)
      BY <1>0, <3>1 DEF CallbackWaits, CallbackWakes, CallbackEnds, Pick, Is, Awaits,
                        FreeUnmatched, Proceed, Goes, HeadInv, NeedsEvent, ThreadRecord
    <3>2. CASE CallbackReturns(h)
      <4>1. th'[h].pc = "start"
        BY <1>0, <3>2 DEF CallbackReturns, Goes, ThreadRecord
      <4> QED
        BY <4>1 DEF NeedsEvent
    <3>3. CASE CheckProgress(h) \/ \E s \in Subscription : UnsubscribeInCallback(h, s)
      <4>1. th[h].pc \in {"calling", "progress"} /\ UNCHANGED info
        BY <3>3 DEF CheckProgress, UnsubscribeInCallback, Is
      <4> QED
        BY <1>0, <4>1 DEF HeadInv, NeedsEvent
    <3>4. CASE DeleteMask(h)
      <4>1. th[h].pc = "delete" /\ info'[h].pending = info[h].pending
        BY <1>0, <3>4 DEF DeleteMask, Is, InfoRecord
      <4> QED
        BY <1>0, <4>1 DEF HeadInv, NeedsEvent
    <3> QED
      BY <1>5, <3>1, <3>2, <3>3, <3>4 DEF CallbackStep
  <2> QED
    BY <1>0, <2>1, <2>2 DEF HeadInv
<1>6. CASE \/ \E h \in Handle, e \in Event : Arrive(h, e)
           \/ Lose
           \/ UNCHANGED vars
  <2>1. UNCHANGED <<info, th>>
    BY <1>6 DEF Arrive, Lose, vars
  <2> QED
    BY <1>0, <2>1 DEF HeadInv
<1>7. Notified \subseteq Handle
  BY DEF Handle
<1> QED
  BY <1>1, <1>2, <1>3, <1>4, <1>5, <1>6, <1>7 DEF Next

-----------------------------------------------------------------------------
(* The agent and the connection; what is kept.                             *)

LEMMA NetStays ==
  ASSUME NetOK, UNCHANGED <<recvLock, net, scenario>>
  PROVE  NetOK'
BY LastingTypes DEF NetOK, net

LEMMA ReadNet ==
  ASSUME NetOK, NEW t, Read(t), recvLock' \in {Rx, NoOne}, scenario' = scenario
  PROVE  NetOK'
<1>1. stream \in Seq(Item) /\ stream # <<>>
  BY DEF NetOK, Read
<1>2. stream' = Tail(stream) \/ stream' = <<>>
  BY DEF Read
<1>3. Tail(stream) \in Seq(Item) /\ <<>> \in Seq(Item)
  BY <1>1, TailShape
<1>4. stream' \in Seq(Item)
  BY <1>2, <1>3
<1>5. known' \in {known, {}} /\ agent' \in {agent, [h \in Handle |-> {}]}
  BY DEF Read
<1>6. known' \subseteq Handle /\ agent' \in [Handle -> SUBSET Mask]
  BY <1>5 DEF NetOK
<1> QED
  BY <1>4, <1>6, LastingTypes DEF NetOK

LEMMA AppNet ==
  ASSUME TypeInv, NEW t \in App, Proceeds(t)
  PROVE  NetOK'
<1>0. NetOK /\ t \in Thread /\ WellFormed(t, th[t]) /\ info \in [Handle -> InfoRecord]
  BY Names DEF TypeInv, ThreadInv, InfoOK
<1>1. th[t].pc # "idle" => th[t].h \in Handle
  BY AppThread
<1>2. CASE Register(t)
  <2>1. /\ th[t].h \in Handle /\ UNCHANGED <<recvLock, stream, agent, scenario>>
        /\ known' \in {known, known \cup {th[t].h}}
    BY <1>1, <1>2 DEF Register, Is, Within, bounds
  <2> QED
    BY <1>0, <2>1, LastingTypes DEF NetOK
<1>3. CASE SendMask(t)
  <2>1. th[t].pc = "subscribe" /\ UNCHANGED <<recvLock, stream, known, scenario>>
        /\ agent' \in {agent, [agent EXCEPT ![th[t].h] = @ \cup {th[t].mask}]}
    BY <1>3 DEF SendMask, Is, Within, bounds
  <2>2. [h |-> th[t].h, mask |-> th[t].mask, how |-> th[t].how] \in Subscription
    BY <1>0, <2>1 DEF WellFormed, AppRecord
  <2>3. th[t].mask \in Mask
    BY <2>2 DEF Subscription
  <2>4. agent' \in [Handle -> SUBSET Mask]
    BY <1>0, <2>1, <2>3 DEF NetOK
  <2> QED
    BY <1>0, <2>1, <2>4, LastingTypes DEF NetOK
<1>4. CASE Grab(t)
  <2>1. Read(t) /\ UNCHANGED <<recvLock, scenario>>
    BY <1>4 DEF Grab, Read, Within, bounds
  <2> QED
    BY <1>0, <2>1, ReadNet DEF NetOK
<1>5. CASE Reconnect(t)
  <2>1. UNCHANGED <<recvLock, stream, scenario>> /\ known' \in {known, open}
        /\ agent' \in {agent, [h \in Handle |-> IF h \in open THEN MapsOf(h) ELSE agent[h]]}
    BY <1>5 DEF Reconnect, Within, bounds
  <2>2. \A h \in Handle : MapsOf(h) \subseteq Mask
    BY <1>0, HandleRecord, SeqShape DEF MapsOf, Keys, TypeInv
  <2>3. agent' \in [Handle -> SUBSET Mask]
    BY <1>0, <2>1, <2>2 DEF NetOK
  <2>4. open \subseteq Handle
    BY DEF TypeInv, CountInv
  <2> QED
    BY <1>0, <2>1, <2>3, <2>4, LastingTypes DEF NetOK
<1>6. CASE RemoveHandle(t)
  <2>1. /\ UNCHANGED <<recvLock, scenario>>
        /\ \/ stream' = <<>> /\ known' = {} /\ agent' = [k \in Handle |-> {}]
           \/ UNCHANGED net
    BY <1>6 DEF RemoveHandle, Within, bounds
  <2>2. CASE UNCHANGED net
    BY <1>0, <2>1, <2>2, NetStays
  <2>3. CASE stream' = <<>> /\ known' = {} /\ agent' = [k \in Handle |-> {}]
    BY <1>0, <2>1, <2>3, LastingTypes DEF NetOK
  <2> QED
    BY <2>1, <2>2, <2>3
<1>7. CASE UNCHANGED <<recvLock, net, scenario>>
  BY <1>0, <1>7, NetStays
<1> QED
  BY <1>2, <1>3, <1>4, <1>5, <1>6, <1>7
  DEF Proceeds, StartThreads, Insert, AddMask, DeleteMask, CheckProgress, GrabNothing, Receives,
      Lookup, LockHandle, Push, Scan, PollNothing, UnlockAgain, Finalize, Join, JoinedUnlock,
      Within, bounds

LEMMA NextNet ==
  ASSUME TypeInv, [Next]_vars
  PROVE  NetOK'
<1>0. NetOK /\ info \in [Handle -> InfoRecord] /\ open \subseteq Handle
  BY DEF TypeInv, InfoOK, CountInv
<1>1. ASSUME NEW t \in App, Proceeds(t) PROVE NetOK'
  BY <1>1, AppNet
<1>2. ASSUME NEW t \in App, NEW h \in Handle, Connect(t, h) \/ Disconnect(t, h) PROVE NetOK'
  <2>1. scenario' = scenario /\ recvLock' \in {NoOne, recvLock} /\ stream' \in {<<>>, stream}
        /\ known' \in {{}, known, known \ {h}}
        /\ agent' \in {agent, [k \in Handle |-> {}], [agent EXCEPT ![h] = {}]}
    BY <1>2 DEF Connect, Disconnect, Calls, net
  <2>2. agent' \in [Handle -> SUBSET Mask]
    BY <1>0, <2>1 DEF NetOK
  <2>3. known' \subseteq Handle /\ recvLock' \in {Rx, NoOne}
    BY <1>0, <2>1 DEF NetOK
  <2>4. stream' \in Seq(Item)
    <3>1. <<>> \in Seq(Item) /\ stream \in Seq(Item)
      BY <1>0 DEF NetOK
    <3> QED
      BY <2>1, <3>1
  <2> QED
    BY <2>1, <2>2, <2>3, <2>4, LastingTypes DEF NetOK
<1>3. ASSUME NEW s \in Subscription,
             \/ \E t \in App : Subscribe(t, s) \/ Unsubscribe(t, s) \/ Poll(t, s)
             \/ \E h \in Notified : UnsubscribeInCallback(h, s)
      PROVE  NetOK'
  <2>1. UNCHANGED <<scenario, recvLock, stream, known>>
        /\ agent' \in {agent, [agent EXCEPT ![s.h] = @ \ {s.mask}]}
    BY <1>3 DEF Subscribe, Unsubscribe, Poll, UnsubscribeInCallback, Cancelled, Calls, net, Within,
                bounds
  <2>2. agent' \in [Handle -> SUBSET Mask]
    BY <1>0, <2>1 DEF NetOK
  <2> QED
    BY <1>0, <2>1, <2>2, LastingTypes DEF NetOK
<1>4. CASE RxStep
  <2>1. CASE LockRecv
    <3>1. UNCHANGED <<scenario, net>> /\ recvLock' = Rx
      BY <2>1 DEF LockRecv, Within, bounds
    <3> QED
      BY <1>0, <3>1, LastingTypes DEF NetOK, net
  <2>2. CASE Receive
    <3>1. Read(Rx) /\ recvLock' = NoOne /\ scenario' = scenario
      BY <2>2 DEF Receive, Read, Within, bounds
    <3> QED
      BY <1>0, <3>1, ReadNet
  <2>3. CASE Reconnect(Rx)
    <3>1. UNCHANGED <<recvLock, stream, scenario>> /\ known' \in {known, open}
          /\ agent' \in {agent, [h \in Handle |-> IF h \in open THEN MapsOf(h) ELSE agent[h]]}
      BY <2>3 DEF Reconnect, Within, bounds
    <3>2. \A h \in Handle : MapsOf(h) \subseteq Mask
      BY <1>0, HandleRecord, SeqShape DEF MapsOf, Keys, TypeInv
    <3>3. agent' \in [Handle -> SUBSET Mask]
      BY <1>0, <3>1, <3>2 DEF NetOK
    <3> QED
      BY <1>0, <3>1, <3>3, LastingTypes DEF NetOK
  <2>4. CASE Lookup(Rx) \/ LockHandle(Rx) \/ Push(Rx)
    BY <1>0, <2>4, NetStays DEF Lookup, LockHandle, Push, Within, bounds
  <2> QED
    BY <1>4, <2>1, <2>2, <2>3, <2>4 DEF RxStep, Receives
<1>5. ASSUME NEW h \in Notified, CallbackStep(h) PROVE NetOK'
  BY <1>0, <1>5, NetStays DEF CallbackStep, CallbackWaits, CallbackWakes, CallbackEnds, Proceed,
       Pick, CallbackReturns, FreeUnmatched, DeleteMask, CheckProgress, Within, bounds
<1>6. ASSUME NEW h \in Handle, NEW e \in Event, Arrive(h, e) PROVE NetOK'
  <2> DEFINE item == [n |-> arrivals + 1, to |-> h, ev |-> e]
  <2>1. UNCHANGED <<scenario, recvLock, known, agent>> /\ stream' = Append(stream, item)
        /\ arrivals < scenario.events
    BY <1>6 DEF Arrive
  <2>2. scenario.events \in Nat /\ arrivals \in 0..scenario.events
    BY ScenariosType DEF TypeInv, PastOK
  <2>3. item \in Item
    BY <2>1, <2>2 DEF Item, Ordinal
  <2> HIDE DEF item
  <2>4. stream' \in Seq(Item)
    BY <1>0, <2>1, <2>3, AppendShape DEF NetOK
  <2> QED
    BY <1>0, <2>1, <2>4, LastingTypes DEF NetOK
<1>7. CASE Lose
  <2>1. UNCHANGED <<scenario, recvLock, known, agent>> /\ stream' = Append(stream, EOF)
    BY <1>7 DEF Lose
  <2>2. EOF \in Item
    BY DEF Item
  <2>3. stream' \in Seq(Item)
    BY <1>0, <2>1, <2>2, AppendShape DEF NetOK
  <2> QED
    BY <1>0, <2>1, <2>3, LastingTypes DEF NetOK
<1>8. CASE UNCHANGED vars
  BY <1>0, <1>8, NetStays DEF vars, bounds
<1> QED
  BY <1>1, <1>2, <1>3, <1>4, <1>5, <1>6, <1>7, <1>8 DEF Next

(* What only grows, or is counted.                                         *)
Handed == [how : {"polling", "callback"}, mask : Mask \cup {NoOne}, n : Ordinal]

LEMMA PastStays ==
  ASSUME PastOK, UNCHANGED <<scenario, cut>>,
         held' \subseteq Subscription, out' \in [Handle -> Seq(Handed)],
         gone' \subseteq Ordinal \cup {0},
         calls' \in 0..scenario.calls, arrivals' \in 0..scenario.events,
         losses' \in 0..scenario.losses
  PROVE  PastOK'
BY LastingTypes DEF PastOK, Handed

LEMMA PastType ==
  ASSUME PastOK
  PROVE  /\ held \subseteq Subscription /\ out \in [Handle -> Seq(Handed)]
         /\ gone \subseteq Ordinal \cup {0}
         /\ calls \in 0..scenario.calls /\ arrivals \in 0..scenario.events
         /\ losses \in 0..scenario.losses
         /\ scenario.calls \in Nat /\ scenario.events \in Nat /\ scenario.losses \in Nat
BY ScenariosType DEF PastOK, Handed

(* Events dropped from the queues of a handle.                             *)
LEMMA QueuesDropped ==
  ASSUME InfoOK, NEW h \in Handle
  PROVE  /\ {info[h].queue[i].n : i \in DOMAIN info[h].queue} \subseteq Ordinal
         /\ {info[h].pending[i].n : i \in DOMAIN info[h].pending} \subseteq Ordinal
<1>1. info[h].queue \in Seq(Item \ {EOF}) /\ info[h].pending \in Seq(Item \ {EOF})
  BY HandleRecord
<1>2. /\ \A i \in DOMAIN info[h].queue : info[h].queue[i] \in Item \ {EOF}
      /\ \A i \in DOMAIN info[h].pending : info[h].pending[i] \in Item \ {EOF}
  BY <1>1, SeqShape
<1> QED
  BY <1>2, ItemType

LEMMA AppPast ==
  ASSUME TypeInv, NEW t \in App \cup {Rx},
         (t \in App /\ Proceeds(t)) \/ (t = Rx /\ RxStep)
  PROVE  PastOK'
<1>0. PastOK /\ t \in Thread /\ WellFormed(t, th[t]) /\ InfoOK /\ NetOK
  BY Names DEF TypeInv, ThreadInv
<1>1. t \in App /\ th[t].pc # "idle" => th[t].h \in Handle
  BY AppThread
<1>2. CASE AddMask(t) /\ t \in App
  <2>1. th[t].pc = "add" /\ UNCHANGED <<history, bounds>>
        /\ held' = held \cup {[h |-> th[t].h, mask |-> th[t].mask, how |-> th[t].how]}
    BY <1>2 DEF AddMask, Is, Within
  <2>2. [h |-> th[t].h, mask |-> th[t].mask, how |-> th[t].how] \in Subscription
    BY <1>0, <1>2, <2>1 DEF WellFormed, AppRecord
  <2> QED
    BY <1>0, <2>1, <2>2, PastType, PastStays DEF history, bounds
<1>3. CASE Lookup(t)
  <2>1. UNCHANGED <<held, out, cut, bounds>> /\ gone' \in {gone, gone \cup {th[t].item.n}}
    BY <1>3 DEF Lookup, Within
  <2>2. th[t].item.n \in Ordinal
    BY <1>3, CarriedItem DEF Lookup, Is, Carries
  <2>3. gone' \subseteq Ordinal \cup {0}
    BY <1>0, <2>1, <2>2, PastType
  <2> QED
    BY <1>0, <2>1, <2>3, PastType, PastStays DEF bounds
<1>4. CASE Push(t)
  <2> DEFINE h == th[t].item.to
  <2>1. UNCHANGED <<held, out, cut, bounds>>
    BY <1>4 DEF Push, Within
  <2>2. th[t].item.n \in Ordinal /\ h \in Handle
    BY <1>4, CarriedItem DEF Push, Is, Carries
  <2>3. gone' \in {gone, gone \cup Displaced(info[h].queue), gone \cup {th[t].item.n}}
    BY <1>4, PushCases
  <2>4. Displaced(info[h].queue) \subseteq Ordinal
    <3>1. info[h].queue \in Seq(Item \ {EOF}) /\ Len(info[h].queue) <= QueueLen
      BY <1>0, <2>2, HandleRecord
    <3>2. \A i \in 1..Len(info[h].queue) : info[h].queue[i] \in Item \ {EOF}
      BY <3>1, SeqShape
    <3>3. \A i \in 1..Len(info[h].queue) : info[h].queue[i].n \in Ordinal
      BY <3>2, ItemType
    <3>4. CASE Len(info[h].queue) = QueueLen
      <4>1. info[h].queue # <<>>
        BY <3>4, QueueLenType
      <4>2. Head(info[h].queue) = info[h].queue[1] /\ 1 \in 1..Len(info[h].queue)
        BY <3>1, <4>1, TailShape
      <4> QED
        BY <3>3, <4>2 DEF Displaced
    <3>5. CASE Len(info[h].queue) # QueueLen
      BY <3>5 DEF Displaced
    <3> QED
      BY <3>4, <3>5
  <2>5. gone' \subseteq Ordinal \cup {0}
    BY <1>0, <2>2, <2>3, <2>4, PastType
  <2> QED
    BY <1>0, <2>1, <2>5, PastType, PastStays DEF bounds
<1>5. CASE Scan(t) /\ t \in App
  <2> DEFINE queue == info[th[t].h].queue
             fitting == Fitting(queue, th[t].mask)
             handed == [how |-> "polling", mask |-> th[t].mask, n |-> queue[Min(fitting)].n]
  <2>1. UNCHANGED <<held, gone, cut, bounds>> /\ th[t].pc = "look"
    BY <1>5 DEF Scan, Within, Is
  <2>2. th[t].h \in Handle /\ th[t].mask \in Mask \cup {NoOne}
    BY <1>0, <1>1, <1>5, <2>1 DEF WellFormed, ThreadRecord
  <2>3. queue \in Seq(Item \ {EOF})
    BY <1>0, <2>2, HandleRecord
  <2>4. CASE fitting # {}
    <3>1. Min(fitting) \in 1..Len(queue)
      BY <2>3, <2>4, FittingType
    <3>2. queue[Min(fitting)] \in Item \ {EOF}
      BY <2>3, <3>1, SeqShape
    <3>3. handed \in Handed
      BY <2>2, <3>2, ItemType DEF Handed
    <3>4. out' = [out EXCEPT ![th[t].h] = Append(@, handed)]
      BY <1>5, <2>4 DEF Scan
    <3> HIDE DEF handed
    <3>5. out' \in [Handle -> Seq(Handed)]
      BY <1>0, <2>2, <3>3, <3>4, PastType, AppendShape
    <3> QED
      BY <1>0, <2>1, <3>5, PastType, PastStays DEF bounds
  <2>5. CASE fitting = {}
    <3>1. UNCHANGED out
      BY <1>5, <2>5 DEF Scan
    <3> QED
      BY <1>0, <2>1, <3>1, PastType, PastStays DEF bounds
  <2> QED
    BY <2>4, <2>5
<1>6. CASE Finalize(t) /\ t \in App
  <2>1. /\ UNCHANGED <<held, out, cut, bounds>> /\ th[t].pc = "finalize"
        /\ gone' = gone \cup {info[th[t].h].queue[i].n : i \in DOMAIN info[th[t].h].queue}
    BY <1>6 DEF Finalize, Within, Is
  <2>2. gone' \subseteq Ordinal \cup {0}
    BY <1>0, <1>1, <1>6, <2>1, PastType, QueuesDropped
  <2> QED
    BY <1>0, <2>1, <2>2, PastType, PastStays DEF bounds
<1>7. CASE RemoveHandle(t) /\ t \in App
  <2> DEFINE h == th[t].h
             cancelled == IF h \in Notified /\ enable = 1 THEN {Rx} ELSE {}
  <2>1. /\ UNCHANGED <<held, out, bounds>> /\ th[t].pc = "remove" /\ cut' \in BOOLEAN
        /\ gone' \subseteq gone \cup {info[h].pending[i].n : i \in DOMAIN info[h].pending}
                  \cup {th[u].item.n : u \in cancelled} \cup {stream[i].n : i \in DOMAIN stream}
    <3>1. cut \in BOOLEAN
      BY <1>0 DEF PastOK
    <3> QED
      BY <1>7, <3>1 DEF RemoveHandle, Within, Is
  <2>2. {info[h].pending[i].n : i \in DOMAIN info[h].pending} \subseteq Ordinal
    BY <1>0, <1>1, <1>7, <2>1, QueuesDropped
  <2>3. \A x \in Item : x.n \in Ordinal \cup {0}
    BY DEF Item, EOF
  <2>4. {th[u].item.n : u \in cancelled} \subseteq Ordinal \cup {0}
    <3>1. th[Rx].item \in Item
      BY Names DEF TypeInv, ThreadInv, ThreadRecord
    <3> QED
      BY <2>3, <3>1
  <2>5. {stream[i].n : i \in DOMAIN stream} \subseteq Ordinal \cup {0}
    <3>1. \A i \in DOMAIN stream : stream[i] \in Item
      BY <1>0, SeqShape DEF NetOK
    <3> QED
      BY <2>3, <3>1
  <2>6. gone' \subseteq Ordinal \cup {0}
    BY <1>0, <2>1, <2>2, <2>4, <2>5, PastType
  <2> HIDE DEF cancelled, h
  <2> QED
    BY <1>0, <2>1, <2>6, LastingTypes DEF bounds, PastOK
<1>8. CASE UNCHANGED <<held, history, bounds>>
  BY <1>0, <1>8, PastType, PastStays DEF history, bounds
<1> QED
  BY <1>2, <1>3, <1>4, <1>5, <1>6, <1>7, <1>8
  DEF Proceeds, StartThreads, Insert, Register, SendMask, DeleteMask, CheckProgress, Grab, Read,
      GrabNothing, Receives, LockHandle, Reconnect, PollNothing, UnlockAgain, Join, JoinedUnlock,
      RxStep, LockRecv, Receive, Within

LEMMA NextPast ==
  ASSUME TypeInv, [Next]_vars
  PROVE  PastOK'
<1>0. PastOK
  BY DEF TypeInv
<1>1. ASSUME NEW t \in App, Proceeds(t) PROVE PastOK'
  BY <1>1, AppPast
<1>2. CASE RxStep
  BY <1>2, AppPast
<1>3. ASSUME NEW t \in App,
             \/ \E h \in Handle : Connect(t, h) \/ Disconnect(t, h)
             \/ \E s \in Subscription : Subscribe(t, s) \/ Unsubscribe(t, s) \/ Poll(t, s)
      PROVE  PastOK'
  <2>1. /\ UNCHANGED <<history, scenario, arrivals, losses>> /\ held' \subseteq held
        /\ calls' = calls + 1 /\ calls < scenario.calls
    BY <1>3 DEF Connect, Disconnect, Subscribe, Unsubscribe, Poll, Calls
  <2>2. calls' \in 0..scenario.calls
    BY <1>0, <2>1, PastType
  <2> QED
    BY <1>0, <2>1, <2>2, PastType, PastStays DEF history
<1>4. ASSUME NEW h \in Handle, Pick(h) PROVE PastOK'
  <2> DEFINE item == Head(info[h].pending)
             handed == [how |-> "callback", mask |-> NoOne, n |-> item.n]
  <2>1. UNCHANGED <<held, gone, cut, bounds>> /\ th[h].pc = "pick"
        /\ (UNCHANGED out \/ out' = [out EXCEPT ![h] = Append(@, handed)])
    BY <1>4 DEF Pick, Within, Is
  <2>2. info[h].pending \in Seq(Item \ {EOF}) /\ info[h].pending # <<>>
    BY <2>1, HandleRecord DEF TypeInv, HeadInv, NeedsEvent
  <2>3. item \in Item \ {EOF}
    BY <2>2, TailShape
  <2>4. handed \in Handed
    BY <2>3, ItemType DEF Handed
  <2> HIDE DEF handed
  <2>5. out' \in [Handle -> Seq(Handed)]
    <3>1. out \in [Handle -> Seq(Handed)] /\ out[h] \in Seq(Handed)
      BY <1>0, PastType
    <3>2. Append(out[h], handed) \in Seq(Handed)
      BY <2>4, <3>1, AppendShape
    <3> QED
      BY <2>1, <3>1, <3>2
  <2> QED
    BY <1>0, <2>1, <2>5, PastType, PastStays DEF bounds
<1>5. ASSUME NEW h \in Handle, CallbackStep(h) PROVE PastOK'
  <2>1. CASE UNCHANGED <<held, history, bounds>>
    BY <1>0, <2>1, PastType, PastStays DEF history, bounds
  <2> QED
    BY <1>4, <1>5, <2>1 DEF CallbackStep, CallbackWaits, CallbackWakes, CallbackEnds, Proceed,
       CallbackReturns, FreeUnmatched, DeleteMask, CheckProgress, Within
<1>6. ASSUME NEW h \in Handle, NEW s \in Subscription, UnsubscribeInCallback(h, s) PROVE PastOK'
  <2>1. UNCHANGED <<history, bounds>> /\ held' \subseteq held
    BY <1>6 DEF UnsubscribeInCallback, Within
  <2> QED
    BY <1>0, <2>1, PastType, PastStays DEF history, bounds
<1>7. CASE Lose \/ \E h \in Handle, e \in Event : Arrive(h, e)
  <2>1. /\ UNCHANGED <<held, history, scenario, calls>>
        /\ \/ losses < scenario.losses /\ losses' = losses + 1 /\ arrivals' = arrivals
           \/ arrivals < scenario.events /\ arrivals' = arrivals + 1 /\ losses' = losses
    BY <1>7 DEF Lose, Arrive
  <2>2. arrivals' \in 0..scenario.events /\ losses' \in 0..scenario.losses
    BY <1>0, <2>1, PastType
  <2> QED
    BY <1>0, <2>1, <2>2, PastType, PastStays DEF history
<1>8. CASE UNCHANGED vars
  BY <1>0, <1>8, PastType, PastStays DEF vars, history, bounds
<1>9. Notified \subseteq Handle
  BY DEF Handle
<1> QED
  BY <1>1, <1>2, <1>3, <1>5, <1>6, <1>7, <1>8, <1>9 DEF Next

-----------------------------------------------------------------------------
(* At first.                                                               *)

LEMMA FiniteImage ==
  ASSUME NEW S, IsFiniteSet(S), NEW f
  PROVE  IsFiniteSet({f[x] : x \in S})
<1> DEFINE T == {f[x] : x \in S}
           g == [x \in S |-> f[x]]
<1>1. g \in Surjection(S, T)
  BY DEF Surjection
<1> HIDE DEF g
<1> QED
  BY <1>1, FS_Surjection

LEMMA BootType ==
  ASSUME Init
  PROVE  /\ scenario \in Scenarios /\ scenario.boot \subseteq Subscription
         /\ IsFiniteSet(scenario.boot)
         /\ Booted \subseteq Handle /\ IsFiniteSet(Booted)
         /\ {scenario.calls, scenario.events, scenario.losses} \subseteq Nat
<1>1. scenario \in Scenarios
  BY DEF Init
<1>2. scenario.boot \subseteq Subscription /\ IsFiniteSet(scenario.boot)
      /\ {scenario.calls, scenario.events, scenario.losses} \subseteq Nat
  BY <1>1, ScenariosType
<1>3. \A s \in Subscription : s.h \in Handle
  BY DEF Subscription, Handle
<1> DEFINE f == [s \in scenario.boot |-> s.h]
<1>4. {f[s] : s \in scenario.boot} = Booted
  BY DEF Booted
<1> HIDE DEF f
<1>5. IsFiniteSet(Booted)
  BY <1>2, <1>4, FiniteImage
<1> QED
  BY <1>1, <1>2, <1>3, <1>5 DEF Booted

LEMMA InSequence ==
  ASSUME NEW S, NEW T, IsFiniteSet(S), S \subseteq T
  PROVE  SetToSeq(S) \in Seq(T)
<1>1. Cardinality(S) \in Nat /\ ExistsBijection(1..Cardinality(S), S)
  BY FS_CardinalityType
<1>2. \E f \in [1..Cardinality(S) -> S] : IsInjective(f)
  BY <1>1 DEF ExistsBijection, Bijection, Injection, IsInjective
<1>3. SetToSeq(S) \in [1..Cardinality(S) -> S]
  BY <1>2 DEF SetToSeq
<1>4. SetToSeq(S) \in [1..Cardinality(S) -> T]
  BY <1>3
<1> QED
  BY <1>1, <1>4

LEMMA BootMapType ==
  ASSUME Init, NEW h, NEW how
  PROVE  BootMap(h, how) \in Seq(Mask)
<1> DEFINE B == {b \in scenario.boot : b.h = h /\ b.how = how}
           f == [s \in B |-> s.mask]
<1>1. IsFiniteSet(B) /\ B \subseteq Subscription
  BY BootType, FS_Subset
<1>2. {f[s] : s \in B} = {s.mask : s \in B}
  OBVIOUS
<1>3. \A s \in Subscription : s.mask \in Mask
  BY DEF Subscription
<1>4. {s.mask : s \in B} \subseteq Mask
  BY <1>1, <1>3
<1> HIDE DEF f, B
<1>5. IsFiniteSet({f[s] : s \in B})
  BY <1>1, FiniteImage
<1>6. SetToSeq({s.mask : s \in B}) \in Seq(Mask)
  BY <1>2, <1>4, <1>5, InSequence
<1> QED
  BY <1>6 DEF BootMap, B

LEMMA InitThreads ==
  ASSUME Init
  PROVE  ThreadInv /\ CountInv /\ AloneInv /\ HeadInv
<1>1. /\ th = [t \in Thread |-> th[t]]
      /\ \A t \in App : th[t] = Running("idle")
      /\ \A h \in Handle : th[h] = IF h \in Booted \cap Notified THEN Running("start") ELSE NoThread
      /\ th[Rx] = IF Booted \cap Notified # {} THEN Running("receive") ELSE NoThread
  <2>1. Idle = Running("idle")
    BY DEF Idle, Running
  <2>2. th = [t \in Thread |->
          CASE t \in App                                  -> Idle
            [] t = Rx /\ Booted \cap Notified # {}        -> Running("receive")
            [] t \in Booted \cap Notified                 -> Running("start")
            [] OTHER                                      -> NoThread]
    BY DEF Init
  <2>3. \A t \in App : th[t] = Idle
    BY <2>2, Names, BootType
  <2>4. ASSUME NEW h \in Handle
        PROVE  th[h] = IF h \in Booted \cap Notified THEN Running("start") ELSE NoThread
    BY <2>2, Names
  <2>5. th[Rx] = IF Booted \cap Notified # {} THEN Running("receive") ELSE NoThread
    BY <2>2, Names, BootType
  <2> QED
    BY <2>1, <2>2, <2>3, <2>4, <2>5
<1>2. \A t \in Thread : WellFormed(t, th[t])
  <2>1. \A t \in App : WellFormed(t, th[t])
    BY <1>1, FreshRecords
  <2>2. \A h \in Handle : WellFormed(h, th[h])
    BY <1>1, FreshRecords, Names
  <2>3. WellFormed(Rx, th[Rx])
    BY <1>1, FreshRecords, Names
  <2> QED
    BY <2>1, <2>2, <2>3, Names
<1>3. ThreadInv
  BY <1>1, <1>2 DEF ThreadInv, WellFormed
<1>4. \A t \in App : th[t].pc = "idle"
  BY <1>1 DEF Running, NoThread
<1>5. Counted = Booted /\ Served = Booted /\ open = Booted
  BY <1>4 DEF Counted, Served, OfThreads, Init
<1>6. \A h \in Handle : h \notin Booted \cap Notified => th[h].pc = "none"
  BY <1>1 DEF NoThread
<1>7. CountInv
  BY <1>1, <1>5, <1>6, BootType DEF CountInv, Init
<1>8. AloneInv
  BY <1>4 DEF AloneInv, Opening, Closing, Exclusive
<1>9. HeadInv
  <2>1. Running("start").pc = "start" /\ NoThread.pc = "none"
    BY DEF Running, NoThread
  <2> QED
    BY <1>1, <2>1 DEF HeadInv, NeedsEvent
<1> QED
  BY <1>3, <1>7, <1>8, <1>9

LEMMA InitTypes ==
  ASSUME Init
  PROVE  InfoOK /\ NetOK /\ PastOK
<1>1. ASSUME NEW h \in Handle
      PROVE  /\ info[h] = [FreshInfo EXCEPT !.polling = BootMap(h, "polling"),
                                            !.callbacks = BootMap(h, "callback")]
             /\ info[h] \in InfoRecord /\ info[h].queue = <<>>
  <2>1. BootMap(h, "polling") \in Seq(Mask) /\ BootMap(h, "callback") \in Seq(Mask)
    BY BootMapType
  <2>2. info[h] = [FreshInfo EXCEPT !.polling = BootMap(h, "polling"),
                                    !.callbacks = BootMap(h, "callback")]
    BY DEF Init
  <2>3. FreshInfo \in InfoRecord /\ FreshInfo.queue = <<>>
    BY FreshType
  <2> QED
    BY <2>1, <2>2, <2>3 DEF InfoRecord
<1>2. InfoOK
  <2>1. info = [h \in Handle |-> info[h]]
    BY DEF Init
  <2>2. Len(<<>>) <= QueueLen
    BY QueueLenType
  <2> QED
    BY <1>1, <2>1, <2>2 DEF InfoOK
<1>3. \A s \in Subscription : s.mask \in Mask
  BY DEF Subscription
<1>4. NetOK
  <2>1. agent = [h \in Handle |-> {s.mask : s \in {b \in scenario.boot : b.h = h}}]
    BY DEF Init
  <2>2. \A h \in Handle : {s.mask : s \in {b \in scenario.boot : b.h = h}} \subseteq Mask
    BY <1>3, BootType
  <2>3. agent \in [Handle -> SUBSET Mask]
    BY <2>1, <2>2
  <2>4. recvLock = NoOne /\ stream = <<>> /\ known = Booted
    BY DEF Init
  <2>5. stream \in Seq(Item)
    BY <2>4
  <2> QED
    BY <2>3, <2>4, <2>5, BootType DEF NetOK
<1>5. PastOK
  <2>1. out = [h \in Handle |-> <<>>] /\ gone = {} /\ cut = FALSE /\ held = scenario.boot
        /\ calls = 0 /\ arrivals = 0 /\ losses = 0
    BY DEF Init
  <2>2. <<>> \in Seq(Handed)
    OBVIOUS
  <2>3. out \in [Handle -> Seq(Handed)]
    BY <2>1, <2>2
  <2>4. 0 \in 0..scenario.calls /\ 0 \in 0..scenario.events /\ 0 \in 0..scenario.losses
    BY BootType
  <2>5. scenario \in Scenarios /\ held \subseteq Subscription
    BY <2>1, BootType
  <2>6. gone \subseteq Ordinal \cup {0} /\ cut \in BOOLEAN
    BY <2>1
  <2> QED
    BY <2>1, <2>3, <2>4, <2>5, <2>6 DEF PastOK, Handed
<1> QED
  BY <1>2, <1>4, <1>5

-----------------------------------------------------------------------------
(* Every variable has its type in every reachable state.                   *)

LEMMA Invariance == Spec => []TypeInv
<1>1. Init => TypeInv
  BY InitThreads, InitTypes DEF TypeInv
<1>2. TypeInv /\ [Next]_vars => TypeInv'
  BY NextThreads, NextInfo, NextNet, NextPast, NextHead DEF TypeInv
<1> QED
  BY <1>1, <1>2, PTL DEF Spec

LEMMA TypeInvImplies == TypeInv => TypeOK
<1> SUFFICES ASSUME TypeInv PROVE TypeOK
  OBVIOUS
<1>1. num \in Nat /\ enable \in 0..num
  <2>1. Served \cap Notified \subseteq Counted
    BY DEF Served, Counted, OfThreads
  <2>2. IsFiniteSet(Counted) /\ num = Cardinality(Counted) /\ enable = Cardinality(Served \cap Notified)
    BY DEF TypeInv, CountInv
  <2>3. IsFiniteSet(Served \cap Notified) /\ Cardinality(Served \cap Notified) <= Cardinality(Counted)
    BY <2>1, <2>2, FS_Subset
  <2>4. Cardinality(Counted) \in Nat /\ Cardinality(Served \cap Notified) \in Nat
    BY <2>2, <2>3, FS_CardinalityType
  <2> QED
    BY <2>2, <2>3, <2>4
<1>2. \A h \in Handle :
        /\ info[h].polling \in Seq(Mask) /\ info[h].callbacks \in Seq(Mask)
        /\ info[h].queue \in Seq(Item \ {EOF}) /\ info[h].pending \in Seq(Item \ {EOF})
        /\ info[h].lock \in Thread \cup {NoOne}
        /\ info[h].finalizing \in BOOLEAN
        /\ info[h].stage \in {"live", "closing", "gone"}
        /\ Len(info[h].queue) <= QueueLen
  BY DEF TypeInv, InfoOK, InfoRecord
<1>3. DOMAIN info = Handle
  BY DEF TypeInv, InfoOK
<1>4. th \in [Thread -> [pc : PCs, h : Handle \cup {NoOne}, mask : Mask \cup {NoOne},
                        how : {"polling", "callback"}, item : Item,
                        ret : {"idle", "add", "look", "calling"}, round : 1..2]]
  BY DEF TypeInv, ThreadInv, ThreadRecord
<1>5. \A h \in Handle : out[h] \in
        Seq([how : {"polling", "callback"}, mask : Mask \cup {NoOne}, n : Ordinal])
  BY DEF TypeInv, PastOK
<1>6. open \subseteq Handle
  BY DEF TypeInv, CountInv
<1>7. /\ recvLock \in {Rx, NoOne} /\ stream \in Seq(Item)
      /\ known \subseteq Handle /\ agent \in [Handle -> SUBSET Mask]
  BY DEF TypeInv, NetOK
<1>8. /\ held \subseteq Subscription
      /\ gone \subseteq Ordinal \cup {0} /\ cut \in BOOLEAN
      /\ scenario \in Scenarios /\ calls \in 0..scenario.calls
      /\ arrivals \in 0..scenario.events /\ losses \in 0..scenario.losses
  BY DEF TypeInv, PastOK
<1>9. \A h \in Handle :
        /\ {info[h].polling, info[h].callbacks} \subseteq Seq(Mask)
        /\ {info[h].queue, info[h].pending} \subseteq Seq(Item \ {EOF})
  BY <1>2
<1> QED
  BY <1>1, <1>2, <1>3, <1>4, <1>5, <1>6, <1>7, <1>8, <1>9, Zenon DEF TypeOK

(* Every variable has its type: above all, the counts of handles and of    *)
(* those with callbacks (num_components, enable_callback) are what was     *)
(* counted up and not down again, whichever threads connect and disconnect,*)
(* no polling queue outgrows its limit, and a thread of a handle that calls*)
(* back finds an event at the head of its queue.                           *)
THEOREM TypeCorrect == Spec => []TypeOK
BY Invariance, TypeInvImplies, PTL

=============================================================================
