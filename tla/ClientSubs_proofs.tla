-------------------------- MODULE ClientSubs_proofs --------------------------
(***************************************************************************)
(* The subscriptions of a client process, for all handles, threads and     *)
(* masks: at a quiet moment the maps of a handle hold exactly its          *)
(* subscriptions, and the agent knows of the handle and of all of them.    *)
(*                                                                         *)
(* In between, a map has what a thread is about to delete, and lacks what  *)
(* one is about to add; and the agent lacks what a thread is about to send *)
(* or, while the connection is lost, anything.                             *)
(***************************************************************************)
EXTENDS ClientLib_proofs

(* Who is about to change the maps of a handle.                            *)
Adds(t) == t \in App /\ th[t].ret = "add" /\ th[t].pc \notin {"idle", "subscribe"}
Deletes(t) == th[t].pc = "delete"
Alters(t) == Adds(t) \/ Deletes(t)
Leaving(h) == {th[t].mask : t \in {u \in Thread : Deletes(u) /\ th[u].h = h}}

(* A handle is closed from FTBC_Disconnect on.                             *)
Closed(h) == h \notin open \/ \E t \in App : th[t].h = h /\ th[t].pc \in Closing

(* No two entries have the same key.                                       *)
Apart(map) == \A i, j \in DOMAIN map : FTBU_is_equal_event(map[i], map[j]) => i = j

MapInv ==
  /\ \A h \in Handle : Apart(info[h].polling) /\ Apart(info[h].callbacks)
  /\ \A h \in Handle \ open : MapsOf(h) = {}
  /\ \A h \in Handle : Closed(h) => MasksHeld(h) = {}
  /\ \A t \in Thread : Alters(t) => ~ Closed(th[t].h)
  /\ \A h \in Handle \ BothStyles : ~ Closed(h) => MapsOf(h) = MasksHeld(h) \cup Leaving(h)
  /\ \A t \in Thread : Alters(t) /\ th[t].h \notin BothStyles => th[t].mask \notin MasksHeld(th[t].h)
  /\ \A t, u \in Thread :
       Alters(t) /\ Alters(u) /\ th[t].h \notin BothStyles
         /\ th[t].h = th[u].h /\ th[t].mask = th[u].mask => t = u
  /\ \A t \in Thread : Deletes(t) => th[t].ret \in {"idle", "calling"}

(* What the agent knows, while nobody is about to reconnect.               *)
Steady == Up /\ ~ cut /\ \A t \in Thread : th[t].pc # "reconnect"
Registering(h) == \E t \in App : th[t].pc = "register" /\ th[t].h = h
Sending(h, m) == \E t \in App : th[t].pc = "subscribe" /\ th[t].h = h /\ th[t].mask = m

Knows(h) ==
  /\ h \in known \/ Registering(h)
  /\ h \notin BothStyles => \A m \in MasksHeld(h) : m \in agent[h] \/ Sending(h, m)

RegInv == Steady => \A h \in open : ~ Closed(h) => Knows(h)

SubsInv == MapInv /\ RegInv

-----------------------------------------------------------------------------
(* Maps, as sets of masks, if no two masks are alike in the key.           *)

LEMMA SameKey ==
  ASSUME KeysTellApart, NEW a \in Mask, NEW b \in Mask
  PROVE  FTBU_is_equal_event(a, b) <=> a = b
<1>1. a = [f \in Field |-> a[f]] /\ b = [f \in Field |-> b[f]]
  BY MaskType
<1>2. ASSUME FTBU_is_equal_event(a, b) PROVE a = b
  <2>1. \A f \in Field : a[f] = b[f]
    BY <1>2 DEF KeysTellApart, FTBU_is_equal_event_mask, Agree
  <2>2. [f \in Field |-> a[f]] = [f \in Field |-> b[f]]
    BY <2>1
  <2> QED
    BY <1>1, <2>2
<1>3. FTBU_is_equal_event(a, a)
  BY DEF FTBU_is_equal_event, Agree
<1> QED
  BY <1>2, <1>3

LEMMA KeysShape ==
  ASSUME NEW map \in Seq(Mask)
  PROVE  /\ DOMAIN map = 1..Len(map) /\ Len(map) \in Nat
         /\ \A i \in 1..Len(map) : map[i] \in Mask
         /\ Keys(map) = {map[i] : i \in 1..Len(map)} /\ Keys(map) \subseteq Mask
BY SeqShape DEF Keys

LEMMA ApartShape ==
  ASSUME KeysTellApart, NEW map \in Seq(Mask)
  PROVE  Apart(map) <=> \A i, j \in 1..Len(map) : map[i] = map[j] => i = j
BY KeysShape, SameKey DEF Apart

LEMMA HoldsShape ==
  ASSUME KeysTellApart, NEW map \in Seq(Mask), NEW m \in Mask
  PROVE  Holds(map, EventKey, m) <=> m \in Keys(map)
<1>1. \A i \in 1..Len(map) : Agree(map[i], m, EventKey) <=> map[i] = m
  BY KeysShape, SameKey DEF FTBU_is_equal_event
<1> QED
  BY <1>1, KeysShape DEF Holds

LEMMA InsertedKeys ==
  ASSUME KeysTellApart, NEW map \in Seq(Mask), NEW m \in Mask, Apart(map)
  PROVE  Keys(Inserted(map, m)) = Keys(map) \cup {m} /\ Apart(Inserted(map, m))
<1>1. CASE m \in Keys(map)
  <2>1. Inserted(map, m) = map
    BY <1>1, HoldsShape DEF Inserted, FTBU_map_insert
  <2> QED
    BY <1>1, <2>1
<1>2. CASE m \notin Keys(map)
  <2>1. Inserted(map, m) = Append(map, m)
    BY <1>2, HoldsShape DEF Inserted, FTBU_map_insert
  <2> DEFINE new == Append(map, m)
  <2>2. /\ new \in Seq(Mask) /\ Len(new) = Len(map) + 1
        /\ \A i \in 1..Len(map) : new[i] = map[i]
        /\ new[Len(map) + 1] = m
    BY AppendShape
  <2>3. Len(map) \in Nat /\ \A i : i \in 1..Len(new) <=> i \in 1..Len(map) \/ i = Len(map) + 1
    BY <2>2, KeysShape
  <2> HIDE DEF new
  <2>4. Keys(new) = Keys(map) \cup {m}
    <3>1. \A x : x \in Keys(new) <=> \E i \in 1..Len(new) : x = new[i]
      BY <2>2, KeysShape
    <3>2. \A x : x \in Keys(map) <=> \E i \in 1..Len(map) : x = map[i]
      BY KeysShape
    <3> QED
      BY <2>2, <2>3, <3>1, <3>2
  <2>5. Apart(new)
    <3>1. \A i \in 1..Len(map) : map[i] # m
      BY <1>2, KeysShape
    <3>2. \A i, j \in 1..Len(map) : map[i] = map[j] => i = j
      BY ApartShape
    <3>3. \A i, j \in 1..Len(new) : new[i] = new[j] => i = j
      BY <2>2, <2>3, <3>1, <3>2
    <3> QED
      BY <2>2, <3>3, ApartShape
  <2> QED
    BY <2>1, <2>4, <2>5 DEF new
<1> QED
  BY <1>1, <1>2

LEMMA FoundKey ==
  ASSUME KeysTellApart, NEW map \in Seq(Mask), NEW m \in Mask, m \in Keys(map)
  PROVE  /\ FTBU_map_find_key(map, EventKey, m) \in 1..Len(map)
         /\ map[FTBU_map_find_key(map, EventKey, m)] = m
<1> DEFINE Found == {i \in DOMAIN map : Agree(map[i], m, EventKey)}
<1>1. Found \in SUBSET Nat /\ Found # {} /\ Found \subseteq 1..Len(map)
  BY HoldsShape, KeysShape DEF Holds
<1>2. PICK i \in Found : \A k \in Found : i <= k
  BY <1>1, Least
<1>3. i \in DOMAIN map /\ Agree(map[i], m, EventKey)
      /\ \A j \in 1..(i - 1) : ~ Agree(map[j], m, EventKey)
  <2>1. \A j \in 1..(i - 1) : j \in DOMAIN map /\ ~ (i <= j)
    BY <1>1, KeysShape
  <2> QED
    BY <1>2, <2>1
<1> DEFINE k == FTBU_map_find_key(map, EventKey, m)
<1>4. k \in DOMAIN map /\ Agree(map[k], m, EventKey)
  BY <1>3 DEF FTBU_map_find_key
<1> HIDE DEF k
<1>5. k \in 1..Len(map) /\ map[k] \in Mask
  BY <1>4, KeysShape
<1>6. map[k] = m
  BY <1>4, <1>5, SameKey DEF FTBU_is_equal_event
<1> QED
  BY <1>5, <1>6 DEF k

LEMMA RemovedKeys ==
  ASSUME KeysTellApart, NEW map \in Seq(Mask), NEW m \in Mask, Apart(map)
  PROVE  Keys(Removed(map, m)) = Keys(map) \ {m} /\ Apart(Removed(map, m))
<1>1. CASE m \notin Keys(map)
  <2>1. Removed(map, m) = map
    BY <1>1, HoldsShape DEF Removed, FTBU_map_remove_key
  <2> QED
    BY <1>1, <2>1
<1>2. CASE m \in Keys(map)
  <2> DEFINE k == FTBU_map_find_key(map, EventKey, m)
             new == RemoveAt(map, k)
  <2>1. Removed(map, m) = new
    BY <1>2, HoldsShape DEF Removed, FTBU_map_remove_key
  <2>2. k \in 1..Len(map) /\ map[k] = m
    BY <1>2, FoundKey
  <2> HIDE DEF k
  <2>3. /\ new \in Seq(Mask) /\ Len(new) = Len(map) - 1
        /\ \A i \in 1..Len(map)-1 : new[i] = IF i < k THEN map[i] ELSE map[i + 1]
    BY <2>2, RemoveShape
  <2>4. Len(map) \in Nat /\ \A i, j \in 1..Len(map) : map[i] = map[j] => i = j
    BY KeysShape, ApartShape
  <2> HIDE DEF new
  <2>5. Apart(new)
    <3>1. \A i, j \in 1..Len(new) : new[i] = new[j] => i = j
      BY <2>2, <2>3, <2>4
    <3> QED
      BY <2>3, <3>1, ApartShape
  <2>6. \A x : x \in Keys(new) <=> \E i \in 1..Len(map)-1 : x = new[i]
    <3>1. \A x : x \in Keys(new) <=> \E i \in 1..Len(new) : x = new[i]
      BY <2>3, KeysShape
    <3> QED
      BY <2>3, <3>1
  <2>7. \A x : x \in Keys(map) <=> \E i \in 1..Len(map) : x = map[i]
    BY KeysShape
  <2>8. ASSUME NEW x \in Keys(new) PROVE x \in Keys(map) /\ x # m
    <3>1. PICK i \in 1..Len(map)-1 : x = new[i]
      BY <2>6
    <3>2. CASE i < k
      BY <2>2, <2>3, <2>4, <2>7, <3>1, <3>2
    <3>3. CASE ~ (i < k)
      <4>1. x = map[i + 1] /\ i + 1 \in 1..Len(map) /\ i + 1 # k
        BY <2>2, <2>3, <2>4, <3>1, <3>3
      <4> QED
        BY <2>2, <2>4, <2>7, <4>1
    <3> QED
      BY <3>2, <3>3
  <2>9. ASSUME NEW x \in Keys(map), x # m PROVE x \in Keys(new)
    <3>1. PICK i \in 1..Len(map) : x = map[i]
      BY <2>7
    <3>2. CASE i < k
      <4>1. i \in 1..Len(map)-1 /\ new[i] = x
        BY <2>2, <2>3, <2>4, <3>1, <3>2
      <4> QED
        BY <2>6, <4>1
    <3>3. CASE k < i
      <4>1. i - 1 \in 1..Len(map)-1 /\ ~ (i - 1 < k) /\ (i - 1) + 1 = i
        BY <2>2, <2>4, <3>3
      <4>2. new[i - 1] = x
        BY <2>3, <3>1, <4>1
      <4> QED
        BY <2>6, <4>1, <4>2
    <3> QED
      BY <2>2, <2>9, <3>1, <3>2, <3>3
  <2> QED
    BY <2>1, <2>5, <2>8, <2>9
<1> QED
  BY <1>1, <1>2

-----------------------------------------------------------------------------
(* Steps that leave maps and subscriptions alone.                          *)

(* A thread that neither begins nor ends to change a map, nor to close.    *)
Keeps(t) ==
  /\ ~ Deletes(t) /\ th'[t].pc # "delete"
  /\ t \in App /\ th'[t].ret = "add" /\ th'[t].pc \notin {"idle", "subscribe"} =>
       Adds(t) /\ th'[t].h = th[t].h /\ th'[t].mask = th[t].mask
  /\ t \in App => (th'[t].pc \in Closing <=> th[t].pc \in Closing)
                   /\ (th[t].pc \in Closing => th'[t].h = th[t].h)

SameMaps ==
  \A h \in Handle : info'[h].polling = info[h].polling /\ info'[h].callbacks = info[h].callbacks

LEMMA WokenKeeps ==
  ASSUME ThreadInv, NEW u, Wakes(u)
  PROVE  u \notin App /\ ~ Deletes(u) /\ th'[u].pc # "delete"
BY Woken, Names DEF Wakes, Deletes

(* Who else is about to change maps.                                       *)
LEMMA OthersKeep ==
  ASSUME ThreadInv, NEW t \in Thread, Leaves(t)
  PROVE  \A u \in Thread \ {t} :
           /\ u \in App => th'[u] = th[u]
           /\ Deletes(u) => th'[u] = th[u]
           /\ Deletes(u)' => th'[u] = th[u] /\ Deletes(u)
           /\ Adds(u)' <=> Adds(u)
           /\ Alters(u)' => th'[u] = th[u] /\ Alters(u)
BY WokenKeeps DEF Leaves, Deletes, Adds, Alters

LEMMA ClosedStays ==
  ASSUME ThreadInv, NEW t \in Thread, Leaves(t), UNCHANGED open,
         t \in App => (th'[t].pc \in Closing <=> th[t].pc \in Closing)
                      /\ (th[t].pc \in Closing => th'[t].h = th[t].h)
  PROVE  \A h : Closed(h)' <=> Closed(h)
<1>1. \A u \in App : /\ th'[u].pc \in Closing <=> th[u].pc \in Closing
                     /\ th[u].pc \in Closing => th'[u].h = th[u].h
  BY OthersKeep, Names
<1>2. ASSUME NEW h
      PROVE  (\E u \in App : th'[u].h = h /\ th'[u].pc \in Closing)
               <=> \E u \in App : th[u].h = h /\ th[u].pc \in Closing
  BY <1>1
<1> QED
  BY <1>2 DEF Closed

(* What a change of maps is about.                                         *)
LEMMA Altered ==
  ASSUME TypeInv, NEW t \in Thread, Alters(t)
  PROVE  th[t].h \in Handle /\ th[t].mask \in Mask
<1>1. WellFormed(t, th[t])
  BY DEF TypeInv, ThreadInv
<1>2. CASE Adds(t)
  <2>1. [h |-> th[t].h, mask |-> th[t].mask, how |-> th[t].how] \in Subscription
    BY <1>1, <1>2 DEF WellFormed, AppRecord, Adds
  <2> QED
    BY <2>1 DEF Subscription, Handle
<1>3. CASE Deletes(t)
  BY <1>1, <1>3, Names DEF WellFormed, AppRecord, CallbackRecord, RxPCs, Deletes
<1> QED
  BY <1>2, <1>3 DEF Alters

(* Handles may come and go, while no map changes.                          *)
LEMMA MapFrame ==
  ASSUME MapInv, TypeInv,
         \A h \in Handle : Apart(info'[h].polling) /\ Apart(info'[h].callbacks),
         \A h \in Handle : Closed(h)' \/ MapsOf(h)' = MapsOf(h),
         \A h \in Handle \ open' : MapsOf(h)' = {},
         \A h \in Handle :
           \/ (Closed(h)' <=> Closed(h)) /\ MasksHeld(h)' = MasksHeld(h)
           \/ Closed(h)' /\ MasksHeld(h)' = {} /\ \A u \in Thread : Alters(u) => th[u].h # h
           \/ ~ Closed(h)' /\ Closed(h) /\ MasksHeld(h)' = {} /\ MapsOf(h) = {},
         \A u \in Thread : Alters(u)' => Alters(u) /\ th'[u].h = th[u].h /\ th'[u].mask = th[u].mask,
         \A u \in Thread : (Deletes(u)' <=> Deletes(u)) /\ (Deletes(u) => th'[u] = th[u])
  PROVE  MapInv'
<1>1. \A h : Leaving(h)' = Leaving(h)
  BY DEF Leaving
<1>2. \A u \in Thread : Alters(u) => th[u].h \in Handle /\ ~ Closed(th[u].h)
  BY Altered DEF MapInv
<1>3. \A h \in Handle : Closed(h) => Leaving(h) = {}
  BY <1>2 DEF Leaving, Alters
<1>4. \A h \in Handle : Apart(info[h].polling)' /\ Apart(info[h].callbacks)'
  BY DEF Apart
<1>5. \A h \in Handle \ open' : MapsOf(h)' = {}
  OBVIOUS
<1>6. \A h \in Handle : Closed(h)' => MasksHeld(h)' = {}
  BY DEF MapInv
<1>7. \A u \in Thread : Alters(u)' => ~ Closed(th[u].h)'
  <2> SUFFICES ASSUME NEW u \in Thread, Alters(u)' PROVE ~ Closed(th[u].h)'
    OBVIOUS
  <2> DEFINE k == th[u].h
  <2>1. Alters(u) /\ th'[u].h = k /\ k \in Handle /\ ~ Closed(k)
    BY <1>2
  <2>2. ~ Closed(k) /\ th'[u].h = k
    BY <2>1
  <2> QED
    BY <2>1 DEF Closed
<1>8. \A h \in Handle \ BothStyles : ~ Closed(h)' => MapsOf(h)' = MasksHeld(h)' \cup Leaving(h)'
  BY <1>1, <1>3 DEF MapInv
<1>9. \A u \in Thread : Alters(u)' /\ th'[u].h \notin BothStyles
                          => th'[u].mask \notin MasksHeld(th[u].h)'
  <2> SUFFICES ASSUME NEW u \in Thread, Alters(u)', th'[u].h \notin BothStyles
               PROVE  th'[u].mask \notin MasksHeld(th[u].h)'
    OBVIOUS
  <2> DEFINE k == th[u].h
  <2>1. Alters(u) /\ th'[u].h = k /\ th'[u].mask = th[u].mask /\ k \in Handle /\ ~ Closed(k)
    BY <1>2
  <2>2. th[u].mask \notin MasksHeld(k)
    BY <2>1 DEF MapInv
  <2>3. MasksHeld(k)' \subseteq MasksHeld(k)
    BY <2>1
  <2>4. MasksHeld(th[u].h)' = {s.mask : s \in {v \in held' : v.h = th'[u].h}}
        /\ MasksHeld(k)' = {s.mask : s \in {v \in held' : v.h = k}}
    BY DEF MasksHeld
  <2> QED
    BY <2>1, <2>2, <2>3, <2>4
<1>10. \A u, v \in Thread :
         Alters(u)' /\ Alters(v)' /\ th'[u].h \notin BothStyles
           /\ th'[u].h = th'[v].h /\ th'[u].mask = th'[v].mask => u = v
  <2>1. \A u, v \in Thread :
          Alters(u) /\ Alters(v) /\ th[u].h \notin BothStyles
            /\ th[u].h = th[v].h /\ th[u].mask = th[v].mask => u = v
    BY DEF MapInv
  <2> QED
    BY <2>1
<1>11. \A u \in Thread : Deletes(u)' => th'[u].ret \in {"idle", "calling"}
  BY DEF MapInv
<1> QED
  BY <1>4, <1>5, <1>6, <1>7, <1>8, <1>9, <1>10, <1>11 DEF MapInv

LEMMA MapStays ==
  ASSUME MapInv, TypeInv, NEW t \in Thread, Leaves(t), Keeps(t), UNCHANGED <<open, held>>, SameMaps
  PROVE  MapInv'
<1>1. \A h \in Handle : MapsOf(h)' = MapsOf(h) /\ Apart(info'[h].polling) /\ Apart(info'[h].callbacks)
  BY DEF SameMaps, MapsOf, Keys, Apart, MapInv
<1>2. \A h : MasksHeld(h)' = MasksHeld(h)
  BY DEF MasksHeld
<1>3. \A h : Closed(h)' <=> Closed(h)
  BY ClosedStays DEF Keeps, TypeInv
<1>4. \A u \in Thread : Alters(u)' => Alters(u) /\ th'[u].h = th[u].h /\ th'[u].mask = th[u].mask
  BY OthersKeep DEF Keeps, Alters, Adds, Deletes, TypeInv
<1>5. \A u \in Thread : (Deletes(u)' <=> Deletes(u)) /\ (Deletes(u) => th'[u] = th[u])
  BY OthersKeep DEF Keeps, Deletes, TypeInv
<1>6. \A h \in Handle \ open' : MapsOf(h)' = {}
  BY <1>1 DEF MapInv
<1> QED
  BY <1>1, <1>2, <1>3, <1>4, <1>5, <1>6, MapFrame

Quiet(t) == Leaves(t) /\ Keeps(t) /\ UNCHANGED <<open, held>> /\ SameMaps

LEMMA KeepsGoing ==
  ASSUME NEW t, th'[t].h = th[t].h, th'[t].mask = th[t].mask, th'[t].ret = th[t].ret,
         th[t].pc \notin {"idle", "delete", "subscribe"}, th'[t].pc # "delete",
         th'[t].pc \in Closing <=> th[t].pc \in Closing
  PROVE  Keeps(t)
BY DEF Keeps, Adds, Deletes

LEMMA KeepsDone ==
  ASSUME NEW t, th[t].pc # "delete", th[t].pc \notin Closing, th'[t].ret # "add",
         th'[t].pc # "delete", th'[t].pc \notin Closing
  PROVE  Keeps(t)
BY DEF Keeps, Deletes

(* Where it went.                                                          *)
LEMMA Went ==
  ASSUME TypeInv, NEW t \in Thread, NEW pc,
         \/ th' = [th EXCEPT ![t].pc = pc]
         \/ \E item : th' = [th EXCEPT ![t].pc = pc, ![t].item = item]
         \/ \E n : th' = [th EXCEPT ![t].pc = pc, ![t].round = n]
         \/ \E k \in Handle \ {t} : th' = Signal(k, [th EXCEPT ![t].pc = pc])
         \/ \E k \in Handle \ {t} : \E item : th' = Signal(k, [th EXCEPT ![t].pc = pc, ![t].item = item])
  PROVE  th'[t].pc = pc /\ th'[t].h = th[t].h /\ th'[t].mask = th[t].mask /\ th'[t].ret = th[t].ret
<1>1. th \in [Thread -> ThreadRecord] /\ th[t] \in ThreadRecord
  BY DEF TypeInv, ThreadInv
<1>2. CASE th' = [th EXCEPT ![t].pc = pc]
  BY <1>1, <1>2 DEF ThreadRecord
<1>3. ASSUME NEW item, th' = [th EXCEPT ![t].pc = pc, ![t].item = item]
      PROVE  th'[t].pc = pc /\ th'[t].h = th[t].h /\ th'[t].mask = th[t].mask /\ th'[t].ret = th[t].ret
  BY <1>1, <1>3 DEF ThreadRecord
<1>4. ASSUME NEW n, th' = [th EXCEPT ![t].pc = pc, ![t].round = n]
      PROVE  th'[t].pc = pc /\ th'[t].h = th[t].h /\ th'[t].mask = th[t].mask /\ th'[t].ret = th[t].ret
  BY <1>1, <1>4 DEF ThreadRecord
<1>5. ASSUME NEW k \in Handle \ {t}, th' = Signal(k, [th EXCEPT ![t].pc = pc])
      PROVE  th'[t].pc = pc /\ th'[t].h = th[t].h /\ th'[t].mask = th[t].mask /\ th'[t].ret = th[t].ret
  <2> DEFINE back == [th EXCEPT ![t].pc = pc]
  <2>1. back[t].pc = pc /\ back[t].h = th[t].h /\ back[t].mask = th[t].mask /\ back[t].ret = th[t].ret
    BY <1>1 DEF ThreadRecord
  <2>2. th' = Signal(k, back) /\ k # t
    BY <1>5
  <2> HIDE DEF back
  <2>3. th'[t] = back[t]
    BY <2>2 DEF Signal
  <2> QED
    BY <2>1, <2>3
<1>6. ASSUME NEW k \in Handle \ {t}, NEW item,
             th' = Signal(k, [th EXCEPT ![t].pc = pc, ![t].item = item])
      PROVE  th'[t].pc = pc /\ th'[t].h = th[t].h /\ th'[t].mask = th[t].mask /\ th'[t].ret = th[t].ret
  <2> DEFINE back == [th EXCEPT ![t].pc = pc, ![t].item = item]
  <2>1. back[t].pc = pc /\ back[t].h = th[t].h /\ back[t].mask = th[t].mask /\ back[t].ret = th[t].ret
    BY <1>1 DEF ThreadRecord
  <2>2. th' = Signal(k, back) /\ k # t
    BY <1>6
  <2> HIDE DEF back
  <2>3. th'[t] = back[t]
    BY <2>2 DEF Signal
  <2> QED
    BY <2>1, <2>3
<1> QED
  BY <1>2, <1>3, <1>4, <1>5, <1>6

LEMMA KeepsResumes ==
  ASSUME TypeInv, NEW t \in Thread, Resumes(t), th[t].pc \in {"progress", "grab", "reconnect"}
  PROVE  /\ Keeps(t) /\ th'[t].pc \in {"idle", "calling", "add", "look"}
<1>1. th \in [Thread -> ThreadRecord] /\ th[t] \in ThreadRecord
  BY DEF TypeInv, ThreadInv
<1>2. th'[t] = Resumed(th[t])
  BY <1>1 DEF Resumes, Resumed
<1>3. CASE th[t].ret \in {"idle", "calling"}
  <2>1. th'[t] = Running(th[t].ret)
    BY <1>2, <1>3 DEF Resumed
  <2>2. th'[t].pc = th[t].ret /\ th'[t].ret = "idle"
    BY <2>1 DEF Running, NoThread
  <2> QED
    BY <1>3, <2>2, KeepsDone DEF Closing
<1>4. CASE th[t].ret \notin {"idle", "calling"}
  <2>1. th[t].ret \in {"add", "look"}
    BY <1>1, <1>4 DEF ThreadRecord
  <2>2. th'[t] = [th[t] EXCEPT !.pc = th[t].ret]
    BY <1>2, <1>4 DEF Resumed
  <2>3. /\ th'[t].pc = th[t].ret /\ th'[t].h = th[t].h /\ th'[t].mask = th[t].mask
        /\ th'[t].ret = th[t].ret
    BY <1>1, <2>2 DEF ThreadRecord
  <2> QED
    BY <2>1, <2>3, KeepsGoing DEF Closing
<1> QED
  BY <1>3, <1>4

(* Changes of a handle that leave its maps alone.                          *)
LEMMA MapsKept ==
  ASSUME TypeInv, NEW k \in Handle, NEW v, NEW w, NEW x,
         \/ info' = info
         \/ info' = [info EXCEPT ![k].lock = v]
         \/ info' = [info EXCEPT ![k].stage = v]
         \/ info' = [info EXCEPT ![k].queue = v]
         \/ info' = [info EXCEPT ![k].pending = v]
         \/ info' = [info EXCEPT ![k].stage = v, ![k].finalizing = w, ![k].queue = x]
         \/ info' = [info EXCEPT ![k] = [info[k] EXCEPT !.lock = v, !.pending = w]]
         \/ info' = [info EXCEPT ![k] = [info[k] EXCEPT !.lock = v, !.queue = w]]
  PROVE  SameMaps
<1>1. info \in [Handle -> InfoRecord] /\ info[k] \in InfoRecord
  BY DEF TypeInv, InfoOK
<1>2. \A h \in Handle \ {k} : info'[h] = info[h]
  BY <1>1
<1>3. info'[k].polling = info[k].polling /\ info'[k].callbacks = info[k].callbacks
  <2>1. CASE info' = [info EXCEPT ![k].lock = v]
    BY <1>1, <2>1 DEF InfoRecord
  <2>2. CASE info' = [info EXCEPT ![k].stage = v]
    BY <1>1, <2>2 DEF InfoRecord
  <2>3. CASE info' = [info EXCEPT ![k].queue = v]
    BY <1>1, <2>3 DEF InfoRecord
  <2>4. CASE info' = [info EXCEPT ![k].pending = v]
    BY <1>1, <2>4 DEF InfoRecord
  <2>5. CASE info' = [info EXCEPT ![k].stage = v, ![k].finalizing = w, ![k].queue = x]
    BY <1>1, <2>5 DEF InfoRecord
  <2>6. CASE info' = [info EXCEPT ![k] = [info[k] EXCEPT !.lock = v, !.pending = w]]
    BY <1>1, <2>6 DEF InfoRecord
  <2>7. CASE info' = [info EXCEPT ![k] = [info[k] EXCEPT !.lock = v, !.queue = w]]
    BY <1>1, <2>7 DEF InfoRecord
  <2> QED
    BY <2>1, <2>2, <2>3, <2>4, <2>5, <2>6, <2>7
<1> QED
  BY <1>2, <1>3 DEF SameMaps

LEMMA SameInfo ==
  ASSUME UNCHANGED info
  PROVE  SameMaps
BY DEF SameMaps

(* FTBN_Recv_msg, FTBN_Grab_messages.                                      *)
LEMMA ReadQuiet ==
  ASSUME TypeInv, NEW t \in App \cup {Rx}, Read(t), Leaves(t),
         th[t].pc = IF t = Rx THEN "select" ELSE "grab"
  PROVE  Quiet(t)
<1>0. t \in Thread /\ UNCHANGED <<open, held, info>>
  BY Names DEF Read
<1>1. th' = [th EXCEPT ![t].pc = "reconnect"]
      \/ th' = [th EXCEPT ![t].pc = "lookup", ![t].item = Head(stream)]
  BY DEF Read, Goes
<1>2. \/ th'[t].pc = "reconnect" \/ th'[t].pc = "lookup"
  BY <1>0, <1>1, Went
<1>3. th'[t].h = th[t].h /\ th'[t].mask = th[t].mask /\ th'[t].ret = th[t].ret
  BY <1>0, <1>1, Went
<1>4. Keeps(t)
  BY <1>2, <1>3, KeepsGoing DEF Closing
<1> QED
  BY <1>0, <1>4, SameInfo DEF Quiet

LEMMA ReceivesQuiet ==
  ASSUME TypeInv, NEW t \in App \cup {Rx}, Receives(t)
  PROVE  Quiet(t)
<1>0. t \in Thread /\ UNCHANGED <<open, held>> /\ Leaves(t)
  BY Names, AppLeaves DEF Receives, Lookup, LockHandle, Push, Reconnect
<1>1. CASE Lookup(t)
  <2>1. th[t].pc = "lookup" /\ UNCHANGED info
        /\ (th' = [th EXCEPT ![t].pc = "deliver"]
            \/ th' = [th EXCEPT ![t].pc = Next1(t), ![t].item = EOF])
    BY <1>1 DEF Lookup, Is, Goes
  <2>2. th'[t].pc \in {"deliver", "receive", "grab"}
        /\ th'[t].h = th[t].h /\ th'[t].mask = th[t].mask /\ th'[t].ret = th[t].ret
    BY <1>0, <2>1, Went DEF Next1
  <2> QED
    BY <1>0, <2>1, <2>2, KeepsGoing, SameInfo DEF Closing, Quiet
<1>2. CASE LockHandle(t)
  <2>1. th[t].pc = "deliver" /\ th' = [th EXCEPT ![t].pc = "push"]
        /\ info' = [info EXCEPT ![th[t].item.to].lock = t] /\ th[t].item.to \in Handle
    BY <1>2, CarriedItem DEF LockHandle, Is, Goes, Carries
  <2>2. th'[t].pc = "push"
        /\ th'[t].h = th[t].h /\ th'[t].mask = th[t].mask /\ th'[t].ret = th[t].ret
    BY <1>0, <2>1, Went
  <2> QED
    BY <1>0, <2>1, <2>2, KeepsGoing, MapsKept DEF Closing, Quiet
<1>3. CASE Push(t)
  <2> DEFINE h == th[t].item.to
             item == th[t].item
             back == [th EXCEPT ![t].pc = Next1(t), ![t].item = EOF]
  <2>1. th[t].pc = "push" /\ h \in Handle /\ h # t
    BY <1>3, CarriedItem, Names DEF Push, Is, Carries
  <2>2. UNCHANGED th \/ th' = back \/ th' = Signal(h, back)
    BY <1>3 DEF Push
  <2>3. th'[t].pc \in {"push", "receive", "grab"}
        /\ th'[t].h = th[t].h /\ th'[t].mask = th[t].mask /\ th'[t].ret = th[t].ret
    <3>1. CASE UNCHANGED th
      BY <2>1, <3>1
    <3>2. CASE th' = back
      <4>1. th' = [th EXCEPT ![t].pc = Next1(t), ![t].item = EOF]
        BY <3>2
      <4> QED
        BY <1>0, <4>1, Went DEF Next1
    <3>3. CASE th' = Signal(h, back)
      <4>1. th' = Signal(h, [th EXCEPT ![t].pc = Next1(t), ![t].item = EOF]) /\ h \in Handle \ {t}
        BY <2>1, <3>3
      <4> HIDE DEF h
      <4>2. /\ th'[t].pc = Next1(t) /\ th'[t].h = th[t].h /\ th'[t].mask = th[t].mask
            /\ th'[t].ret = th[t].ret
        BY <1>0, <4>1, Went
      <4> QED
        BY <4>2 DEF Next1
    <3> QED
      BY <2>2, <3>1, <3>2, <3>3
  <2>4. \/ info' = info
        \/ info' = [info EXCEPT ![h] = [info[h] EXCEPT !.lock = NoOne,
                                           !.pending = Queued(info[h].pending, item)]]
        \/ info' = [info EXCEPT ![h] = [info[h] EXCEPT !.lock = NoOne,
                                           !.queue = Queued(WithRoom(info[h].queue), item)]]
        \/ info' = [info EXCEPT ![h] = [info[h] EXCEPT !.lock = NoOne]]
    BY <1>3, PushCases
  <2>5. info' = [info EXCEPT ![h] = [info[h] EXCEPT !.lock = NoOne]]
          => info' = [info EXCEPT ![h].lock = NoOne]
    OBVIOUS
  <2>6. SameMaps
    <3> DEFINE p == Queued(info[h].pending, item)
               q == Queued(WithRoom(info[h].queue), item)
    <3>1. \/ info' = info
          \/ info' = [info EXCEPT ![h] = [info[h] EXCEPT !.lock = NoOne, !.pending = p]]
          \/ info' = [info EXCEPT ![h] = [info[h] EXCEPT !.lock = NoOne, !.queue = q]]
          \/ info' = [info EXCEPT ![h].lock = NoOne]
      BY <2>4, <2>5
    <3>2. h \in Handle
      BY <2>1
    <3> HIDE DEF h, p, q
    <3>3. CASE info' = [info EXCEPT ![h] = [info[h] EXCEPT !.lock = NoOne, !.pending = p]]
      BY <3>2, <3>3, MapsKept
    <3>4. CASE info' = [info EXCEPT ![h] = [info[h] EXCEPT !.lock = NoOne, !.queue = q]]
      BY <3>2, <3>4, MapsKept
    <3>5. CASE info' = [info EXCEPT ![h].lock = NoOne]
      BY <3>2, <3>5, MapsKept
    <3> QED
      BY <3>1, <3>3, <3>4, <3>5, SameInfo
  <2> QED
    BY <1>0, <2>1, <2>3, <2>6, KeepsGoing DEF Closing, Quiet
<1>4. CASE Reconnect(t)
  <2>1. th[t].pc = "reconnect" /\ UNCHANGED info
        /\ (UNCHANGED th \/ th' = [th EXCEPT ![t].pc = "ended"] \/ Resumes(t))
    BY <1>4 DEF Reconnect, Is, Goes
  <2>2. CASE UNCHANGED th
    BY <1>0, <2>1, <2>2, KeepsGoing, SameInfo DEF Closing, Quiet
  <2>3. CASE th' = [th EXCEPT ![t].pc = "ended"]
    <3>1. th'[t].pc = "ended"
          /\ th'[t].h = th[t].h /\ th'[t].mask = th[t].mask /\ th'[t].ret = th[t].ret
      BY <1>0, <2>3, Went
    <3> QED
      BY <1>0, <2>1, <3>1, KeepsGoing, SameInfo DEF Closing, Quiet
  <2>4. CASE Resumes(t)
    BY <1>0, <2>1, <2>4, KeepsResumes, SameInfo DEF Quiet
  <2> QED
    BY <2>1, <2>2, <2>3, <2>4
<1> QED
  BY <1>1, <1>2, <1>3, <1>4 DEF Receives

LEMMA RxQuiet ==
  ASSUME TypeInv, RxStep
  PROVE  Quiet(Rx)
<1>1. CASE LockRecv
  <2>1. th[Rx].pc = "receive" /\ UNCHANGED <<info, open, held>> /\ th' = [th EXCEPT ![Rx].pc = "select"]
        /\ Leaves(Rx)
    BY <1>1, AppLeaves DEF LockRecv, Is, Goes
  <2>2. th'[Rx].pc = "select"
        /\ th'[Rx].h = th[Rx].h /\ th'[Rx].mask = th[Rx].mask /\ th'[Rx].ret = th[Rx].ret
    BY <2>1, Went, Names
  <2> QED
    BY <2>1, <2>2, KeepsGoing, SameInfo DEF Closing, Quiet
<1>2. CASE Receive
  BY <1>2, AppLeaves, ReadQuiet DEF Receive, Is
<1>3. CASE Receives(Rx)
  BY <1>3, ReceivesQuiet
<1> QED
  BY <1>1, <1>2, <1>3 DEF RxStep

(* What threads of the application do, but for changing maps, and opening  *)
(* and removing handles.                                                   *)
LEMMA SmallQuiet ==
  ASSUME TypeInv, NEW t \in App,
         Register(t) \/ SendMask(t) \/ PollNothing(t) \/ Join(t) \/ JoinedUnlock(t)
  PROVE  Quiet(t)
<1>0. /\ t \in Thread /\ UNCHANGED <<open, held>> /\ Leaves(t)
      /\ th \in [Thread -> ThreadRecord] /\ th[t] \in ThreadRecord
  BY Names, AppLeaves DEF Register, SendMask, PollNothing, Join, JoinedUnlock, UnlockAgain, TypeInv, ThreadInv
<1>1. CASE Register(t)
  <2>1. th[t].pc = "register" /\ UNCHANGED info
        /\ th' = [th EXCEPT ![t].pc = "progress", ![t].ret = "idle"]
    BY <1>1 DEF Register, Is, Progress
  <2>2. th'[t].pc = "progress" /\ th'[t].ret = "idle"
    BY <1>0, <2>1 DEF ThreadRecord
  <2> QED
    BY <1>0, <2>1, <2>2, KeepsDone, SameInfo DEF Closing, Quiet
<1>2. CASE SendMask(t)
  <2>1. th[t].pc = "subscribe" /\ UNCHANGED info /\ th' = [th EXCEPT ![t] = Idle]
    BY <1>2 DEF SendMask, Is
  <2>2. th'[t].pc = "idle" /\ th'[t].ret = "idle"
    BY <1>0, <2>1 DEF Idle, NoThread
  <2> QED
    BY <1>0, <2>1, <2>2, KeepsDone, SameInfo DEF Closing, Quiet
<1>3. CASE PollNothing(t)
  <2>1. th[t].pc = "polled" /\ (UNCHANGED info \/ info' = [info EXCEPT ![th[t].h].lock = NoOne])
        /\ th' = [th EXCEPT ![t] = Idle]
    BY <1>3 DEF PollNothing, UnlockAgain, Is
  <2>2. th'[t].pc = "idle" /\ th'[t].ret = "idle"
    BY <1>0, <2>1 DEF Idle, NoThread
  <2>3. SameMaps
    BY <2>1, AppThread, MapsKept
  <2> QED
    BY <1>0, <2>1, <2>2, <2>3, KeepsDone DEF Closing, Quiet
<1>4. CASE Join(t)
  <2>1. th[t].pc = "join" /\ info' = [info EXCEPT ![th[t].h].stage = "gone"]
        /\ th' = [th EXCEPT ![t].pc = "closed"]
    BY <1>4 DEF Join, Is, Goes
  <2>2. th'[t].pc = "closed"
        /\ th'[t].h = th[t].h /\ th'[t].mask = th[t].mask /\ th'[t].ret = th[t].ret
    BY <1>0, <2>1, Went
  <2>3. SameMaps
    BY <2>1, AppThread, MapsKept
  <2> QED
    BY <1>0, <2>1, <2>2, <2>3, KeepsGoing DEF Closing, Quiet
<1>5. CASE JoinedUnlock(t)
  <2>1. th[t].pc = "closed" /\ (UNCHANGED info \/ info' = [info EXCEPT ![th[t].h].lock = NoOne])
        /\ th' = [th EXCEPT ![t].pc = "remove"]
    BY <1>5 DEF JoinedUnlock, UnlockAgain, Is, Goes
  <2>2. th'[t].pc = "remove"
        /\ th'[t].h = th[t].h /\ th'[t].mask = th[t].mask /\ th'[t].ret = th[t].ret
    BY <1>0, <2>1, Went
  <2>3. SameMaps
    BY <2>1, AppThread, MapsKept
  <2> QED
    BY <1>0, <2>1, <2>2, <2>3, KeepsGoing DEF Closing, Quiet
<1> QED
  BY <1>1, <1>2, <1>3, <1>4, <1>5

LEMMA LargeQuiet ==
  ASSUME TypeInv, NEW t \in App,
         CheckProgress(t) \/ Grab(t) \/ GrabNothing(t) \/ Scan(t) \/ Finalize(t)
  PROVE  Quiet(t)
<1>0. /\ t \in Thread /\ UNCHANGED <<open, held>> /\ Leaves(t) /\ t # Rx
      /\ th \in [Thread -> ThreadRecord] /\ th[t] \in ThreadRecord
  BY Names, AppLeaves DEF CheckProgress, Grab, Read, GrabNothing, Scan, Finalize, TypeInv, ThreadInv
<1>1. CASE CheckProgress(t)
  <2>1. th[t].pc = "progress" /\ UNCHANGED info
        /\ (Resumes(t) \/ th' = [th EXCEPT ![t].pc = "grab"])
    BY <1>1 DEF CheckProgress, Is, Goes
  <2>2. CASE Resumes(t)
    BY <1>0, <2>1, <2>2, KeepsResumes, SameInfo DEF Quiet
  <2>3. CASE th' = [th EXCEPT ![t].pc = "grab"]
    <3>1. th'[t].pc = "grab"
          /\ th'[t].h = th[t].h /\ th'[t].mask = th[t].mask /\ th'[t].ret = th[t].ret
      BY <1>0, <2>3, Went
    <3> QED
      BY <1>0, <2>1, <3>1, KeepsGoing, SameInfo DEF Closing, Quiet
  <2> QED
    BY <2>1, <2>2, <2>3
<1>2. CASE Grab(t)
  BY <1>0, <1>2, ReadQuiet DEF Grab, Is
<1>3. CASE GrabNothing(t)
  <2>1. th[t].pc = "grab" /\ UNCHANGED info /\ Resumes(t)
    BY <1>3 DEF GrabNothing, Is
  <2> QED
    BY <1>0, <2>1, KeepsResumes, SameInfo DEF Quiet
<1>4. CASE Scan(t)
  <2>1. /\ th[t].pc = "look"
        /\ UNCHANGED info \/ \E q : info' = [info EXCEPT ![th[t].h].queue = q]
        /\ \/ th' = [th EXCEPT ![t] = Idle]
           \/ th' = [th EXCEPT ![t].pc = "progress", ![t].round = 2]
           \/ th' = [th EXCEPT ![t].pc = "polled"]
    BY <1>4 DEF Scan, Is, Goes
  <2>2. SameMaps
    BY <2>1, AppThread, MapsKept
  <2>3. Keeps(t)
    <3>1. CASE th' = [th EXCEPT ![t] = Idle]
      <4>1. th'[t].pc = "idle" /\ th'[t].ret = "idle"
        BY <1>0, <3>1 DEF Idle, NoThread
      <4> QED
        BY <2>1, <4>1, KeepsDone DEF Closing
    <3>2. CASE th' = [th EXCEPT ![t].pc = "progress", ![t].round = 2]
      <4>1. th'[t].pc = "progress"
            /\ th'[t].h = th[t].h /\ th'[t].mask = th[t].mask /\ th'[t].ret = th[t].ret
        BY <1>0, <3>2, Went
      <4> QED
        BY <2>1, <4>1, KeepsGoing DEF Closing
    <3>3. CASE th' = [th EXCEPT ![t].pc = "polled"]
      <4>1. th'[t].pc = "polled"
            /\ th'[t].h = th[t].h /\ th'[t].mask = th[t].mask /\ th'[t].ret = th[t].ret
        BY <1>0, <3>3, Went
      <4> QED
        BY <2>1, <4>1, KeepsGoing DEF Closing
    <3> QED
      BY <2>1, <3>1, <3>2, <3>3
  <2> QED
    BY <1>0, <2>2, <2>3 DEF Quiet
<1>5. CASE Finalize(t)
  <2>1. /\ th[t].pc = "finalize"
        /\ info' = [info EXCEPT ![th[t].h].stage = "closing", ![th[t].h].finalizing = TRUE,
                                ![th[t].h].queue = <<>>]
        /\ \/ th' = Signal(th[t].h, [th EXCEPT ![t].pc = "join"])
           \/ th' = [th EXCEPT ![t].pc = "remove"]
    BY <1>5 DEF Finalize, Is
  <2>2. th[t].h \in Handle \ {t}
    BY <2>1, AppThread, Names
  <2>3. SameMaps
    BY <2>1, <2>2, MapsKept
  <2>4. th'[t].pc \in {"join", "remove"}
        /\ th'[t].h = th[t].h /\ th'[t].mask = th[t].mask /\ th'[t].ret = th[t].ret
    BY <1>0, <2>1, <2>2, Went
  <2> QED
    BY <1>0, <2>1, <2>3, <2>4, KeepsGoing DEF Closing, Quiet
<1> QED
  BY <1>1, <1>2, <1>3, <1>4, <1>5

(* FTBCI_callback_component, but for unsubscribing.                        *)
LEMMA CallbackQuiet ==
  ASSUME TypeInv, NEW h \in Handle,
         \/ CallbackWaits(h) \/ CallbackWakes(h) \/ CallbackEnds(h) \/ Pick(h)
         \/ CallbackReturns(h) \/ FreeUnmatched(h) \/ CheckProgress(h)
  PROVE  Quiet(h)
<1>0. /\ h \in Thread /\ h \notin App /\ UNCHANGED <<open, held>>
      /\ th \in [Thread -> ThreadRecord] /\ th[h] \in ThreadRecord
  BY Names DEF CallbackWaits, CallbackWakes, CallbackEnds, Pick, CallbackReturns, FreeUnmatched,
               CheckProgress, Proceed, TypeInv, ThreadInv
<1>1. CASE \/ CallbackWaits(h) \/ CallbackWakes(h) \/ CallbackEnds(h) \/ Pick(h)
           \/ CallbackReturns(h)
  <2>1. /\ th[h].pc \in {"start", "woken", "pick", "calling"}
        /\ UNCHANGED info \/ info' = [info EXCEPT ![h].pending = Unlinked(@)]
        /\ \E pc \in {"waiting", "pick", "ended", "calling", "unmatched", "start"} :
             th' = [th EXCEPT ![h].pc = pc]
    BY <1>1 DEF CallbackWaits, CallbackWakes, CallbackEnds, Pick, CallbackReturns, Proceed, Awaits,
                Is, Goes
  <2>2. /\ Leaves(h)
        /\ th'[h].pc \in {"waiting", "pick", "ended", "calling", "unmatched", "start"}
        /\ th'[h].h = th[h].h /\ th'[h].mask = th[h].mask /\ th'[h].ret = th[h].ret
    BY <1>0, <2>1, Went DEF Leaves
  <2>3. SameMaps
    BY <2>1, MapsKept
  <2> QED
    BY <1>0, <2>1, <2>2, <2>3, KeepsGoing DEF Closing, Quiet
<1>2. CASE FreeUnmatched(h)
  <2>1. th[h].pc = "unmatched" /\ UNCHANGED <<info, th>>
    BY <1>2 DEF FreeUnmatched, Awaits, Is
  <2> QED
    BY <1>0, <2>1, KeepsGoing, SameInfo DEF Closing, Quiet, Leaves
<1>3. CASE CheckProgress(h)
  <2>1. th[h].pc = "progress" /\ UNCHANGED info
        /\ (Resumes(h) \/ th' = [th EXCEPT ![h].pc = "grab"])
    BY <1>3 DEF CheckProgress, Is, Goes
  <2>2. Leaves(h)
    BY <1>0, <2>1 DEF Leaves, Resumes
  <2>3. CASE Resumes(h)
    BY <1>0, <2>1, <2>2, <2>3, KeepsResumes, SameInfo DEF Quiet
  <2>4. CASE th' = [th EXCEPT ![h].pc = "grab"]
    <3>1. th'[h].pc = "grab"
          /\ th'[h].h = th[h].h /\ th'[h].mask = th[h].mask /\ th'[h].ret = th[h].ret
      BY <1>0, <2>4, Went
    <3> QED
      BY <1>0, <2>1, <2>2, <3>1, KeepsGoing, SameInfo DEF Closing, Quiet
  <2> QED
    BY <2>1, <2>3, <2>4
<1> QED
  BY <1>1, <1>2, <1>3

(* FTBC_Connect, at first, and FTBC_Poll_event.                            *)
LEMMA CallQuiet ==
  ASSUME TypeInv, NEW t \in App,
         (\E h \in Handle : Connect(t, h)) \/ (\E s \in Subscription : Poll(t, s))
  PROVE  Quiet(t)
<1>0. /\ t \in Thread /\ UNCHANGED <<open, held, info>> /\ Leaves(t) /\ th[t].pc = "idle"
      /\ th \in [Thread -> ThreadRecord]
  BY Names, CallLeaves DEF Connect, Poll, TypeInv, ThreadInv
<1>1. th'[t].pc \in {"threads", "progress"} /\ th'[t].ret # "add"
  <2>1. PICK r : Calls(t, r) /\ r.pc \in {"threads", "progress"} /\ r.ret # "add"
    <3>1. ASSUME NEW h \in Handle, Connect(t, h)
          PROVE  \E r : Calls(t, r) /\ r.pc \in {"threads", "progress"} /\ r.ret # "add"
      <4> DEFINE q == [Running("threads") EXCEPT !.h = h]
      <4>1. Calls(t, q) /\ q.pc = "threads" /\ q.ret = "idle"
        BY <3>1 DEF Connect, Running, NoThread
      <4> HIDE DEF q
      <4> QED
        BY <4>1
    <3>2. ASSUME NEW s \in Subscription, Poll(t, s)
          PROVE  \E r : Calls(t, r) /\ r.pc \in {"threads", "progress"} /\ r.ret # "add"
      <4> DEFINE q == [Running("progress") EXCEPT !.h = s.h, !.mask = s.mask, !.ret = "look"]
      <4>1. Calls(t, q) /\ q.pc = "progress" /\ q.ret = "look"
        BY <3>2 DEF Poll, Running, NoThread
      <4> HIDE DEF q
      <4> QED
        BY <4>1
    <3> QED
      BY <3>1, <3>2
  <2>2. th'[t] = r
    BY <1>0, <2>1 DEF Calls
  <2> QED
    BY <2>1, <2>2
<1> QED
  BY <1>0, <1>1, KeepsDone, SameInfo DEF Closing, Quiet

(* The agent.                                                              *)
LEMMA AgentQuiet ==
  ASSUME TypeInv,
         \/ \E h \in Handle, e \in Event : Arrive(h, e)
         \/ Lose
         \/ UNCHANGED vars
  PROVE  Quiet(Rx)
<1>1. UNCHANGED <<open, held, info, th>>
  BY DEF Arrive, Lose, vars
<1>2. th[Rx].pc \in RxPCs
  BY Names DEF TypeInv, ThreadInv, WellFormed
<1>3. th[Rx].pc \notin {"idle", "delete", "subscribe"}
  BY <1>2 DEF RxPCs
<1>4. Keeps(Rx)
  BY <1>1, <1>3, KeepsGoing
<1> QED
  BY <1>1, <1>4, SameInfo DEF Quiet, Leaves

LEMMA QuietMaps ==
  ASSUME MapInv, TypeInv, NEW t \in Thread, Quiet(t)
  PROVE  MapInv'
BY MapStays DEF Quiet, TypeInv

-----------------------------------------------------------------------------
(* Opening and removing a handle.                                          *)

(* Nobody is about to change the maps of a handle that is closed.          *)
LEMMA NoneAlters ==
  ASSUME MapInv, NEW h, Closed(h)
  PROVE  \A u \in Thread : Alters(u) => th[u].h # h
BY DEF MapInv

LEMMA NewMaps ==
  ASSUME TypeInv, NEW h \in Handle, MapsOf(h) = {}, MapInv, info' = [info EXCEPT ![h] = FreshInfo]
  PROVE  \A k \in Handle : /\ MapsOf(k)' = MapsOf(k)
                           /\ Apart(info'[k].polling) /\ Apart(info'[k].callbacks)
<1>1. info \in [Handle -> InfoRecord]
  BY DEF TypeInv, InfoOK
<1>2. info'[h].polling = <<>> /\ info'[h].callbacks = <<>>
  BY <1>1 DEF FreshInfo
<1>3. MapsOf(h)' = {} /\ Apart(info'[h].polling) /\ Apart(info'[h].callbacks)
  BY <1>2 DEF MapsOf, Keys, Apart
<1>4. ASSUME NEW k \in Handle \ {h}
      PROVE  MapsOf(k)' = MapsOf(k) /\ Apart(info'[k].polling) /\ Apart(info'[k].callbacks)
  <2>1. info'[k] = info[k]
    BY <1>1
  <2> QED
    BY <2>1 DEF MapsOf, Keys, Apart, MapInv
<1> QED
  BY <1>3, <1>4

LEMMA StartMaps ==
  ASSUME MapInv, TypeInv, NEW t \in App, StartThreads(t)
  PROVE  MapInv'
<1> DEFINE h == th[t].h
<1>1. /\ th[t].pc = "threads" /\ UNCHANGED <<open, held>> /\ h \in Handle /\ h \notin open
      /\ info' = [info EXCEPT ![h] = FreshInfo]
  BY AppThread DEF StartThreads, Is, TypeInv, AloneInv, Opening
<1>2. th \in [Thread -> ThreadRecord] /\ th[t] \in ThreadRecord /\ t \in Thread
  BY Names DEF TypeInv, ThreadInv
<1>3. /\ th'[t] = [th[t] EXCEPT !.pc = "insert"]
      /\ \A u \in Thread \ {t} :
           \/ th'[u] = th[u]
           \/ u \in {h, Rx} /\ u \notin App /\ th'[u].pc \in {"start", "receive"}
  <2>1. Running("start").pc = "start" /\ Running("receive").pc = "receive"
    BY DEF Running, NoThread
  <2>2. h # t /\ h \notin App /\ Rx \notin App
    BY <1>1, Names
  <2> QED
    BY <1>1, <1>2, <2>1, <2>2 DEF StartThreads, Goes
<1>4. MapsOf(h) = {} /\ Closed(h)
  BY <1>1 DEF MapInv, Closed
<1>5. ASSUME NEW k \in Handle
      PROVE  /\ MapsOf(k)' = MapsOf(k)
             /\ Apart(info'[k].polling) /\ Apart(info'[k].callbacks)
  BY <1>1, <1>4, NewMaps
<1>6. ASSUME NEW k PROVE Closed(k)' <=> Closed(k)
  <2>1. \A u \in App : /\ th'[u].h = th[u].h
                       /\ th'[u].pc \in Closing <=> th[u].pc \in Closing
    BY <1>1, <1>2, <1>3, Names DEF ThreadRecord, Closing
  <2> QED
    BY <1>1, <2>1 DEF Closed
<1>7. \A u \in Thread : Alters(u)' => Alters(u) /\ th'[u].h = th[u].h /\ th'[u].mask = th[u].mask
  BY <1>1, <1>2, <1>3 DEF Alters, Adds, Deletes, ThreadRecord
<1>8. ASSUME NEW u \in Thread
      PROVE  (Deletes(u)' <=> Deletes(u)) /\ (Deletes(u) => th'[u] = th[u])
  <2>1. \A v \in {t, h, Rx} : th[v].pc # "delete"
    <3>1. th[Rx].pc # "delete"
      BY Names DEF TypeInv, ThreadInv, WellFormed, RxPCs
    <3>2. th[h].pc # "delete"
      <4>1. th[h].pc = "delete" => th[h].h = h /\ Alters(h) /\ h \in Thread
        BY <1>1, CallbackThread, Names DEF CallbackRecord, Alters, Deletes
      <4> QED
        BY <1>4, <4>1, NoneAlters
    <3> QED
      BY <1>1, <3>1, <3>2
  <2> QED
    BY <1>1, <1>2, <1>3, <2>1 DEF Deletes, ThreadRecord
<1>9. \A k \in Handle \ open' : MapsOf(k)' = {}
  BY <1>1, <1>5 DEF MapInv
<1>10. \A k : MasksHeld(k)' = MasksHeld(k)
  BY <1>1 DEF MasksHeld
<1> HIDE DEF h
<1> QED
  BY <1>5, <1>6, <1>7, <1>8, <1>9, <1>10, MapFrame

LEMMA InsertMaps ==
  ASSUME MapInv, TypeInv, NEW t \in App, Insert(t)
  PROVE  MapInv'
<1> DEFINE h == th[t].h
<1>1. /\ th[t].pc = "insert" /\ UNCHANGED <<held, info>> /\ h \in Handle /\ h \notin open
      /\ open' = open \cup {h} /\ th' = [th EXCEPT ![t].pc = "register"]
  BY AppThread DEF Insert, Is, Goes, TypeInv, AloneInv, Opening
<1>2. /\ t \in Thread /\ Leaves(t) /\ th'[t].pc = "register"
      /\ th'[t].h = th[t].h /\ th'[t].mask = th[t].mask /\ th'[t].ret = th[t].ret
  BY <1>1, Went, AppLeaves, Names
<1>3. Keeps(t)
  BY <1>1, <1>2, KeepsGoing DEF Closing
<1>4. MapsOf(h) = {} /\ Closed(h) /\ MasksHeld(h) = {}
  BY <1>1 DEF MapInv, Closed
<1>5. \A k : MasksHeld(k)' = MasksHeld(k)
  BY <1>1 DEF MasksHeld
<1>6. \A k \in Handle : /\ MapsOf(k)' = MapsOf(k)
                        /\ Apart(info'[k].polling) /\ Apart(info'[k].callbacks)
  BY <1>1 DEF MapsOf, Keys, Apart, MapInv
<1>7. \A u \in App : /\ th'[u].pc \in Closing <=> th[u].pc \in Closing
                     /\ th'[u].h = th[u].h
  BY <1>1, <1>2, OthersKeep, Names DEF Closing, TypeInv
<1>8. \A u \in App : th[u].h = h => th[u].pc \notin Closing
  BY <1>1 DEF TypeInv, AloneInv, Closing
<1>9. ~ Closed(h)'
  BY <1>1, <1>7, <1>8 DEF Closed
<1>10. ASSUME NEW k \in Handle \ {h} PROVE Closed(k)' <=> Closed(k)
  BY <1>1, <1>7 DEF Closed
<1>11. \A u \in Thread : Alters(u)' => Alters(u) /\ th'[u].h = th[u].h /\ th'[u].mask = th[u].mask
  BY <1>2, <1>3, OthersKeep DEF Keeps, Alters, Adds, Deletes, TypeInv
<1>12. \A u \in Thread : (Deletes(u)' <=> Deletes(u)) /\ (Deletes(u) => th'[u] = th[u])
  BY <1>2, <1>3, OthersKeep DEF Keeps, Deletes, TypeInv
<1>13. \A k \in Handle \ open' : MapsOf(k)' = {}
  BY <1>1, <1>6 DEF MapInv
<1> HIDE DEF h
<1>14. ASSUME NEW k \in Handle
       PROVE  \/ (Closed(k)' <=> Closed(k)) /\ MasksHeld(k)' = MasksHeld(k)
              \/ ~ Closed(k)' /\ Closed(k) /\ MasksHeld(k)' = {} /\ MapsOf(k) = {}
  BY <1>4, <1>5, <1>9, <1>10
<1> QED
  BY <1>6, <1>11, <1>12, <1>13, <1>14, MapFrame

LEMMA RemoveMaps ==
  ASSUME MapInv, TypeInv, NEW t \in App, RemoveHandle(t)
  PROVE  MapInv'
<1>0. PICK h \in Handle : h = th[t].h
  BY AppThread DEF RemoveHandle, Is
<1>1. /\ th[t].pc = "remove" /\ UNCHANGED held /\ h \in open
      /\ open' = open \ {h} /\ info' = [info EXCEPT ![h] = FreshInfo]
      /\ info \in [Handle -> InfoRecord]
  BY <1>0 DEF RemoveHandle, Is, TypeInv, AloneInv, Closing, InfoOK
<1>2. th \in [Thread -> ThreadRecord] /\ th[t] \in ThreadRecord /\ t \in Thread
  BY Names DEF TypeInv, ThreadInv
<1>3. /\ th'[t].pc = "progress" /\ th'[t].ret = "idle" /\ th'[t].h = h
      /\ \A u \in Thread \ {t} :
           \/ th'[u] = th[u]
           \/ u \in {h, Rx} /\ u \notin App /\ th'[u].pc = "none"
  <2>1. NoThread.pc = "none"
    BY DEF NoThread
  <2>2. h # t /\ h \notin App /\ Rx \notin App
    BY Names
  <2>3. th'[t] = [th[t] EXCEPT !.pc = "progress", !.ret = "idle"]
    BY <1>0, <1>2, <2>2 DEF RemoveHandle
  <2>4. \A u \in Thread \ {t} : th'[u] = th[u] \/ (u \in {h, Rx} /\ th'[u] = NoThread)
    BY <1>0, <1>2, <2>2 DEF RemoveHandle
  <2> QED
    BY <1>0, <1>2, <2>1, <2>2, <2>3, <2>4 DEF ThreadRecord
<1>4. Closed(h) /\ MasksHeld(h) = {}
  <2>1. Closed(h)
    BY <1>0, <1>1 DEF Closed, Closing
  <2> QED
    BY <1>1, <2>1 DEF MapInv
<1>5. MapsOf(h)' = {} /\ Closed(h)' /\ Apart(info'[h].polling) /\ Apart(info'[h].callbacks)
  <2>1. info'[h].polling = <<>> /\ info'[h].callbacks = <<>>
    BY <1>1 DEF FreshInfo
  <2> QED
    BY <1>1, <2>1 DEF MapsOf, Keys, Apart, Closed
<1>6. ASSUME NEW k \in Handle \ {h}
      PROVE  MapsOf(k)' = MapsOf(k) /\ Apart(info'[k].polling) /\ Apart(info'[k].callbacks)
  <2>1. info'[k] = info[k]
    BY <1>1
  <2> QED
    BY <2>1 DEF MapsOf, Keys, Apart, MapInv
<1>7. ASSUME NEW k \in Handle \ {h} PROVE Closed(k)' <=> Closed(k)
  <2>1. \A u \in App : /\ th'[u].h = th[u].h
                       /\ u # t => th'[u] = th[u]
    BY <1>0, <1>1, <1>2, <1>3, Names
  <2> QED
    BY <1>0, <1>1, <2>1 DEF Closed
<1>8. \A u \in Thread : Alters(u)' => Alters(u) /\ th'[u].h = th[u].h /\ th'[u].mask = th[u].mask
  BY <1>1, <1>2, <1>3 DEF Alters, Adds, Deletes
<1>9. ASSUME NEW u \in Thread
      PROVE  (Deletes(u)' <=> Deletes(u)) /\ (Deletes(u) => th'[u] = th[u])
  <2>1. \A v \in {t, h, Rx} : th[v].pc # "delete"
    <3>1. th[Rx].pc # "delete"
      BY Names DEF TypeInv, ThreadInv, WellFormed, RxPCs
    <3>2. th[h].pc # "delete"
      <4>1. th[h].pc = "delete" => th[h].h = h /\ Alters(h) /\ h \in Thread
        BY <1>1, CallbackThread, Names DEF CallbackRecord, Alters, Deletes
      <4> QED
        BY <1>4, <4>1, NoneAlters
    <3> QED
      BY <1>1, <3>1, <3>2
  <2> QED
    BY <1>1, <1>2, <1>3, <2>1 DEF Deletes
<1>10. \A k \in Handle \ open' : MapsOf(k)' = {}
  BY <1>1, <1>5, <1>6 DEF MapInv
<1>11. \A k : MasksHeld(k)' = MasksHeld(k)
  BY <1>1 DEF MasksHeld
<1>12. \A u \in Thread : Alters(u) => th[u].h # h
  BY <1>4, NoneAlters
<1> QED
  BY <1>4, <1>5, <1>6, <1>7, <1>8, <1>9, <1>10, <1>11, <1>12, MapFrame

(* FTBC_Disconnect, at first.                                              *)
LEMMA DisconnectMaps ==
  ASSUME MapInv, TypeInv, NEW t \in App, NEW h \in Handle, Disconnect(t, h)
  PROVE  MapInv'
<1> DEFINE r == [Running("finalize") EXCEPT !.h = h]
<1>1. /\ h \in open /\ UNCHANGED <<open, info>> /\ held' = {s \in held : s.h # h} /\ Calls(t, r)
      /\ th[h].pc # "delete"
  BY DEF Disconnect
<1>2. r.pc = "finalize" /\ r.h = h /\ r.ret = "idle"
  BY DEF Running, NoThread
<1> HIDE DEF r
<1>3. /\ th[t].pc = "idle" /\ th' = [th EXCEPT ![t] = r] /\ \A u \in App \ {t} : th[u].h # h
      /\ th \in [Thread -> ThreadRecord] /\ t \in Thread
  BY <1>1, <1>2, CallsMeans, Names DEF Exclusive, Calls, TypeInv, ThreadInv
<1>4. th'[t] = r /\ \A u \in Thread \ {t} : th'[u] = th[u]
  BY <1>3
<1>5. Closed(h)' /\ MasksHeld(h)' = {}
  BY <1>1, <1>2, <1>4 DEF Closed, Closing, MasksHeld
<1>6. \A u \in Thread : Alters(u) => th[u].h # h
  <2>1. \A u \in Handle : th[u].pc = "delete" => th[u].h = u
    BY CallbackThread DEF CallbackRecord
  <2>2. th[Rx].pc # "delete"
    BY Names DEF TypeInv, ThreadInv, WellFormed, RxPCs
  <2>3. ~ Alters(t)
    BY <1>3 DEF Alters, Adds, Deletes
  <2> QED
    BY <1>1, <1>3, <2>1, <2>2, <2>3, Names DEF Alters, Adds, Deletes
<1>7. \A u \in Thread : /\ Alters(u)' => Alters(u) /\ th'[u] = th[u]
                        /\ Deletes(u)' <=> Deletes(u)
                        /\ Deletes(u) => th'[u] = th[u]
  BY <1>2, <1>3, <1>4 DEF Alters, Adds, Deletes
<1>8. \A k \in Handle : /\ MapsOf(k)' = MapsOf(k)
                        /\ Apart(info'[k].polling) /\ Apart(info'[k].callbacks)
  BY <1>1 DEF MapsOf, Keys, Apart, MapInv
<1>9. ASSUME NEW k \in Handle \ {h}
      PROVE  (Closed(k)' <=> Closed(k)) /\ MasksHeld(k)' = MasksHeld(k)
  <2>1. Closed(k)' <=> Closed(k)
    <3>1. \A u \in App : th'[u].h = k /\ th'[u].pc \in Closing <=> th[u].h = k /\ th[u].pc \in Closing
      BY <1>2, <1>3, <1>4, Names DEF Closing
    <3> QED
      BY <1>1, <3>1 DEF Closed
  <2>2. MasksHeld(k)' = MasksHeld(k)
    BY <1>1 DEF MasksHeld
  <2> QED
    BY <2>1, <2>2
<1>10. \A k \in Handle \ open' : MapsOf(k)' = {}
  BY <1>1, <1>8 DEF MapInv
<1> QED
  BY <1>5, <1>6, <1>7, <1>8, <1>9, <1>10, MapFrame

-----------------------------------------------------------------------------
(* Subscribing and unsubscribing.                                          *)

(* A handle that is of one style subscribes in that way.                   *)
LEMMA OneWay ==
  ASSUME NEW s \in Subscription, NEW v \in Subscription, s.h = v.h, s.mask = v.mask,
         s.h \notin BothStyles
  PROVE  s = v
BY DEF Subscription, BothStyles

LEMMA SubscribeMaps ==
  ASSUME MapInv, TypeInv, NEW t \in App, NEW s \in Subscription, Subscribe(t, s)
  PROVE  MapInv'
<1> DEFINE r == [Running("progress") EXCEPT !.h = s.h, !.mask = s.mask, !.how = s.how, !.ret = "add"]
<1>1. /\ s.h \in open /\ s \notin held /\ UNCHANGED <<open, info, held>> /\ Calls(t, r)
      /\ \A u \in Thread : th[u].h = s.h /\ th[u].mask = s.mask => th[u].ret = "look"
  BY DEF Subscribe
<1>2. r.pc = "progress" /\ r.h = s.h /\ r.mask = s.mask /\ r.ret = "add"
  BY DEF Running, NoThread
<1> HIDE DEF r
<1>3. /\ th[t].pc = "idle" /\ th' = [th EXCEPT ![t] = r]
      /\ \A u \in App \ {t} : th[u].h = s.h => th[u].pc \notin Closing
      /\ th \in [Thread -> ThreadRecord] /\ t \in Thread
  BY <1>1, <1>2, Names DEF Calls, Is, Closing, TypeInv, ThreadInv
<1>4. th'[t] = r /\ \A u \in Thread \ {t} : th'[u] = th[u]
  BY <1>3
<1>5. \A k : (Closed(k)' <=> Closed(k)) /\ MasksHeld(k)' = MasksHeld(k) /\ Leaving(k)' = Leaving(k)
  <2>1. Leaves(t)
    BY <1>4 DEF Leaves
  <2>2. \A k : Closed(k)' <=> Closed(k)
    BY <1>1, <1>2, <1>3, <1>4, <2>1, ClosedStays DEF Closing, TypeInv
  <2>3. \A u \in Thread : (Deletes(u)' <=> Deletes(u)) /\ (Deletes(u) => th'[u] = th[u])
    BY <1>2, <1>3, <1>4 DEF Deletes
  <2> QED
    BY <1>1, <2>2, <2>3 DEF MasksHeld, Leaving
<1>6. ~ Closed(s.h)
  BY <1>1, <1>3 DEF Closed, Closing
<1>7. \A u \in Thread \ {t} : Alters(u)' <=> Alters(u)
  BY <1>4 DEF Alters, Adds, Deletes
<1>8. \A k \in Handle : MapsOf(k)' = MapsOf(k) /\ Apart(info[k].polling)' /\ Apart(info[k].callbacks)'
  BY <1>1 DEF MapsOf, Keys, Apart, MapInv
<1>9. \A u \in Thread : Alters(u)' => ~ Closed(th[u].h)'
  <2>1. \A u \in Thread : Alters(u)' => ~ Closed(th'[u].h)
    BY <1>2, <1>4, <1>6, <1>7 DEF MapInv
  <2>2. \A k : Closed(k)' <=> Closed(k)
    BY <1>5
  <2> QED
    BY <2>1, <2>2 DEF Closed
<1>10. \A u \in Thread : Alters(u)' /\ th'[u].h \notin BothStyles
                           => th'[u].mask \notin MasksHeld(th[u].h)'
  <2>1. s.h \notin BothStyles => s.mask \notin MasksHeld(s.h)
    BY <1>1, OneWay DEF MasksHeld, TypeInv, PastOK
  <2>2. \A u \in Thread : Alters(u)' /\ th'[u].h \notin BothStyles
                           => th'[u].mask \notin MasksHeld(th'[u].h)
    BY <1>2, <1>4, <1>7, <2>1 DEF MapInv
  <2> QED
    BY <1>1, <2>2 DEF MasksHeld
<1>11. \A u, v \in Thread :
         Alters(u)' /\ Alters(v)' /\ th'[u].h \notin BothStyles
           /\ th'[u].h = th'[v].h /\ th'[u].mask = th'[v].mask => u = v
  <2>1. \A u \in Thread : Alters(u) => ~ (th[u].h = s.h /\ th[u].mask = s.mask)
    BY <1>1 DEF Alters, Adds, MapInv
  <2>2. \A u, v \in Thread :
          Alters(u) /\ Alters(v) /\ th[u].h \notin BothStyles
            /\ th[u].h = th[v].h /\ th[u].mask = th[v].mask => u = v
    BY DEF MapInv
  <2> QED
    BY <1>2, <1>4, <1>7, <2>1, <2>2
<1>12. \A u \in Thread : Deletes(u)' => th'[u].ret \in {"idle", "calling"}
  BY <1>2, <1>4 DEF Deletes, MapInv
<1>13. \A k \in Handle \ open' : MapsOf(k)' = {}
  BY <1>1, <1>8 DEF MapInv
<1>14. \A k \in Handle : Closed(k)' => MasksHeld(k)' = {}
  BY <1>5 DEF MapInv
<1>15. \A k \in Handle \ BothStyles : ~ Closed(k)' => MapsOf(k)' = MasksHeld(k)' \cup Leaving(k)'
  BY <1>5, <1>8 DEF MapInv
<1> QED
  BY <1>8, <1>9, <1>10, <1>11, <1>12, <1>13, <1>14, <1>15 DEF MapInv

(* FTBC_Unsubscribe, at first.                                             *)
LEMMA LeavingMaps ==
  ASSUME MapInv, TypeInv, NEW t \in Thread, NEW s \in Subscription, s \in held,
         held' = held \ {s}, UNCHANGED <<open, info>>, Leaves(t), ~ Alters(t),
         th[t].pc \notin Closing, th'[t].pc = "delete", th'[t].h = s.h, th'[t].mask = s.mask,
         th'[t].ret \in {"idle", "calling"}
  PROVE  MapInv'
<1>1. \A u \in Thread \ {t} :
        /\ Alters(u)' => th'[u] = th[u] /\ Alters(u)
        /\ Deletes(u)' <=> Deletes(u)
        /\ Deletes(u) => th'[u] = th[u]
  BY OthersKeep DEF Deletes, TypeInv
<1>2. \A k : Closed(k)' <=> Closed(k)
  BY ClosedStays DEF Closing, TypeInv
<1>3. s.h \in Handle /\ s.mask \in MasksHeld(s.h) /\ ~ Closed(s.h)
  <2>1. s.h \in Handle
    BY DEF Subscription, Handle
  <2>2. s.mask \in MasksHeld(s.h)
    BY DEF MasksHeld
  <2> QED
    BY <2>1, <2>2 DEF MapInv
<1>4. \A k : MasksHeld(k)' \subseteq MasksHeld(k)
  BY DEF MasksHeld
<1>5. \A k \in Handle : MapsOf(k)' = MapsOf(k) /\ Apart(info[k].polling)' /\ Apart(info[k].callbacks)'
  BY DEF MapsOf, Keys, Apart, MapInv
<1>6. \A u \in Thread : Alters(u)' => ~ Closed(th[u].h)'
  <2>1. \A u \in Thread : Alters(u)' => ~ Closed(th'[u].h)
    BY <1>1, <1>3 DEF MapInv
  <2> QED
    BY <1>2, <2>1 DEF Closed
<1>7. s.h \notin BothStyles => MasksHeld(s.h)' = MasksHeld(s.h) \ {s.mask}
  BY OneWay DEF MasksHeld, TypeInv, PastOK
<1>8. ASSUME NEW k \in Handle \ BothStyles, ~ Closed(k)'
      PROVE  MapsOf(k)' = MasksHeld(k)' \cup Leaving(k)'
  <2>1. MapsOf(k)' = MasksHeld(k) \cup Leaving(k)
    BY <1>2, <1>5, <1>8 DEF MapInv
  <2>2. CASE k = s.h
    <3>1. Leaving(k)' = Leaving(k) \cup {s.mask}
      BY <1>1, <2>2 DEF Leaving, Deletes, Alters
    <3> QED
      BY <1>3, <1>7, <2>1, <2>2, <3>1
  <2>3. CASE k # s.h
    <3>1. Leaving(k)' = Leaving(k)
      BY <1>1, <2>3 DEF Leaving, Deletes, Alters
    <3>2. MasksHeld(k)' = MasksHeld(k)
      BY <2>3 DEF MasksHeld
    <3> QED
      BY <2>1, <3>1, <3>2
  <2> QED
    BY <2>2, <2>3
<1>9. \A u \in Thread : Alters(u)' /\ th'[u].h \notin BothStyles
                          => th'[u].mask \notin MasksHeld(th[u].h)'
  <2>1. ASSUME NEW u \in Thread, Alters(u)', th'[u].h \notin BothStyles, NEW k, k = th'[u].h
        PROVE  th'[u].mask \notin MasksHeld(k)'
    <3>1. CASE u = t
      BY <1>7, <2>1, <3>1
    <3>2. CASE u # t
      <4>1. th[u].mask \notin MasksHeld(k)
        BY <1>1, <2>1, <3>2 DEF MapInv
      <4> QED
        BY <1>1, <1>4, <2>1, <3>2, <4>1
    <3> QED
      BY <3>1, <3>2
  <2> QED
    BY <2>1 DEF MasksHeld
<1>10. \A u, v \in Thread :
         Alters(u)' /\ Alters(v)' /\ th'[u].h \notin BothStyles
           /\ th'[u].h = th'[v].h /\ th'[u].mask = th'[v].mask => u = v
  <2>1. \A u \in Thread : Alters(u) /\ th[u].h \notin BothStyles
                            => ~ (th[u].h = s.h /\ th[u].mask = s.mask)
    BY <1>3 DEF MapInv
  <2>2. \A u, v \in Thread :
          Alters(u) /\ Alters(v) /\ th[u].h \notin BothStyles
            /\ th[u].h = th[v].h /\ th[u].mask = th[v].mask => u = v
    BY DEF MapInv
  <2> QED
    BY <1>1, <2>1, <2>2
<1>11. \A u \in Thread : Deletes(u)' => th'[u].ret \in {"idle", "calling"}
  BY <1>1 DEF MapInv
<1>12. \A k \in Handle \ open' : MapsOf(k)' = {}
  BY <1>5 DEF MapInv
<1>13. \A k \in Handle : Closed(k)' => MasksHeld(k)' = {}
  BY <1>2, <1>4 DEF MapInv
<1> QED
  BY <1>5, <1>6, <1>8, <1>9, <1>10, <1>11, <1>12, <1>13 DEF MapInv

LEMMA UnsubscribeMaps ==
  ASSUME MapInv, TypeInv, NEW s \in Subscription,
         \/ \E t \in App : Unsubscribe(t, s)
         \/ \E h \in Handle : UnsubscribeInCallback(h, s)
  PROVE  MapInv'
<1>0. th \in [Thread -> ThreadRecord]
  BY DEF TypeInv, ThreadInv
<1>1. ASSUME NEW t \in App, Unsubscribe(t, s) PROVE MapInv'
  <2> DEFINE r == [Running("delete") EXCEPT !.h = s.h, !.mask = s.mask]
  <2>1. /\ s \in held /\ held' = held \ {s} /\ UNCHANGED <<open, info>> /\ Calls(t, r)
        /\ Leaves(t) /\ th[t].pc = "idle" /\ t \in Thread
    BY <1>1, CallLeaves, Names DEF Unsubscribe
  <2>2. r.pc = "delete" /\ r.h = s.h /\ r.mask = s.mask /\ r.ret = "idle"
    BY DEF Running, NoThread
  <2> HIDE DEF r
  <2>3. th'[t] = r
    BY <1>0, <2>1 DEF Calls
  <2>4. ~ Alters(t) /\ th[t].pc \notin Closing
    BY <2>1 DEF Alters, Adds, Deletes, Closing
  <2> QED
    BY <2>1, <2>2, <2>3, <2>4, LeavingMaps
<1>2. ASSUME NEW h \in Handle, UnsubscribeInCallback(h, s) PROVE MapInv'
  <2>1. /\ s \in held /\ s.h = h /\ held' = held \ {s} /\ UNCHANGED <<open, info>>
        /\ th[h].pc = "calling" /\ h \in Thread /\ h \notin App
        /\ th' = [th EXCEPT ![h].pc = "delete", ![h].h = h, ![h].mask = s.mask, ![h].ret = "calling"]
    BY <1>2, Names DEF UnsubscribeInCallback, Is
  <2>2. Leaves(h)
    BY <1>0, <2>1 DEF Leaves
  <2>3. th'[h].pc = "delete" /\ th'[h].h = s.h /\ th'[h].mask = s.mask /\ th'[h].ret = "calling"
    BY <1>0, <2>1 DEF ThreadRecord
  <2>4. ~ Alters(h) /\ th[h].pc \notin Closing
    BY <2>1 DEF Alters, Adds, Deletes, Closing
  <2> QED
    BY <2>1, <2>2, <2>3, <2>4, LeavingMaps
<1> QED
  BY <1>1, <1>2

(* FTBCI_util_add_to_subscription_map and _remove_from_: what the maps are *)
(* like after it.                                                          *)
LEMMA AddedKeys ==
  ASSUME KeysTellApart, MapInv, TypeInv, NEW t \in App, AddMask(t),
         NEW h \in Handle, h = th[t].h, NEW m \in Mask, m = th[t].mask
  PROVE  \A k \in Handle :
           /\ MapsOf(k)' = IF k = h THEN MapsOf(k) \cup {m} ELSE MapsOf(k)
           /\ Apart(info'[k].polling) /\ Apart(info'[k].callbacks)
<1>1. /\ info \in [Handle -> InfoRecord] /\ info[h] \in InfoRecord
      /\ info[h].polling \in Seq(Mask) /\ info[h].callbacks \in Seq(Mask)
      /\ Apart(info[h].polling) /\ Apart(info[h].callbacks)
  BY HandleRecord DEF TypeInv, InfoOK, MapInv
<1> DEFINE p == Inserted(info[h].polling, m)
           c == Inserted(info[h].callbacks, m)
<1>2. /\ Keys(p) = Keys(info[h].polling) \cup {m} /\ Apart(p)
      /\ Keys(c) = Keys(info[h].callbacks) \cup {m} /\ Apart(c)
  BY <1>1, InsertedKeys
<1>3. info' = [info EXCEPT ![h].polling = p] \/ info' = [info EXCEPT ![h].callbacks = c]
  BY DEF AddMask
<1> HIDE DEF p, c
<1>4. \A k \in Handle \ {h} : info'[k] = info[k]
  BY <1>1, <1>3
<1>5. \/ info'[h].polling = p /\ info'[h].callbacks = info[h].callbacks
      \/ info'[h].polling = info[h].polling /\ info'[h].callbacks = c
  BY <1>1, <1>3 DEF InfoRecord
<1>6. Apart(info'[h].polling) /\ Apart(info'[h].callbacks)
      /\ Keys(info'[h].polling) \cup Keys(info'[h].callbacks)
           = Keys(info[h].polling) \cup Keys(info[h].callbacks) \cup {m}
  BY <1>1, <1>2, <1>5
<1>7. MapsOf(h)' = MapsOf(h) \cup {m}
  BY <1>6 DEF MapsOf, Keys
<1>8. ASSUME NEW k \in Handle \ {h}
      PROVE  MapsOf(k)' = MapsOf(k) /\ Apart(info'[k].polling) /\ Apart(info'[k].callbacks)
  BY <1>4 DEF MapsOf, Keys, MapInv
<1> QED
  BY <1>6, <1>7, <1>8

LEMMA DeletedKeys ==
  ASSUME KeysTellApart, MapInv, TypeInv, NEW t \in Thread, DeleteMask(t),
         NEW h \in Handle, h = th[t].h, NEW m \in Mask, m = th[t].mask
  PROVE  \A k \in Handle :
           /\ MapsOf(k)' = IF k = h THEN MapsOf(k) \ {m} ELSE MapsOf(k)
           /\ Apart(info'[k].polling) /\ Apart(info'[k].callbacks)
<1>1. /\ info \in [Handle -> InfoRecord] /\ info[h] \in InfoRecord
      /\ info[h].polling \in Seq(Mask) /\ info[h].callbacks \in Seq(Mask)
      /\ Apart(info[h].polling) /\ Apart(info[h].callbacks)
  BY HandleRecord DEF TypeInv, InfoOK, MapInv
<1> DEFINE p == Removed(info[h].polling, m)
           c == Removed(info[h].callbacks, m)
<1>2. /\ Keys(p) = Keys(info[h].polling) \ {m} /\ Apart(p)
      /\ Keys(c) = Keys(info[h].callbacks) \ {m} /\ Apart(c)
  BY <1>1, RemovedKeys
<1>3. info' = [info EXCEPT ![h].polling = p, ![h].callbacks = c]
  BY <1>1 DEF DeleteMask, InfoRecord
<1> HIDE DEF p, c
<1>4. \A k \in Handle \ {h} : info'[k] = info[k]
  BY <1>1, <1>3
<1>5. info'[h].polling = p /\ info'[h].callbacks = c
  BY <1>1, <1>3 DEF InfoRecord
<1>6. MapsOf(h)' = MapsOf(h) \ {m}
  <2>1. Keys(info'[h].polling) \cup Keys(info'[h].callbacks)
          = (Keys(info[h].polling) \cup Keys(info[h].callbacks)) \ {m}
    BY <1>2, <1>5
  <2> QED
    BY <2>1 DEF MapsOf, Keys
<1>7. ASSUME NEW k \in Handle \ {h}
      PROVE  MapsOf(k)' = MapsOf(k) /\ Apart(info'[k].polling) /\ Apart(info'[k].callbacks)
  BY <1>4 DEF MapsOf, Keys, MapInv
<1> QED
  BY <1>2, <1>5, <1>6, <1>7

LEMMA AddMaps ==
  ASSUME KeysTellApart, MapInv, TypeInv, NEW t \in App, AddMask(t)
  PROVE  MapInv'
<1>0. th[t].pc = "add" /\ t \in Thread /\ th[t].ret = "add"
  BY AppThread, Names DEF AddMask, Is, AppRecord
<1>1. Alters(t) /\ ~ Deletes(t)
  BY <1>0 DEF Alters, Adds, Deletes
<1>2. PICK h \in Handle, m \in Mask : h = th[t].h /\ m = th[t].mask
  BY <1>0, <1>1, Altered
<1>3. /\ UNCHANGED open /\ held' = held \cup {[h |-> h, mask |-> m, how |-> th[t].how]}
      /\ th' = [th EXCEPT ![t].pc = "subscribe"]
  BY <1>2 DEF AddMask, Goes
<1>4. /\ th'[t].pc = "subscribe"
      /\ th'[t].h = h /\ th'[t].mask = m /\ th'[t].ret = th[t].ret
  BY <1>0, <1>2, <1>3, Went
<1>5. Leaves(t)
  BY AppLeaves
<1>6. \A u \in Thread \ {t} :
        /\ Alters(u)' => th'[u] = th[u] /\ Alters(u)
        /\ Deletes(u)' <=> Deletes(u)
        /\ Deletes(u) => th'[u] = th[u]
  BY <1>0, <1>5, OthersKeep DEF Deletes, TypeInv
<1>7. ~ Alters(t)' /\ ~ Deletes(t)'
  BY <1>4 DEF Alters, Adds, Deletes
<1>8. \A k : Closed(k)' <=> Closed(k)
  BY <1>0, <1>2, <1>3, <1>4, <1>5, ClosedStays DEF Closing, TypeInv
<1>9. \A k : Leaving(k)' = Leaving(k)
  BY <1>1, <1>6, <1>7 DEF Leaving
<1>10. \A k : MasksHeld(k)' = IF k = h THEN MasksHeld(k) \cup {m} ELSE MasksHeld(k)
  <2>1. PICK s : s = [h |-> h, mask |-> m, how |-> th[t].how]
    OBVIOUS
  <2>2. s.h = h /\ s.mask = m /\ held' = held \cup {s}
    BY <1>3, <2>1
  <2>3. ASSUME NEW k
        PROVE  MasksHeld(k)' = IF k = h THEN MasksHeld(k) \cup {m} ELSE MasksHeld(k)
    <3>1. MasksHeld(k)' = {u.mask : u \in {v \in held' : v.h = k}}
          /\ MasksHeld(k) = {u.mask : u \in {v \in held : v.h = k}}
      BY DEF MasksHeld
    <3> QED
      BY <2>2, <3>1
  <2> QED
    BY <2>3
<1>11. ~ Closed(h)
  BY <1>0, <1>1, <1>2 DEF MapInv
<1>12. \A k \in Handle :
         /\ MapsOf(k)' = IF k = h THEN MapsOf(k) \cup {m} ELSE MapsOf(k)
         /\ Apart(info'[k].polling) /\ Apart(info'[k].callbacks)
  BY <1>2, AddedKeys
<1>13. \A k \in Handle : Apart(info[k].polling)' /\ Apart(info[k].callbacks)'
  BY <1>12 DEF Apart
<1>14. \A k \in Handle \ open' : MapsOf(k)' = {}
  BY <1>3, <1>11, <1>12 DEF MapInv, Closed
<1>15. \A k \in Handle : Closed(k)' => MasksHeld(k)' = {}
  BY <1>8, <1>10, <1>11 DEF MapInv
<1>16. \A u \in Thread : Alters(u)' => ~ Closed(th[u].h)'
  <2>1. \A u \in Thread : Alters(u)' => ~ Closed(th'[u].h)
    BY <1>6, <1>7 DEF MapInv
  <2> QED
    BY <1>8, <2>1 DEF Closed
<1>17. \A k \in Handle \ BothStyles : ~ Closed(k)' => MapsOf(k)' = MasksHeld(k)' \cup Leaving(k)'
  BY <1>8, <1>9, <1>10, <1>12 DEF MapInv
<1>18. \A u \in Thread : Alters(u)' /\ th'[u].h \notin BothStyles
                           => th'[u].mask \notin MasksHeld(th[u].h)'
  <2>1. ASSUME NEW u \in Thread, Alters(u)', th'[u].h \notin BothStyles, NEW k, k = th'[u].h
        PROVE  th'[u].mask \notin MasksHeld(k)'
    <3>1. u # t /\ th'[u] = th[u] /\ Alters(u)
      BY <1>6, <1>7, <2>1
    <3>2. th[u].mask \notin MasksHeld(k)
      BY <2>1, <3>1 DEF MapInv
    <3>3. k = h => th[u].mask # m
      BY <1>0, <1>1, <1>2, <2>1, <3>1 DEF MapInv
    <3> QED
      BY <1>10, <3>1, <3>2, <3>3
  <2> QED
    BY <2>1 DEF MasksHeld
<1>19. \A u, v \in Thread :
         Alters(u)' /\ Alters(v)' /\ th'[u].h \notin BothStyles
           /\ th'[u].h = th'[v].h /\ th'[u].mask = th'[v].mask => u = v
  <2>1. \A u, v \in Thread :
          Alters(u) /\ Alters(v) /\ th[u].h \notin BothStyles
            /\ th[u].h = th[v].h /\ th[u].mask = th[v].mask => u = v
    BY DEF MapInv
  <2> QED
    BY <1>6, <1>7, <2>1
<1>20. \A u \in Thread : Deletes(u)' => th'[u].ret \in {"idle", "calling"}
  BY <1>6, <1>7 DEF MapInv
<1> QED
  BY <1>13, <1>14, <1>15, <1>16, <1>17, <1>18, <1>19, <1>20 DEF MapInv

LEMMA DeleteMaps ==
  ASSUME KeysTellApart, MapInv, TypeInv, NEW t \in Thread, DeleteMask(t), Leaves(t)
  PROVE  MapInv'
<1>0. th[t].pc = "delete" /\ th[t].ret \in {"idle", "calling"}
  BY DEF DeleteMask, Is, MapInv, Deletes
<1>1. Alters(t) /\ Deletes(t)
  BY <1>0 DEF Alters, Adds, Deletes
<1>2. PICK h \in Handle, m \in Mask : h = th[t].h /\ m = th[t].mask
  BY <1>1, Altered
<1>3. /\ UNCHANGED <<open, held>> /\ th' = [th EXCEPT ![t].pc = "progress", ![t].ret = th[t].ret]
      /\ th \in [Thread -> ThreadRecord] /\ th[t] \in ThreadRecord
  BY DEF DeleteMask, Progress, TypeInv, ThreadInv
<1>4. th'[t].pc = "progress" /\ th'[t].ret = th[t].ret /\ th'[t].h = h
  BY <1>2, <1>3 DEF ThreadRecord
<1>6. \A u \in Thread \ {t} :
        /\ Alters(u)' => th'[u] = th[u] /\ Alters(u)
        /\ Deletes(u)' <=> Deletes(u)
        /\ Deletes(u) => th'[u] = th[u]
  BY OthersKeep DEF Deletes, TypeInv
<1>7. ~ Alters(t)' /\ ~ Deletes(t)'
  BY <1>0, <1>4 DEF Alters, Adds, Deletes
<1>8. \A k : Closed(k)' <=> Closed(k)
  BY <1>0, <1>2, <1>3, <1>4, ClosedStays DEF Closing, TypeInv
<1>9. /\ \A k : k # h => Leaving(k)' = Leaving(k)
      /\ h \notin BothStyles => Leaving(h)' = Leaving(h) \ {m}
  <2>1. \A k : k # h => Leaving(k)' = Leaving(k)
    BY <1>2, <1>6, <1>7 DEF Leaving
  <2>2. ASSUME h \notin BothStyles PROVE Leaving(h)' = Leaving(h) \ {m}
    <3>1. \A u \in Thread \ {t} : Deletes(u) /\ th[u].h = h => th[u].mask # m
      BY <1>1, <1>2, <2>2 DEF MapInv, Alters
    <3> QED
      BY <1>2, <1>6, <1>7, <3>1 DEF Leaving
  <2> QED
    BY <2>1, <2>2
<1>10. \A k : MasksHeld(k)' = MasksHeld(k)
  BY <1>3 DEF MasksHeld
<1>11. ~ Closed(h) /\ (h \notin BothStyles => m \notin MasksHeld(h))
  BY <1>1, <1>2 DEF MapInv
<1>12. \A k \in Handle :
         /\ MapsOf(k)' = IF k = h THEN MapsOf(k) \ {m} ELSE MapsOf(k)
         /\ Apart(info'[k].polling) /\ Apart(info'[k].callbacks)
  BY <1>2, DeletedKeys
<1>13. \A k \in Handle : Apart(info[k].polling)' /\ Apart(info[k].callbacks)'
  BY <1>12 DEF Apart
<1>14. \A k \in Handle \ open' : MapsOf(k)' = {}
  BY <1>3, <1>12 DEF MapInv
<1>15. \A k \in Handle : Closed(k)' => MasksHeld(k)' = {}
  BY <1>8, <1>10 DEF MapInv
<1>16. \A u \in Thread : Alters(u)' => ~ Closed(th[u].h)'
  <2>1. \A u \in Thread : Alters(u)' => ~ Closed(th'[u].h)
    BY <1>6, <1>7 DEF MapInv
  <2> QED
    BY <1>8, <2>1 DEF Closed
<1>17. \A k \in Handle \ BothStyles : ~ Closed(k)' => MapsOf(k)' = MasksHeld(k)' \cup Leaving(k)'
  BY <1>8, <1>9, <1>10, <1>11, <1>12 DEF MapInv
<1>18. \A u \in Thread : Alters(u)' /\ th'[u].h \notin BothStyles
                           => th'[u].mask \notin MasksHeld(th[u].h)'
  <2>1. \A u \in Thread : Alters(u)' /\ th'[u].h \notin BothStyles
                           => th'[u].mask \notin MasksHeld(th'[u].h)
    BY <1>6, <1>7 DEF MapInv
  <2> QED
    BY <1>3, <2>1 DEF MasksHeld
<1>19. \A u, v \in Thread :
         Alters(u)' /\ Alters(v)' /\ th'[u].h \notin BothStyles
           /\ th'[u].h = th'[v].h /\ th'[u].mask = th'[v].mask => u = v
  <2>1. \A u, v \in Thread :
          Alters(u) /\ Alters(v) /\ th[u].h \notin BothStyles
            /\ th[u].h = th[v].h /\ th[u].mask = th[v].mask => u = v
    BY DEF MapInv
  <2> QED
    BY <1>6, <1>7, <2>1
<1>20. \A u \in Thread : Deletes(u)' => th'[u].ret \in {"idle", "calling"}
  BY <1>6, <1>7 DEF MapInv
<1> QED
  BY <1>13, <1>14, <1>15, <1>16, <1>17, <1>18, <1>19, <1>20 DEF MapInv

-----------------------------------------------------------------------------
(* All steps, as far as maps go.                                           *)

(* DeleteMask by the thread of a handle.                                   *)
LEMMA CallbackLeaves ==
  ASSUME TypeInv, NEW h \in Handle, DeleteMask(h)
  PROVE  Leaves(h)
BY DEF DeleteMask, Progress, Leaves, TypeInv, ThreadInv

LEMMA ProceedsMaps ==
  ASSUME KeysTellApart, MapInv, TypeInv, NEW t \in App, Proceeds(t)
  PROVE  MapInv'
<1>1. CASE StartThreads(t) \/ Insert(t) \/ RemoveHandle(t)
  BY <1>1, StartMaps, InsertMaps, RemoveMaps
<1>2. CASE AddMask(t)
  BY <1>2, AddMaps
<1>3. CASE DeleteMask(t)
  BY <1>3, DeleteMaps, AppLeaves, Names
<1>4. CASE Register(t) \/ SendMask(t) \/ PollNothing(t) \/ Join(t) \/ JoinedUnlock(t)
  BY <1>4, SmallQuiet, QuietMaps, Names
<1>5. CASE CheckProgress(t) \/ Grab(t) \/ GrabNothing(t) \/ Scan(t) \/ Finalize(t)
  BY <1>5, LargeQuiet, QuietMaps, Names
<1>6. CASE Receives(t)
  BY <1>6, ReceivesQuiet, QuietMaps, Names
<1> QED
  BY <1>1, <1>2, <1>3, <1>4, <1>5, <1>6 DEF Proceeds

LEMMA NextMaps ==
  ASSUME KeysTellApart, MapInv, TypeInv, [Next]_vars
  PROVE  MapInv'
<1>0. Notified \subseteq Handle
  BY DEF Handle
<1>1. ASSUME NEW t \in App, Proceeds(t) PROVE MapInv'
  BY <1>1, ProceedsMaps
<1>2. ASSUME NEW t \in App, NEW h \in Handle, Connect(t, h) \/ Disconnect(t, h) PROVE MapInv'
  BY <1>2, CallQuiet, QuietMaps, DisconnectMaps, Names
<1>3. ASSUME NEW t \in App, NEW s \in Subscription, Subscribe(t, s) \/ Unsubscribe(t, s) \/ Poll(t, s)
      PROVE  MapInv'
  BY <1>3, SubscribeMaps, UnsubscribeMaps, CallQuiet, QuietMaps, Names
<1>4. CASE RxStep
  BY <1>4, RxQuiet, QuietMaps, Names
<1>5. ASSUME NEW h \in Handle, CallbackStep(h) PROVE MapInv'
  <2>1. CASE DeleteMask(h)
    BY <2>1, DeleteMaps, CallbackLeaves, Names
  <2> QED
    BY <1>5, <2>1, CallbackQuiet, QuietMaps, Names DEF CallbackStep
<1>6. ASSUME NEW h \in Handle, NEW s \in Subscription, UnsubscribeInCallback(h, s) PROVE MapInv'
  BY <1>6, UnsubscribeMaps
<1>7. CASE \/ \E h \in Handle, e \in Event : Arrive(h, e)
           \/ Lose
           \/ UNCHANGED vars
  BY <1>7, AgentQuiet, QuietMaps, Names
<1> QED
  BY <1>0, <1>1, <1>2, <1>3, <1>4, <1>5, <1>6, <1>7 DEF Next

-----------------------------------------------------------------------------
(* What the agent knows.                                                   *)

LEMMA SteadyStays ==
  ASSUME Up' => Up, cut => cut',
         \A u \in Thread : th[u].pc = "reconnect" => th'[u].pc = "reconnect"
  PROVE  Steady' => Steady
BY DEF Steady

LEMMA ClosedGrows ==
  ASSUME open' \subseteq open, NEW k \in open', ~ Closed(k)',
         \A u \in App : th[u].pc \in Closing =>
           th[u].h # k \/ (th'[u].pc \in Closing /\ th'[u].h = th[u].h)
  PROVE  k \in open /\ ~ Closed(k)
BY DEF Closed

LEMMA KnowsStays ==
  ASSUME NEW h, Knows(h), h \in known => h \in known',
         \A u \in App : th[u].pc \in {"register", "subscribe"} => th'[u] = th[u],
         h \notin BothStyles => \A m \in MasksHeld(h)' :
           m \in MasksHeld(h) /\ (m \in agent[h] => m \in agent'[h])
  PROVE  Knows(h)'
<1>1. h \in known' \/ Registering(h)'
  BY DEF Knows, Registering
<1>2. ASSUME h \notin BothStyles, NEW m \in MasksHeld(h)'
      PROVE  m \in agent'[h] \/ Sending(h, m)'
  BY <1>2 DEF Knows, Sending
<1> QED
  BY <1>1, <1>2 DEF Knows

LEMMA RegFrame ==
  ASSUME RegInv, Steady' => Steady,
         \A u \in App : th[u].pc \in {"register", "subscribe"} => th'[u] = th[u],
         Steady' => \A h \in open' :
           \/ Closed(h)'
           \/ Knows(h)'
           \/ /\ h \in open /\ ~ Closed(h) /\ (h \in known => h \in known')
              /\ h \notin BothStyles => \A m \in MasksHeld(h)' :
                   m \in MasksHeld(h) /\ (m \in agent[h] => m \in agent'[h])
  PROVE  RegInv'
<1> SUFFICES ASSUME Steady', NEW h \in open', ~ Closed(h)' PROVE Knows(h)'
  BY DEF RegInv
<1>1. CASE Knows(h)'
  BY <1>1
<1>2. CASE /\ h \in open /\ ~ Closed(h) /\ (h \in known => h \in known')
           /\ h \notin BothStyles => \A m \in MasksHeld(h)' :
                m \in MasksHeld(h) /\ (m \in agent[h] => m \in agent'[h])
  <2>1. Knows(h)
    BY <1>2 DEF RegInv
  <2> QED
    BY <1>2, <2>1, KnowsStays
<1> QED
  BY <1>1, <1>2

(* Steps that do not bear on it.                                           *)
LEMMA RegQuiet ==
  ASSUME TypeInv, RegInv, NEW t \in Thread, Quiet(t), UNCHANGED <<known, agent>>,
         Up' => Up, cut' = cut,
         th[t].pc \in {"register", "subscribe", "reconnect"} => th'[t] = th[t]
  PROVE  RegInv'
<1>0. Leaves(t) /\ Keeps(t) /\ UNCHANGED <<open, held>>
  BY DEF Quiet
<1>1. \A u \in Thread : th[u].pc \in {"register", "subscribe", "reconnect"} => th'[u] = th[u]
  BY <1>0, Woken DEF Leaves, Wakes, TypeInv
<1>2. Steady' => Steady
  BY <1>1, SteadyStays
<1>3. \A h : Closed(h)' <=> Closed(h)
  BY <1>0, ClosedStays DEF Keeps, TypeInv
<1>4. \A h : MasksHeld(h)' = MasksHeld(h)
  BY <1>0 DEF MasksHeld
<1>5. \A u \in App : th[u].pc \in {"register", "subscribe"} => th'[u] = th[u]
  BY <1>1, Names
<1> QED
  BY <1>0, <1>2, <1>3, <1>4, <1>5, RegFrame

(* FTBM_Get: at the end of the connection the thread goes to register.     *)
LEMMA ReadReg ==
  ASSUME TypeInv, RegInv, NEW t \in Thread, Quiet(t), Read(t), cut' = cut,
         th[t].pc \in {"select", "grab"}
  PROVE  RegInv'
<1>1. CASE Head(stream) = EOF
  <2>1. th'[t].pc = "reconnect"
    BY <1>1 DEF Read, Goes, TypeInv, ThreadInv, ThreadRecord
  <2> QED
    BY <2>1 DEF RegInv, Steady
<1>2. CASE Head(stream) # EOF
  <2>1. stream \in Seq(Item) /\ stream # <<>> /\ stream' = Tail(stream) /\ UNCHANGED <<known, agent>>
    BY <1>2 DEF Read, TypeInv, NetOK
  <2>2. Up' => Up
    <3>1. SUFFICES ASSUME Up', NEW i \in DOMAIN stream PROVE stream[i] # EOF
      BY DEF Up
    <3>2. i \in 1..Len(stream) /\ Len(stream) \in Nat
      BY <2>1
    <3>3. CASE i = 1
      BY <1>2, <2>1, <3>3
    <3>4. CASE i # 1
      <4>1. i - 1 \in DOMAIN Tail(stream) /\ Tail(stream)[i - 1] = stream[i]
        BY <2>1, <3>2, <3>4
      <4> QED
        BY <2>1, <3>1, <4>1 DEF Up
    <3> QED
      BY <3>3, <3>4
  <2> QED
    BY <2>1, <2>2, RegQuiet
<1> QED
  BY <1>1, <1>2

(* FTBCI_util_reconnect: everything the maps hold is registered.           *)
LEMMA ReconnectReg ==
  ASSUME MapInv', TypeInv, NEW t \in App \cup {Rx}, Reconnect(t)
  PROVE  RegInv'
<1> SUFFICES ASSUME Steady', NEW h \in open', ~ Closed(h)' PROVE Knows(h)'
  BY DEF RegInv
<1>1. /\ t \in Thread /\ th[t].pc = "reconnect" /\ UNCHANGED <<open, info, stream>> /\ h \in Handle
  BY Names DEF Reconnect, Is, TypeInv, CountInv
<1>2. Up
  BY <1>1 DEF Steady, Up
<1>3. known' = open /\ agent' = [k \in Handle |-> IF k \in open THEN MapsOf(k) ELSE agent[k]]
  <2>1. ~ UNCHANGED th
    BY <1>1 DEF Steady
  <2> QED
    BY <1>2, <2>1 DEF Reconnect
<1>4. h \in known' /\ agent'[h] = MapsOf(h)'
  BY <1>1, <1>3 DEF MapsOf, Keys
<1>5. h \notin BothStyles => MasksHeld(h)' \subseteq MapsOf(h)'
  BY <1>1 DEF MapInv
<1> QED
  BY <1>4, <1>5 DEF Knows

LEMMA RxReg ==
  ASSUME MapInv', TypeInv, RegInv, RxStep
  PROVE  RegInv'
<1>0. Quiet(Rx) /\ Rx \in Thread
  BY RxQuiet, Names
<1>1. CASE LockRecv
  <2>1. /\ th[Rx].pc = "receive" /\ UNCHANGED <<stream, known, agent, cut>>
    BY <1>1 DEF LockRecv, Is, net, history
  <2>2. Up' => Up
    BY <2>1 DEF Up
  <2> QED
    BY <1>0, <2>1, <2>2, RegQuiet
<1>2. CASE Receive
  <2>1. Read(Rx) /\ cut' = cut /\ th[Rx].pc = "select"
    BY <1>2 DEF Receive, Read, Is, history
  <2> QED
    BY <1>0, <2>1, ReadReg
<1>3. CASE Reconnect(Rx)
  BY <1>3, ReconnectReg
<1>4. CASE Lookup(Rx) \/ LockHandle(Rx) \/ Push(Rx)
  <2>1. /\ th[Rx].pc \in {"lookup", "deliver", "push"} /\ UNCHANGED <<stream, known, agent, cut>>
    BY <1>4 DEF Lookup, LockHandle, Push, Is, net, history
  <2>2. Up' => Up
    BY <2>1 DEF Up
  <2> QED
    BY <1>0, <2>1, <2>2, RegQuiet
<1> QED
  BY <1>1, <1>2, <1>3, <1>4 DEF RxStep, Receives

(* FTBC_Connect and FTBM_Component_reg.                                    *)
LEMMA NoneOpen ==
  ASSUME TypeInv, num = 0
  PROVE  open = {}
<1>1. IsFiniteSet(Counted) /\ Cardinality(Counted) = 0
  BY DEF TypeInv, CountInv
<1>2. Counted = {}
  BY <1>1, FS_EmptySet
<1> QED
  BY <1>2 DEF Counted

LEMMA ConnectReg ==
  ASSUME TypeInv, RegInv, NEW t \in App,
         (\E h \in Handle : Connect(t, h)) \/ (\E s \in Subscription : Poll(t, s))
  PROVE  RegInv'
<1>1. Quiet(t) /\ t \in Thread /\ th[t].pc = "idle" /\ UNCHANGED <<open, cut>>
  BY CallQuiet, Names DEF Connect, Poll, Calls, Is, history
<1>2. CASE UNCHANGED net
  <2>1. UNCHANGED <<stream, known, agent>>
    BY <1>2 DEF net
  <2>2. Up' => Up
    BY <2>1 DEF Up
  <2> QED
    BY <1>1, <2>1, <2>2, RegQuiet
<1>3. CASE num = 0
  BY <1>1, <1>3, NoneOpen DEF RegInv
<1> QED
  BY <1>2, <1>3 DEF Connect, Poll, net

LEMMA StartReg ==
  ASSUME TypeInv, RegInv, NEW t \in App, StartThreads(t)
  PROVE  RegInv'
<1>0. PICK h \in Handle : h = th[t].h
  BY AppThread DEF StartThreads, Is
<1>1. /\ th[t].pc = "threads" /\ UNCHANGED <<open, held, stream, known, agent, cut>>
      /\ h \notin open
  BY <1>0 DEF StartThreads, Is, net, history, TypeInv, AloneInv, Opening
<1>2. th \in [Thread -> ThreadRecord] /\ t \in Thread /\ h \in Thread /\ Rx \in Thread
      /\ h # t /\ h # Rx /\ t # Rx /\ h \notin App /\ Rx \notin App
  BY Names DEF TypeInv, ThreadInv
<1>3. /\ th'[t].pc = "insert" /\ th'[t].h = th[t].h
      /\ \A u \in Thread \ {t, h, Rx} : th'[u] = th[u]
      /\ th'[Rx] = th[Rx] \/ enable = 0
  BY <1>0, <1>1, <1>2 DEF StartThreads, Goes, ThreadRecord
<1>4. th[Rx].pc = "reconnect" => enable # 0
  <2>1. ASSUME enable = 0 PROVE th[Rx].pc # "reconnect"
    <3>1. IsFiniteSet(Served \cap Notified) /\ Cardinality(Served \cap Notified) = 0
      <4>1. Served \subseteq Counted
        BY DEF Served, Counted, OfThreads
      <4> QED
        BY <2>1, <4>1, FS_Subset DEF TypeInv, CountInv
    <3>2. Served \cap Notified = {}
      BY <3>1, FS_EmptySet
    <3> QED
      BY <3>2 DEF TypeInv, CountInv, NoThread
  <2> QED
    BY <2>1
<1>5. th[h].pc # "reconnect"
  BY <1>2 DEF TypeInv, ThreadInv, WellFormed, CallbackRecord, CallbackPCs
<1>6. Steady' => Steady
  <2>1. Up' => Up
    BY <1>1 DEF Up
  <2>2. \A u \in Thread : th[u].pc = "reconnect" => th'[u].pc = "reconnect"
    BY <1>1, <1>3, <1>4, <1>5
  <2> QED
    BY <1>1, <2>1, <2>2, SteadyStays
<1>7. \A u \in App : u # t => th'[u] = th[u]
  BY <1>2, <1>3, Names
<1>8. \A k \in open' : ~ Closed(k)' => k \in open /\ ~ Closed(k)
  BY <1>1, <1>7, ClosedGrows DEF Closing
<1>9. \A k : MasksHeld(k)' = MasksHeld(k)
  BY <1>1 DEF MasksHeld
<1>10. \A u \in App : th[u].pc \in {"register", "subscribe"} => th'[u] = th[u]
  BY <1>1, <1>7
<1> QED
  BY <1>1, <1>6, <1>8, <1>9, <1>10, RegFrame

LEMMA InsertReg ==
  ASSUME TypeInv, MapInv, RegInv, NEW t \in App, Insert(t)
  PROVE  RegInv'
<1>0. PICK h \in Handle : h = th[t].h
  BY AppThread DEF Insert, Is
<1>1. /\ th[t].pc = "insert" /\ UNCHANGED <<held, stream, known, agent, cut>>
      /\ open' = open \cup {h} /\ h \notin open /\ th' = [th EXCEPT ![t].pc = "register"]
  BY <1>0 DEF Insert, Is, Goes, net, history, TypeInv, AloneInv, Opening
<1>2. t \in Thread /\ th'[t].pc = "register" /\ th'[t].h = h
      /\ \A u \in Thread \ {t} : th'[u] = th[u]
  BY <1>0, <1>1, Names DEF TypeInv, ThreadInv, ThreadRecord
<1>3. Steady' => Steady
  <2>1. Up' => Up
    BY <1>1 DEF Up
  <2> QED
    BY <1>1, <1>2, <2>1, SteadyStays
<1>4. \A u \in App : th[u].pc \in {"register", "subscribe"} \cup Closing => th'[u] = th[u]
  BY <1>1, <1>2, Names DEF Closing
<1>5. \A k : MasksHeld(k)' = MasksHeld(k)
  BY <1>1 DEF MasksHeld
<1>6. Knows(h)'
  <2>1. MasksHeld(h) = {}
    BY <1>1 DEF MapInv, Closed
  <2>2. Registering(h)'
    BY <1>2 DEF Registering
  <2> QED
    BY <1>5, <2>1, <2>2 DEF Knows
<1>7. \A k \in open' \ {h} : ~ Closed(k)' => k \in open /\ ~ Closed(k)
  BY <1>1, <1>4 DEF Closed
<1> QED
  BY <1>1, <1>3, <1>4, <1>5, <1>6, <1>7, RegFrame

LEMMA RegisterReg ==
  ASSUME TypeInv, RegInv, NEW t \in App, Register(t)
  PROVE  RegInv'
<1> SUFFICES ASSUME Steady', NEW h \in open', ~ Closed(h)' PROVE Knows(h)'
  BY DEF RegInv
<1>1. /\ th[t].pc = "register" /\ UNCHANGED <<open, held, stream, agent, cut>>
      /\ th' = [th EXCEPT ![t].pc = "progress", ![t].ret = "idle"]
  BY DEF Register, Is, Progress, history
<1>2. t \in Thread /\ th'[t].pc = "progress" /\ \A u \in Thread \ {t} : th'[u] = th[u]
  BY <1>1, Names DEF TypeInv, ThreadInv, ThreadRecord
<1>3. Up
  BY <1>1 DEF Up, Steady
<1>4. known' = known \cup {th[t].h}
  BY <1>3 DEF Register
<1>5. Steady
  BY <1>1, <1>2, <1>3, SteadyStays
<1>6. h \in open /\ ~ Closed(h)
  BY <1>1, <1>2, ClosedGrows, Names DEF Closing
<1>7. Knows(h)
  BY <1>5, <1>6 DEF RegInv
<1>8. h \in known' \/ Registering(h)'
  BY <1>2, <1>4, <1>7, Names DEF Knows, Registering
<1>9. ASSUME h \notin BothStyles, NEW m \in MasksHeld(h)' PROVE m \in agent'[h] \/ Sending(h, m)'
  <2>1. m \in MasksHeld(h)
    BY <1>1 DEF MasksHeld
  <2>2. Sending(h, m) => Sending(h, m)'
    BY <1>1, <1>2, Names DEF Sending
  <2>3. m \in agent[h] \/ Sending(h, m)
    BY <1>7, <1>9, <2>1 DEF Knows
  <2> QED
    BY <1>1, <2>2, <2>3
<1> QED
  BY <1>8, <1>9 DEF Knows

(* FTBM_Reg_catch.  The handle is registered, or another thread would be   *)
(* doing it.                                                               *)
LEMMA SendReg ==
  ASSUME TypeInv, RegInv, NEW t \in App, SendMask(t)
  PROVE  RegInv'
<1> SUFFICES ASSUME Steady', NEW h \in open', ~ Closed(h)' PROVE Knows(h)'
  BY DEF RegInv
<1>1. /\ th[t].pc = "subscribe" /\ UNCHANGED <<open, held, stream, known, cut>>
      /\ th' = [th EXCEPT ![t] = Idle]
  BY DEF SendMask, Is, history
<1>2. t \in Thread /\ th'[t].pc = "idle" /\ \A u \in Thread \ {t} : th'[u] = th[u]
  BY <1>1, Names DEF TypeInv, ThreadInv, Idle
<1>3. Up
  BY <1>1 DEF Up, Steady
<1>4. Steady
  BY <1>1, <1>2, <1>3, SteadyStays
<1>5. h \in open /\ ~ Closed(h) /\ h \in Handle
  BY <1>1, <1>2, ClosedGrows, Names DEF Closing, TypeInv, CountInv
<1>6. Knows(h)
  BY <1>4, <1>5 DEF RegInv
<1>7. h \in known' \/ Registering(h)'
  BY <1>1, <1>2, <1>6, Names DEF Knows, Registering
<1>8. th[t].h = h => h \in known
  <2>1. ASSUME th[t].h = h, Registering(h) PROVE FALSE
    <3>1. PICK u \in App : th[u].pc = "register" /\ th[u].h = h
      BY <2>1 DEF Registering
    <3> QED
      BY <1>1, <2>1, <3>1 DEF TypeInv, AloneInv, Exclusive
  <2> QED
    BY <1>6, <2>1 DEF Knows
<1>9. /\ \A m : m \in agent[h] => m \in agent'[h]
      /\ th[t].h = h => th[t].mask \in agent'[h]
  <2>1. agent \in [Handle -> SUBSET Mask]
    BY DEF TypeInv, NetOK
  <2>2. CASE th[t].h = h
    <3>1. agent' = [agent EXCEPT ![h] = agent[h] \cup {th[t].mask}]
      BY <1>3, <1>8, <2>2 DEF SendMask
    <3> QED
      BY <1>5, <2>1, <3>1
  <2>3. CASE th[t].h # h
    <3>1. agent'[h] = agent[h]
      BY <2>1, <2>3, <1>5 DEF SendMask
    <3> QED
      BY <2>3, <3>1
  <2> QED
    BY <2>2, <2>3
<1>10. ASSUME h \notin BothStyles, NEW m \in MasksHeld(h)' PROVE m \in agent'[h] \/ Sending(h, m)'
  <2>1. m \in MasksHeld(h)
    BY <1>1 DEF MasksHeld
  <2>2. CASE m \in agent[h]
    BY <1>9, <2>2
  <2>3. CASE Sending(h, m)
    <3>1. PICK u \in App : th[u].pc = "subscribe" /\ th[u].h = h /\ th[u].mask = m
      BY <2>3 DEF Sending
    <3>2. CASE u = t
      BY <1>9, <3>1, <3>2
    <3>3. CASE u # t
      <4>1. th'[u] = th[u]
        BY <1>2, <3>3, Names
      <4> QED
        BY <3>1, <4>1 DEF Sending
    <3> QED
      BY <3>2, <3>3
  <2> QED
    BY <1>6, <1>10, <2>1, <2>2, <2>3 DEF Knows
<1> QED
  BY <1>7, <1>10 DEF Knows

(* FTBC_Subscribe and FTBC_Unsubscribe.                                    *)
LEMMA AddReg ==
  ASSUME TypeInv, RegInv, NEW t \in App, AddMask(t)
  PROVE  RegInv'
<1> SUFFICES ASSUME Steady', NEW h \in open', ~ Closed(h)' PROVE Knows(h)'
  BY DEF RegInv
<1>1. /\ th[t].pc = "add" /\ UNCHANGED <<open, stream, known, agent, cut>>
      /\ th' = [th EXCEPT ![t].pc = "subscribe"]
  BY DEF AddMask, Is, Goes, net, history
<1>2. /\ t \in Thread /\ \A u \in Thread \ {t} : th'[u] = th[u]
      /\ th'[t].pc = "subscribe" /\ th'[t].h = th[t].h /\ th'[t].mask = th[t].mask
  BY <1>1, Names DEF TypeInv, ThreadInv, ThreadRecord
<1>3. Steady
  <2>1. Up' => Up
    BY <1>1 DEF Up
  <2> QED
    BY <1>1, <1>2, <2>1, SteadyStays
<1>4. h \in open /\ ~ Closed(h)
  BY <1>1, <1>2, ClosedGrows, Names DEF Closing
<1>5. Knows(h)
  BY <1>3, <1>4 DEF RegInv
<1>6. h \in known' \/ Registering(h)'
  BY <1>1, <1>2, <1>5, Names DEF Knows, Registering
<1>7. ASSUME h \notin BothStyles, NEW m \in MasksHeld(h)' PROVE m \in agent'[h] \/ Sending(h, m)'
  <2>1. PICK s \in held' : s.h = h /\ s.mask = m
    BY DEF MasksHeld
  <2>2. CASE s \in held
    <3>1. m \in MasksHeld(h)
      BY <2>1, <2>2 DEF MasksHeld
    <3> QED
      BY <1>1, <1>2, <1>5, <1>7, <3>1, Names DEF Knows, Sending
  <2>3. CASE s = [h |-> th[t].h, mask |-> th[t].mask, how |-> th[t].how]
    <3>1. th[t].h = h /\ th[t].mask = m
      BY <2>1, <2>3
    <3> QED
      BY <1>2, <3>1 DEF Sending
  <2> QED
    BY <2>2, <2>3 DEF AddMask
<1> QED
  BY <1>6, <1>7 DEF Knows

(* A step of a thread that begins or goes on with a call.                  *)
LEMMA OneThreadReg ==
  ASSUME TypeInv, RegInv, NEW t \in Thread, NEW r, th' = [th EXCEPT ![t] = r],
         th[t].pc \notin {"register", "subscribe", "reconnect"} \cup Closing,
         UNCHANGED <<open, stream, cut>>,
         Steady => \A h \in open :
           \/ Closed(h)'
           \/ /\ h \in known => h \in known'
              /\ h \notin BothStyles => \A m \in MasksHeld(h)' :
                   m \in MasksHeld(h) /\ (m \in agent[h] => m \in agent'[h])
  PROVE  RegInv'
<1>1. \A u \in Thread \ {t} : th'[u] = th[u]
  BY DEF TypeInv, ThreadInv
<1>2. Steady' => Steady
  <2>1. Up' => Up
    BY DEF Up
  <2>2. \A u \in Thread : th[u].pc = "reconnect" => th'[u].pc = "reconnect"
    BY <1>1
  <2> QED
    BY <2>1, <2>2, SteadyStays
<1>3. \A u \in App : th[u].pc \in {"register", "subscribe"} \cup Closing => th'[u] = th[u]
  BY <1>1, Names
<1>4. \A k \in open' : ~ Closed(k)' => k \in open /\ ~ Closed(k)
  BY <1>3, ClosedGrows
<1> QED
  BY <1>2, <1>3, <1>4, RegFrame

LEMMA DeleteReg ==
  ASSUME TypeInv, RegInv, NEW t \in Thread, DeleteMask(t)
  PROVE  RegInv'
<1>1. /\ th[t].pc = "delete" /\ UNCHANGED <<open, held, stream, known, agent, cut>>
      /\ th' = [th EXCEPT ![t].pc = "progress", ![t].ret = th[t].ret]
  BY DEF DeleteMask, Is, Progress, net, history
<1> DEFINE r == [th[t] EXCEPT !.pc = "progress"]
<1>2. th' = [th EXCEPT ![t] = r]
  BY <1>1 DEF TypeInv, ThreadInv, ThreadRecord
<1>3. \A k : MasksHeld(k)' = MasksHeld(k)
  BY <1>1 DEF MasksHeld
<1> HIDE DEF r
<1> QED
  BY <1>1, <1>2, <1>3, OneThreadReg DEF Closing

LEMMA SubscribeReg ==
  ASSUME TypeInv, RegInv, NEW t \in App, NEW s \in Subscription, Subscribe(t, s)
  PROVE  RegInv'
<1> DEFINE r == [Running("progress") EXCEPT !.h = s.h, !.mask = s.mask, !.how = s.how, !.ret = "add"]
<1>1. /\ th[t].pc = "idle" /\ UNCHANGED <<open, held, stream, known, agent, cut>>
      /\ th' = [th EXCEPT ![t] = r] /\ t \in Thread
  BY Names DEF Subscribe, Calls, Is, net, history
<1>2. \A k : MasksHeld(k)' = MasksHeld(k)
  BY <1>1 DEF MasksHeld
<1> HIDE DEF r
<1> QED
  BY <1>1, <1>2, OneThreadReg DEF Closing

LEMMA UnsubscribeReg ==
  ASSUME TypeInv, RegInv, NEW s \in Subscription,
         \/ \E t \in App : Unsubscribe(t, s)
         \/ \E h \in Handle : UnsubscribeInCallback(h, s)
  PROVE  RegInv'
<1>1. /\ s \in held /\ held' = held \ {s} /\ agent' = Cancelled(s)
      /\ UNCHANGED <<open, stream, known, cut>>
  BY DEF Unsubscribe, UnsubscribeInCallback, net, history
<1>2. agent \in [Handle -> SUBSET Mask] /\ held \subseteq Subscription /\ open \subseteq Handle
  BY DEF TypeInv, NetOK, PastOK, CountInv
<1>3. ASSUME NEW h \in open, h \notin BothStyles, NEW m \in MasksHeld(h)'
      PROVE  m \in MasksHeld(h) /\ (m \in agent[h] => m \in agent'[h])
  <2>1. PICK v \in held : v # s /\ v.h = h /\ v.mask = m
    BY <1>1 DEF MasksHeld
  <2>2. h # s.h \/ m # s.mask
    BY <1>1, <1>2, <1>3, <2>1, OneWay
  <2>3. m \in agent[h] => m \in agent'[h]
    BY <1>1, <1>2, <1>3, <2>2 DEF Cancelled
  <2> QED
    BY <2>1, <2>3 DEF MasksHeld
<1>4. PICK t \in Thread : \E r : th' = [th EXCEPT ![t] = r] /\ th[t].pc \in {"idle", "calling"}
  <2>1. ASSUME NEW t \in App, Unsubscribe(t, s)
        PROVE  \E r : th' = [th EXCEPT ![t] = r] /\ th[t].pc = "idle" /\ t \in Thread
    BY <2>1, Names DEF Unsubscribe, Calls, Is
  <2>2. ASSUME NEW h \in Handle, UnsubscribeInCallback(h, s)
        PROVE  \E r : th' = [th EXCEPT ![h] = r] /\ th[h].pc = "calling" /\ h \in Thread
    <3>1. th[h].pc = "calling" /\ h \in Thread
          /\ th' = [th EXCEPT ![h].pc = "delete", ![h].h = h, ![h].mask = s.mask, ![h].ret = "calling"]
      BY <2>2, Names DEF UnsubscribeInCallback, Is
    <3>2. th' = [th EXCEPT ![h] = [th[h] EXCEPT !.pc = "delete", !.h = h, !.mask = s.mask, !.ret = "calling"]]
      BY <3>1 DEF TypeInv, ThreadInv, ThreadRecord
    <3> QED
      BY <3>1, <3>2
  <2> QED
    BY <2>1, <2>2
<1> QED
  BY <1>1, <1>3, <1>4, OneThreadReg DEF Closing

(* FTBC_Disconnect.                                                        *)
LEMMA DisconnectReg ==
  ASSUME TypeInv, RegInv, NEW t \in App, NEW h \in Handle, Disconnect(t, h)
  PROVE  RegInv'
<1> DEFINE r == [Running("finalize") EXCEPT !.h = h]
<1>1. /\ th[t].pc = "idle" /\ UNCHANGED <<open, stream, cut>>
      /\ th' = [th EXCEPT ![t] = r] /\ t \in Thread /\ th \in [Thread -> ThreadRecord]
      /\ held' = {s \in held : s.h # h}
  BY Names DEF Disconnect, Calls, Is, history, TypeInv, ThreadInv
<1>2. r.pc = "finalize" /\ r.h = h
  BY DEF Running, NoThread
<1> HIDE DEF r
<1>3. Closed(h)'
  BY <1>1, <1>2 DEF Closed, Closing
<1>4. agent \in [Handle -> SUBSET Mask] /\ open \subseteq Handle
  BY DEF TypeInv, NetOK, CountInv
<1>5. ASSUME NEW k \in open, k # h
      PROVE  (k \in known => k \in known') /\ agent'[k] = agent[k] /\ MasksHeld(k)' = MasksHeld(k)
  <2>1. MasksHeld(k)' = MasksHeld(k)
    BY <1>1, <1>5 DEF MasksHeld
  <2>2. k \in known => k \in known'
    BY <1>5 DEF Disconnect
  <2>3. agent'[k] = agent[k]
    BY <1>4, <1>5 DEF Disconnect
  <2> QED
    BY <2>1, <2>2, <2>3
<1> QED
  BY <1>1, <1>3, <1>5, OneThreadReg DEF Closing

LEMMA RemoveReg ==
  ASSUME TypeInv, RegInv, NEW t \in App, RemoveHandle(t)
  PROVE  RegInv'
<1>0. PICK h \in Handle : h = th[t].h
  BY AppThread DEF RemoveHandle, Is
<1>1. /\ th[t].pc = "remove" /\ UNCHANGED held /\ h \in open /\ open' = open \ {h}
      /\ th \in [Thread -> ThreadRecord] /\ t \in Thread /\ h \notin App /\ h # Rx /\ t # Rx /\ t # h
      /\ Rx \notin App
  BY <1>0, Names DEF RemoveHandle, Is, TypeInv, ThreadInv, AloneInv, Closing
<1>2. CASE num = 1
  <2>1. IsFiniteSet(Counted) /\ Cardinality(Counted) = 1 /\ h \in Counted
    BY <1>1, <1>2 DEF TypeInv, CountInv, Counted
  <2>2. PICK x : Counted = {x}
    BY <2>1, FS_Singleton
  <2>3. open' = {}
    BY <1>1, <2>1, <2>2 DEF Counted
  <2> QED
    BY <2>3 DEF RegInv
<1>3. CASE num # 1
  <2>1. UNCHANGED <<stream, known, agent>>
    BY <1>3 DEF RemoveHandle, net
  <2>2. \A u \in App : u # t => th'[u] = th[u]
    BY <1>0, <1>1, Names DEF RemoveHandle
  <2>3. Steady' => Steady
    <3>1. Up' => Up
      BY <2>1 DEF Up
    <3>2. ASSUME NEW u \in Thread, th[u].pc = "reconnect" PROVE cut' \/ th'[u].pc = "reconnect"
      <4>1. u # t /\ u # h
        BY <1>1, <3>2 DEF TypeInv, ThreadInv, WellFormed, CallbackRecord, CallbackPCs
      <4>2. CASE u = Rx /\ h \in Notified /\ enable = 1
        BY <1>0, <3>2, <4>2 DEF RemoveHandle
      <4>3. CASE ~ (u = Rx /\ h \in Notified /\ enable = 1)
        <5>1. th'[u] = th[u]
          BY <1>0, <1>1, <4>1, <4>3 DEF RemoveHandle
        <5> QED
          BY <3>2, <5>1
      <4> QED
        BY <4>2, <4>3
    <3>3. cut => cut'
      BY DEF RemoveHandle
    <3> QED
      BY <3>1, <3>2, <3>3 DEF Steady
  <2>4. \A u \in App : th[u].pc \in {"register", "subscribe"} => th'[u] = th[u]
    BY <1>1, <2>2
  <2>5. \A k \in open' : ~ Closed(k)' => k \in open /\ ~ Closed(k)
    BY <1>0, <1>1, <2>2, ClosedGrows
  <2>6. \A k : MasksHeld(k)' = MasksHeld(k)
    BY <1>1 DEF MasksHeld
  <2> QED
    BY <2>1, <2>3, <2>4, <2>5, <2>6, RegFrame
<1> QED
  BY <1>2, <1>3

-----------------------------------------------------------------------------
(* All steps, as far as the agent goes.                                    *)

LEMMA ProceedsReg ==
  ASSUME MapInv, MapInv', TypeInv, RegInv, NEW t \in App, Proceeds(t)
  PROVE  RegInv'
<1>0. t \in Thread
  BY Names
<1>1. CASE StartThreads(t) \/ Insert(t) \/ RemoveHandle(t)
  BY <1>1, StartReg, InsertReg, RemoveReg
<1>2. CASE Register(t) \/ AddMask(t) \/ SendMask(t) \/ DeleteMask(t) \/ Reconnect(t)
  BY <1>0, <1>2, RegisterReg, AddReg, SendReg, DeleteReg, ReconnectReg
<1>3. CASE Grab(t)
  <2>1. Read(t) /\ cut' = cut /\ th[t].pc = "grab" /\ Quiet(t)
    BY <1>3, LargeQuiet DEF Grab, Read, Is, history
  <2> QED
    BY <1>0, <2>1, ReadReg
<1>4. CASE \/ CheckProgress(t) \/ GrabNothing(t) \/ Scan(t) \/ Finalize(t)
           \/ PollNothing(t) \/ Join(t) \/ JoinedUnlock(t)
           \/ Lookup(t) \/ LockHandle(t) \/ Push(t)
  <2>1. Quiet(t)
    BY <1>4, SmallQuiet, LargeQuiet, ReceivesQuiet DEF Receives
  <2>2. /\ th[t].pc \notin {"register", "subscribe", "reconnect"}
        /\ UNCHANGED <<stream, known, agent, cut>>
    BY <1>4 DEF CheckProgress, GrabNothing, Scan, Finalize, PollNothing, Join, JoinedUnlock,
                UnlockAgain, Lookup, LockHandle, Push, Is, net, history
  <2>3. Up' => Up
    BY <2>2 DEF Up
  <2> QED
    BY <1>0, <2>1, <2>2, <2>3, RegQuiet
<1> QED
  BY <1>1, <1>2, <1>3, <1>4 DEF Proceeds, Receives

LEMMA CallbackReg ==
  ASSUME TypeInv, RegInv, NEW h \in Handle, CallbackStep(h)
  PROVE  RegInv'
<1>0. h \in Thread
  BY Names
<1>1. CASE DeleteMask(h)
  BY <1>0, <1>1, DeleteReg
<1>2. CASE \/ CallbackWaits(h) \/ CallbackWakes(h) \/ CallbackEnds(h) \/ Pick(h)
           \/ CallbackReturns(h) \/ FreeUnmatched(h) \/ CheckProgress(h)
  <2>1. /\ th[h].pc \notin {"register", "subscribe", "reconnect"}
        /\ UNCHANGED <<stream, known, agent, cut>>
    BY <1>2 DEF CallbackWaits, CallbackWakes, CallbackEnds, Pick, CallbackReturns, FreeUnmatched,
                CheckProgress, Awaits, Proceed, Is, net, history
  <2>2. Up' => Up
    BY <2>1 DEF Up
  <2> QED
    BY <1>0, <1>2, <2>1, <2>2, CallbackQuiet, RegQuiet
<1> QED
  BY <1>1, <1>2 DEF CallbackStep

(* The agent sends, or the connection is lost.                             *)
LEMMA AgentReg ==
  ASSUME TypeInv, RegInv,
         \/ \E h \in Handle, e \in Event : Arrive(h, e)
         \/ Lose
         \/ UNCHANGED vars
  PROVE  RegInv'
<1>1. /\ Quiet(Rx) /\ Rx \in Thread /\ UNCHANGED <<th, known, agent, cut>>
  BY AgentQuiet, Names DEF Arrive, Lose, vars, net, history
<1>2. stream \in Seq(Item)
  BY DEF TypeInv, NetOK
<1>3. Up' => Up
  <2>1. ASSUME NEW x, stream' = Append(stream, x), Up' PROVE Up
    <3>1. \A i \in DOMAIN stream : i \in DOMAIN stream' /\ stream'[i] = stream[i]
      BY <1>2, <2>1
    <3> QED
      BY <2>1, <3>1 DEF Up
  <2>2. CASE stream' = stream
    BY <2>2 DEF Up
  <2> QED
    BY <2>1, <2>2 DEF Arrive, Lose, vars, net
<1> QED
  BY <1>1, <1>3, RegQuiet

LEMMA NextReg ==
  ASSUME MapInv, MapInv', TypeInv, RegInv, [Next]_vars
  PROVE  RegInv'
<1>0. Notified \subseteq Handle
  BY DEF Handle
<1>1. ASSUME NEW t \in App, NEW h \in Handle, Connect(t, h) \/ Disconnect(t, h) PROVE RegInv'
  BY <1>1, ConnectReg, DisconnectReg
<1>2. ASSUME NEW t \in App, NEW s \in Subscription, Subscribe(t, s) \/ Unsubscribe(t, s) \/ Poll(t, s)
      PROVE  RegInv'
  BY <1>2, SubscribeReg, UnsubscribeReg, ConnectReg
<1>3. ASSUME NEW h \in Handle, NEW s \in Subscription, UnsubscribeInCallback(h, s) PROVE RegInv'
  BY <1>3, UnsubscribeReg
<1> QED
  BY <1>0, <1>1, <1>2, <1>3, ProceedsReg, RxReg, CallbackReg, AgentReg DEF Next

-----------------------------------------------------------------------------
(* At first.                                                               *)

LEMMA SequenceOf ==
  ASSUME NEW S, IsFiniteSet(S), NEW s, s = SetToSeq(S)
  PROVE  /\ Cardinality(S) \in Nat /\ DOMAIN s = 1..Cardinality(S)
         /\ \A i, j \in DOMAIN s : s[i] = s[j] => i = j
         /\ {s[i] : i \in DOMAIN s} = S
<1>1. Cardinality(S) \in Nat /\ ExistsBijection(1..Cardinality(S), S)
  BY FS_CardinalityType
<1>2. \E f \in [1..Cardinality(S) -> S] : IsInjective(f)
  BY <1>1 DEF ExistsBijection, Bijection, Injection, IsInjective
<1>3. s \in [1..Cardinality(S) -> S] /\ IsInjective(s)
  BY <1>2 DEF SetToSeq
<1>4. s \in Injection(1..Cardinality(S), S)
  BY <1>3 DEF Injection, IsInjective
<1>5. Cardinality(1..Cardinality(S)) = Cardinality(S)
  BY <1>1, FS_Interval
<1>6. s \in Surjection(1..Cardinality(S), S)
  BY <1>4, <1>5, FS_Injection
<1> QED
  BY <1>1, <1>3, <1>6 DEF Surjection, IsInjective

LEMMA BootKeys ==
  ASSUME Init, KeysTellApart, NEW h, NEW how, NEW map, map = BootMap(h, how)
  PROVE  /\ Apart(map)
         /\ Keys(map) = {s.mask : s \in {b \in scenario.boot : b.h = h /\ b.how = how}}
<1> DEFINE B == {b \in scenario.boot : b.h = h /\ b.how = how}
           f == [s \in B |-> s.mask]
<1>1. IsFiniteSet(B)
  BY BootType, FS_Subset
<1>2. {f[s] : s \in B} = {s.mask : s \in B}
  OBVIOUS
<1> HIDE DEF f, B
<1>3. IsFiniteSet({s.mask : s \in B})
  BY <1>1, <1>2, FiniteImage
<1>4. map = SetToSeq({s.mask : s \in B})
  BY DEF BootMap, B
<1>5. /\ \A i, j \in DOMAIN map : map[i] = map[j] => i = j
      /\ {map[i] : i \in DOMAIN map} = {s.mask : s \in B}
  BY <1>3, <1>4, SequenceOf
<1>6. map \in Seq(Mask)
  BY BootMapType
<1>7. Apart(map)
  BY <1>5, <1>6, ApartShape, KeysShape
<1> QED
  BY <1>5, <1>7 DEF Keys, B

LEMMA InitMaps ==
  ASSUME Init, KeysTellApart
  PROVE  MapInv
<1>1. \A t \in Thread : th[t].pc \in {"none", "idle", "receive", "start"}
  BY DEF Init, Idle, Running, NoThread
<1>2. \A t \in Thread : ~ Alters(t)
  <2>1. \A t \in App : th[t].pc = "idle"
    <3>1. \A t \in App : th[t] = Idle
      BY Names, BootType DEF Init
    <3> QED
      BY <3>1 DEF Idle, NoThread
  <2> QED
    BY <1>1, <2>1 DEF Alters, Adds, Deletes
<1>3. open = Booted /\ held = scenario.boot /\ \A h : Closed(h) <=> h \notin Booted
  BY <1>1, Names DEF Init, Closed, Closing
<1>4. \A b \in scenario.boot : b.how \in {"polling", "callback"}
  BY BootType DEF Subscription
<1>5. ASSUME NEW h \in Handle
      PROVE  MapsOf(h) = MasksHeld(h) /\ Apart(info[h].polling) /\ Apart(info[h].callbacks)
  <2>1. info[h].polling = BootMap(h, "polling") /\ info[h].callbacks = BootMap(h, "callback")
    BY DEF Init, FreshInfo
  <2>2. /\ Apart(info[h].polling) /\ Apart(info[h].callbacks)
        /\ Keys(info[h].polling) = {s.mask : s \in {b \in scenario.boot : b.h = h /\ b.how = "polling"}}
        /\ Keys(info[h].callbacks) = {s.mask : s \in {b \in scenario.boot : b.h = h /\ b.how = "callback"}}
    BY <2>1, BootKeys
  <2>3. MapsOf(h) = MasksHeld(h)
    BY <1>3, <1>4, <2>2 DEF MapsOf, MasksHeld
  <2> QED
    BY <2>2, <2>3
<1>6. \A h \in Handle \ open : MasksHeld(h) = {}
  BY <1>3 DEF MasksHeld, Booted
<1>7. \A h : Leaving(h) = {}
  BY <1>2 DEF Leaving, Alters
<1> QED
  BY <1>2, <1>3, <1>5, <1>6, <1>7 DEF MapInv, Alters

LEMMA InitReg ==
  ASSUME Init
  PROVE  RegInv
<1> SUFFICES ASSUME NEW h \in open PROVE Knows(h)
  BY DEF RegInv
<1>1. h \in Handle /\ h \in known /\ held = scenario.boot
      /\ agent = [k \in Handle |-> {s.mask : s \in {b \in scenario.boot : b.h = k}}]
  BY BootType DEF Init
<1> QED
  BY <1>1 DEF Knows, MasksHeld

-----------------------------------------------------------------------------
(* The invariant, and what it says at a quiet moment.                      *)

LEMMA SubsInvariance == Spec => [](KeysTellApart => SubsInv)
<1>1. Init => (KeysTellApart => SubsInv)
  BY InitMaps, InitReg DEF SubsInv
<1>2. TypeInv /\ (KeysTellApart => SubsInv) /\ [Next]_vars => (KeysTellApart => SubsInv)'
  <2>1. KeysTellApart' <=> KeysTellApart
    BY DEF KeysTellApart, FTBU_is_equal_event, FTBU_is_equal_event_mask, Agree
  <2>2. ASSUME TypeInv, MapInv, RegInv, [Next]_vars, KeysTellApart PROVE MapInv' /\ RegInv'
    BY <2>2, NextMaps, NextReg
  <2> QED
    BY <2>1, <2>2 DEF SubsInv
<1> QED
  BY <1>1, <1>2, Invariance, PTL DEF Spec

LEMMA Quietly ==
  ASSUME TypeInv, Busy = {}
  PROVE  /\ \A t \in Thread : ~ Alters(t) /\ th[t].pc # "reconnect"
         /\ \A h : (Closed(h) <=> h \notin open) /\ Leaving(h) = {} /\ ~ Registering(h)
         /\ \A h, m : ~ Sending(h, m)
<1>1. \A t \in Thread : th[t].pc \in {"none", "idle", "receive", "select", "ended", "start", "waiting", "woken"}
  BY DEF Busy
<1>2. \A t \in Thread : ~ Deletes(t) /\ th[t].pc # "reconnect"
  BY <1>1 DEF Deletes
<1>3. \A t \in App : th[t].pc = "idle"
  BY <1>1, Names DEF TypeInv, ThreadInv, WellFormed, AppRecord, AppPCs
<1>4. \A t \in Thread : ~ Alters(t)
  BY <1>2, <1>3 DEF Alters, Adds
<1>5. \A h : (Closed(h) <=> h \notin open) /\ ~ Registering(h)
  BY <1>3 DEF Closed, Closing, Registering
<1>6. \A h : Leaving(h) = {}
  BY <1>2 DEF Leaving
<1>7. \A h, m : ~ Sending(h, m)
  BY <1>3 DEF Sending
<1> QED
  BY <1>2, <1>4, <1>5, <1>6, <1>7

(* At a quiet moment, no call and no callback function being under way, the*)
(* maps of a handle (subscription_map, callback_map) hold exactly its      *)
(* subscriptions: whichever threads subscribed, unsubscribed, also from    *)
(* callback functions, and disconnected meanwhile, and in whichever order  *)
(* they came by the lock of the handle.                                    *)
THEOREM MapsAreTrue == Spec => []MapsHoldSubscriptions
<1>1. ASSUME TypeInv, KeysTellApart => SubsInv PROVE MapsHoldSubscriptions
  <2> SUFFICES ASSUME KeysTellApart, Busy = {}, NEW h \in open \ BothStyles
               PROVE  MapsOf(h) = MasksHeld(h)
    BY DEF MapsHoldSubscriptions
  <2>1. ~ Closed(h) /\ Leaving(h) = {}
    BY <1>1, Quietly
  <2>2. h \in Handle
    BY <1>1 DEF TypeInv, CountInv
  <2> QED
    BY <1>1, <2>1, <2>2 DEF SubsInv, MapInv
<1> QED
  BY <1>1, Invariance, SubsInvariance, PTL

(* And the agent knows of the handle and of every one of them, while the   *)
(* connection lasts: also of those whose message went nowhere when it was  *)
(* lost, for the thread that reads the end of it registers what the maps   *)
(* hold by then, and whoever subscribes later sends after it has added.    *)
THEOREM AgentKnows == Spec => []SubscribedIsRegistered
<1>1. ASSUME TypeInv, KeysTellApart => SubsInv PROVE SubscribedIsRegistered
  <2> SUFFICES ASSUME KeysTellApart, Busy = {}, Up, ~ cut, NEW h \in open
               PROVE  h \in known /\ (h \notin BothStyles => MasksHeld(h) \subseteq agent[h])
    BY DEF SubscribedIsRegistered
  <2>1. Steady /\ ~ Closed(h) /\ ~ Registering(h) /\ \A m : ~ Sending(h, m)
    BY <1>1, Quietly DEF Steady
  <2>2. Knows(h)
    BY <1>1, <2>1 DEF SubsInv, RegInv
  <2> QED
    BY <2>1, <2>2 DEF Knows
<1> QED
  BY <1>1, Invariance, SubsInvariance, PTL
=============================================================================
