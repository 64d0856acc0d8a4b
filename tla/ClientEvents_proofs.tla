------------------------ MODULE ClientEvents_proofs -------------------------
(***************************************************************************)
(* The events in a client process: while nothing undefined happened, each  *)
(* one that came from the agent is in one place.  The places are cells of  *)
(* a partition of the numbers of the events: a step moves numbers from     *)
(* cells to one other.  If a single thread makes calls, the events are     *)
(* handed out in the order in which they were sent.                        *)
(***************************************************************************)
EXTENDS ClientLib_proofs

-----------------------------------------------------------------------------
(* The numbers in a sequence of events, after the first ones: 0 is for the *)
(* end of the connection.                                                  *)

Numbers(s, from) == {s[i].n : i \in {j \in DOMAIN s : j > from}} \ {0}

NoneTwice(s, from) ==
  \A i, j \in DOMAIN s : i > from /\ j > from /\ s[i].n = s[j].n /\ s[i].n # 0 => i = j

LEMMA NumberIn ==
  ASSUME NEW S, NEW s \in Seq(S), NEW from \in 0..1
  PROVE  /\ \A k : k \in Numbers(s, from) <=>
              k # 0 /\ \E i \in 1..Len(s) : i > from /\ k = s[i].n
         /\ DOMAIN s = 1..Len(s) /\ Len(s) \in Nat
<1>1. DOMAIN s = 1..Len(s) /\ Len(s) \in Nat
  BY SeqShape
<1> QED
  BY <1>1 DEF Numbers

LEMMA NoNumbers ==
  ASSUME NEW from \in 0..1
  PROVE  Numbers(<<>>, from) = {} /\ NoneTwice(<<>>, from)
BY DEF Numbers, NoneTwice

LEMMA NumbersAppended ==
  ASSUME NEW S, NEW s \in Seq(S), NEW x \in S, NEW from \in 0..1, Len(s) >= from
  PROVE  /\ Numbers(Append(s, x), from) = Numbers(s, from) \cup ({x.n} \ {0})
         /\ NoneTwice(s, from) /\ x.n \notin Numbers(s, from) => NoneTwice(Append(s, x), from)
<1> DEFINE q == Append(s, x)
<1>1. /\ q \in Seq(S) /\ Len(q) = Len(s) + 1 /\ Len(s) \in Nat
      /\ \A i \in 1..Len(s) : q[i] = s[i]
      /\ q[Len(s) + 1] = x
  BY AppendShape, SeqShape
<1> HIDE DEF q
<1>2. /\ \A k : k \in Numbers(s, from) <=>
           k # 0 /\ \E i \in 1..Len(s) : i > from /\ k = s[i].n
      /\ \A k : k \in Numbers(q, from) <=>
           k # 0 /\ \E i \in 1..Len(q) : i > from /\ k = q[i].n
      /\ DOMAIN s = 1..Len(s) /\ DOMAIN q = 1..Len(q)
  BY <1>1, NumberIn
<1>3. \A i \in 1..Len(q) : i \in 1..Len(s) \/ i = Len(s) + 1
  BY <1>1
<1>4. 1..Len(s) \subseteq 1..Len(q) /\ Len(s) + 1 \in 1..Len(q) /\ Len(s) + 1 > from
  BY <1>1
<1>5. Numbers(q, from) = Numbers(s, from) \cup ({x.n} \ {0})
  <2>1. \A k \in Numbers(q, from) : k \in Numbers(s, from) \cup ({x.n} \ {0})
    BY <1>1, <1>2, <1>3
  <2>2. \A k \in Numbers(s, from) : k \in Numbers(q, from)
    BY <1>1, <1>2, <1>4
  <2>3. x.n # 0 => x.n \in Numbers(q, from)
    BY <1>1, <1>2, <1>4
  <2> QED
    BY <2>1, <2>2, <2>3
<1>6. ASSUME NoneTwice(s, from), x.n \notin Numbers(s, from) PROVE NoneTwice(q, from)
  <2> SUFFICES ASSUME NEW i \in 1..Len(q), NEW j \in 1..Len(q), i > from, j > from,
                      q[i].n = q[j].n, q[i].n # 0
               PROVE  i = j
    BY <1>2 DEF NoneTwice
  <2>1. CASE i \in 1..Len(s) /\ j \in 1..Len(s)
    BY <1>1, <1>2, <1>6, <2>1 DEF NoneTwice
  <2>2. CASE i \in 1..Len(s) /\ j = Len(s) + 1
    BY <1>1, <1>2, <1>6, <2>2
  <2>3. CASE j \in 1..Len(s) /\ i = Len(s) + 1
    BY <1>1, <1>2, <1>6, <2>3
  <2> QED
    BY <1>3, <2>1, <2>2, <2>3
<1> QED
  BY <1>5, <1>6 DEF q

LEMMA NumbersTail ==
  ASSUME NEW S, NEW s \in Seq(S), s # <<>>
  PROVE  /\ Numbers(Tail(s), 0) = Numbers(s, 1)
         /\ Numbers(s, 0) = Numbers(s, 1) \cup ({Head(s).n} \ {0})
         /\ NoneTwice(s, 0) => NoneTwice(s, 1) /\ Head(s).n \notin Numbers(s, 1)
         /\ NoneTwice(s, 1) => NoneTwice(Tail(s), 0)
<1> DEFINE q == Tail(s)
<1>1. /\ Len(s) \in Nat /\ Len(s) >= 1 /\ Head(s) = s[1]
      /\ q \in Seq(S) /\ Len(q) = Len(s) - 1
      /\ \A i \in 1..Len(s)-1 : q[i] = s[i+1]
  BY TailShape
<1> HIDE DEF q
<1>2. /\ \A k : k \in Numbers(s, 0) <=> k # 0 /\ \E i \in 1..Len(s) : i > 0 /\ k = s[i].n
      /\ \A k : k \in Numbers(s, 1) <=> k # 0 /\ \E i \in 1..Len(s) : i > 1 /\ k = s[i].n
      /\ \A k : k \in Numbers(q, 0) <=> k # 0 /\ \E i \in 1..Len(q) : i > 0 /\ k = q[i].n
      /\ DOMAIN s = 1..Len(s) /\ DOMAIN q = 1..Len(q)
  BY <1>1, NumberIn
<1>3. \A i \in 1..Len(q) : i + 1 \in 1..Len(s) /\ i + 1 > 1 /\ q[i] = s[i+1]
  BY <1>1
<1>4. \A i \in 1..Len(s) : i > 1 => i - 1 \in 1..Len(q) /\ i - 1 > 0 /\ q[i-1] = s[i]
  <2> SUFFICES ASSUME NEW i \in 1..Len(s), i > 1
               PROVE  i - 1 \in 1..Len(q) /\ i - 1 > 0 /\ q[i-1] = s[i]
    OBVIOUS
  <2>1. i - 1 \in 1..Len(s)-1 /\ (i - 1) + 1 = i
    BY <1>1
  <2> QED
    BY <1>1, <2>1
<1>5. Numbers(q, 0) = Numbers(s, 1)
  <2>1. \A k \in Numbers(q, 0) : k \in Numbers(s, 1)
    BY <1>2, <1>3
  <2>2. \A k \in Numbers(s, 1) : k \in Numbers(q, 0)
    BY <1>2, <1>4
  <2> QED
    BY <2>1, <2>2
<1>6. Numbers(s, 0) = Numbers(s, 1) \cup ({Head(s).n} \ {0})
  <2>1. 1 \in 1..Len(s)
    BY <1>1
  <2>2. \A i \in 1..Len(s) : i = 1 \/ i > 1
    BY <1>1
  <2> QED
    BY <1>1, <1>2, <2>1, <2>2
<1>7. ASSUME NoneTwice(s, 0) PROVE NoneTwice(s, 1) /\ Head(s).n \notin Numbers(s, 1)
  <2>1. NoneTwice(s, 1)
    BY <1>2, <1>7 DEF NoneTwice
  <2>2. 1 \in 1..Len(s)
    BY <1>1
  <2> QED
    BY <1>1, <1>2, <1>7, <2>1, <2>2 DEF NoneTwice
<1>8. ASSUME NoneTwice(s, 1) PROVE NoneTwice(q, 0)
  <2> SUFFICES ASSUME NEW i \in 1..Len(q), NEW j \in 1..Len(q), q[i].n = q[j].n, q[i].n # 0
               PROVE  i = j
    BY <1>2 DEF NoneTwice
  <2>1. s[i+1].n = s[j+1].n /\ s[i+1].n # 0
    BY <1>3
  <2>2. i + 1 = j + 1
    BY <1>2, <1>3, <1>8, <2>1 DEF NoneTwice
  <2> QED
    BY <1>1, <2>2
<1> QED
  BY <1>5, <1>6, <1>7, <1>8 DEF q

LEMMA NumbersRemoved ==
  ASSUME NEW S, NEW s \in Seq(S), NEW k \in 1..Len(s), NoneTwice(s, 0)
  PROVE  /\ Numbers(RemoveAt(s, k), 0) = Numbers(s, 0) \ {s[k].n}
         /\ s[k].n # 0 => s[k].n \in Numbers(s, 0)
         /\ NoneTwice(RemoveAt(s, k), 0)
<1> DEFINE q == RemoveAt(s, k)
<1>1. /\ q \in Seq(S) /\ Len(q) = Len(s) - 1 /\ Len(s) \in Nat
      /\ \A i \in 1..Len(s)-1 : q[i] = IF i < k THEN s[i] ELSE s[i + 1]
  BY RemoveShape, SeqShape
<1> HIDE DEF q
<1>2. /\ \A x : x \in Numbers(s, 0) <=> x # 0 /\ \E i \in 1..Len(s) : i > 0 /\ x = s[i].n
      /\ \A x : x \in Numbers(q, 0) <=> x # 0 /\ \E i \in 1..Len(q) : i > 0 /\ x = q[i].n
      /\ DOMAIN s = 1..Len(s) /\ DOMAIN q = 1..Len(q)
  BY <1>1, NumberIn
<1>3. \A i, j \in 1..Len(s) : s[i].n = s[j].n /\ s[i].n # 0 => i = j
  BY <1>2 DEF NoneTwice
<1> DEFINE At(i) == IF i < k THEN i ELSE i + 1
<1>4. \A i \in 1..Len(q) : At(i) \in 1..Len(s) /\ At(i) # k /\ At(i) > 0 /\ q[i] = s[At(i)]
  BY <1>1
<1>5. \A i \in 1..Len(q) : \A j \in 1..Len(q) : At(i) = At(j) => i = j
  BY <1>1
<1>6. \A i \in 1..Len(s) : i # k => \E j \in 1..Len(q) : j > 0 /\ At(j) = i
  <2> SUFFICES ASSUME NEW i \in 1..Len(s), i # k
               PROVE  \E j \in 1..Len(q) : j > 0 /\ At(j) = i
    OBVIOUS
  <2>1. CASE i < k
    <3>1. i \in 1..Len(q) /\ i > 0 /\ At(i) = i
      BY <1>1, <2>1
    <3> QED
      BY <3>1
  <2>2. CASE i > k
    <3>1. i - 1 \in 1..Len(q) /\ i - 1 > 0 /\ At(i - 1) = i
      BY <1>1, <2>2
    <3> QED
      BY <3>1
  <2> QED
    BY <2>1, <2>2
<1> HIDE DEF At
<1>7. Numbers(q, 0) = Numbers(s, 0) \ {s[k].n}
  <2>1. \A x \in Numbers(q, 0) : x \in Numbers(s, 0) /\ x # s[k].n
    BY <1>2, <1>3, <1>4
  <2>2. \A x \in Numbers(s, 0) : x # s[k].n => x \in Numbers(q, 0)
    <3> SUFFICES ASSUME NEW x \in Numbers(s, 0), x # s[k].n PROVE x \in Numbers(q, 0)
      OBVIOUS
    <3>1. PICK i \in 1..Len(s) : x = s[i].n /\ x # 0
      BY <1>2
    <3>2. PICK j \in 1..Len(q) : j > 0 /\ At(j) = i
      BY <1>6, <3>1
    <3>3. x = q[j].n
      BY <1>4, <3>1, <3>2
    <3> QED
      BY <1>2, <3>1, <3>2, <3>3
  <2> QED
    BY <2>1, <2>2
<1>8. s[k].n # 0 => s[k].n \in Numbers(s, 0)
  <2>1. k > 0
    BY <1>1
  <2> QED
    BY <1>2, <2>1
<1>9. NoneTwice(q, 0)
  <2> SUFFICES ASSUME NEW i \in 1..Len(q), NEW j \in 1..Len(q), q[i].n = q[j].n, q[i].n # 0
               PROVE  i = j
    BY <1>2 DEF NoneTwice
  <2>1. At(i) = At(j)
    BY <1>3, <1>4
  <2> QED
    BY <1>5, <2>1
<1> QED
  BY <1>7, <1>8, <1>9 DEF q

-----------------------------------------------------------------------------
(* Cells.                                                                  *)

Stream == <<"stream", NoOne>>
Gone == <<"gone", NoOne>>
Hand(t) == <<"hand", t>>
Queue(h) == <<"queue", h>>
Pending(h) == <<"pending", h>>
Out(h) == <<"out", h>>

Cell == {Stream, Gone} \cup {Hand(t) : t \in Thread} \cup {Queue(h) : h \in Handle}
          \cup {Pending(h) : h \in Handle} \cup {Out(h) : h \in Handle}

Held ==
  [c \in Cell |->
     CASE c[1] = "stream"  -> Numbers(stream, 0)
       [] c[1] = "gone"    -> gone \ {0}
       [] c[1] = "hand"    -> {th[c[2]].item.n} \ {0}
       [] c[1] = "queue"   -> Numbers(info[c[2]].queue, 0)
       [] c[1] = "pending" -> Numbers(info[c[2]].pending, CalledWith(c[2]))
       [] c[1] = "out"     -> Numbers(out[c[2]], 0)]

LEMMA HeldAt ==
  /\ Held[Stream] = Numbers(stream, 0) /\ Held[Gone] = gone \ {0}
  /\ \A t \in Thread : Held[Hand(t)] = {th[t].item.n} \ {0}
  /\ \A h \in Handle :
       /\ Held[Queue(h)] = Numbers(info[h].queue, 0)
       /\ Held[Pending(h)] = Numbers(info[h].pending, CalledWith(h))
       /\ Held[Out(h)] = Numbers(out[h], 0)
BY DEF Held, Cell, Stream, Gone, Hand, Queue, Pending, Out

LEMMA HeldAtNext ==
  /\ Held'[Stream] = Numbers(stream', 0) /\ Held'[Gone] = gone' \ {0}
  /\ \A t \in Thread : Held'[Hand(t)] = {th'[t].item.n} \ {0}
  /\ \A h \in Handle :
       /\ Held'[Queue(h)] = Numbers(info'[h].queue, 0)
       /\ Held'[Pending(h)] = Numbers(info'[h].pending, CalledWith(h)')
       /\ Held'[Out(h)] = Numbers(out'[h], 0)
BY DEF Held, Cell, Stream, Gone, Hand, Queue, Pending, Out

LEMMA Cells ==
  /\ Stream \in Cell /\ Gone \in Cell
  /\ \A t \in Thread : Hand(t) \in Cell
  /\ \A h \in Handle : Queue(h) \in Cell /\ Pending(h) \in Cell /\ Out(h) \in Cell
  /\ \A c \in Cell : \/ c = Stream \/ c = Gone \/ \E t \in Thread : c = Hand(t)
                     \/ \E h \in Handle : c = Queue(h) \/ c = Pending(h) \/ c = Out(h)
BY DEF Cell

LEMMA CellsDiffer ==
  /\ Stream # Gone
  /\ \A t, u : Stream # Hand(t) /\ Gone # Hand(t) /\ (Hand(t) = Hand(u) => t = u)
  /\ \A h, k : /\ Stream # Queue(h) /\ Stream # Pending(h) /\ Stream # Out(h)
               /\ Gone # Queue(h) /\ Gone # Pending(h) /\ Gone # Out(h)
               /\ Hand(k) # Queue(h) /\ Hand(k) # Pending(h) /\ Hand(k) # Out(h)
               /\ Queue(k) # Pending(h) /\ Queue(k) # Out(h) /\ Pending(k) # Out(h)
               /\ (Queue(k) = Queue(h) => k = h) /\ (Pending(k) = Pending(h) => k = h)
               /\ (Out(k) = Out(h) => k = h)
BY DEF Stream, Gone, Hand, Queue, Pending, Out

(* The numbers up to n are parted among the cells.                         *)
Parted(f, n) ==
  /\ \A c \in Cell : f[c] \subseteq 1..n
  /\ \A k \in 1..n : \E c \in Cell : k \in f[c]
  /\ \A c, d \in Cell : \A k \in 1..n : k \in f[c] /\ k \in f[d] => c = d

(* Numbers go to one cell.                                                 *)
LEMMA Transfer ==
  ASSUME NEW f, NEW g, NEW n, Parted(f, n), NEW to \in Cell,
         \A c \in Cell : c # to => g[c] \subseteq f[c],
         \A k : k \in g[to] <=> k \in f[to] \/ \E c \in Cell : c # to /\ k \in f[c] /\ k \notin g[c]
  PROVE  Parted(g, n)
<1>1. \A c \in Cell : g[c] \subseteq 1..n
  BY DEF Parted
<1>2. \A k \in 1..n : \E c \in Cell : k \in g[c]
  BY DEF Parted
<1>3. ASSUME NEW c \in Cell, NEW d \in Cell, NEW k \in 1..n, k \in g[c], k \in g[d]
      PROVE  c = d
  BY <1>3 DEF Parted
<1> QED
  BY <1>1, <1>2, <1>3 DEF Parted

(* From one cell to another.                                               *)
Moved(f, g, from, to, X) ==
  /\ from \in Cell /\ to \in Cell /\ from # to
  /\ \A c \in Cell : c # to /\ c # from => g[c] = f[c]
  /\ X \subseteq f[from] /\ g[from] = f[from] \ X /\ g[to] = f[to] \cup X

LEMMA TransferFrom ==
  ASSUME NEW f, NEW g, NEW n, Parted(f, n), NEW from, NEW to, NEW X, Moved(f, g, from, to, X)
  PROVE  Parted(g, n)
<1>1. \A c \in Cell : c # to => g[c] \subseteq f[c]
  BY DEF Moved
<1>2. ASSUME NEW k
      PROVE  k \in g[to] <=> k \in f[to] \/ \E c \in Cell : c # to /\ k \in f[c] /\ k \notin g[c]
  BY DEF Moved
<1>3. to \in Cell
  BY DEF Moved
<1> QED
  BY <1>1, <1>2, <1>3, Transfer

(* One more number.                                                        *)
LEMMA OneMore ==
  ASSUME NEW f, NEW g, NEW n \in Nat, Parted(f, n), NEW to \in Cell,
         \A c \in Cell : c # to => g[c] = f[c],
         g[to] = f[to] \cup {n + 1}
  PROVE  Parted(g, n + 1)
<1>1. 1..n+1 = (1..n) \cup {n + 1} /\ n + 1 \notin 1..n
  OBVIOUS
<1>2. \A c \in Cell : g[c] \subseteq 1..n+1
  BY <1>1 DEF Parted
<1>3. \A k \in 1..n+1 : \E c \in Cell : k \in g[c]
  BY <1>1 DEF Parted
<1>4. ASSUME NEW c \in Cell, NEW d \in Cell, NEW k \in 1..n+1, k \in g[c], k \in g[d]
      PROVE  c = d
  <2>1. CASE k = n + 1
    BY <1>1, <1>4, <2>1 DEF Parted
  <2>2. CASE k \in 1..n
    BY <1>1, <1>4, <2>2 DEF Parted
  <2> QED
    BY <1>1, <2>1, <2>2
<1> QED
  BY <1>2, <1>3, <1>4 DEF Parted

(* A cell changes only if what it stands for does.                         *)
LEMMA HeldChanges ==
  /\ stream' = stream => Held'[Stream] = Held[Stream]
  /\ gone' = gone => Held'[Gone] = Held[Gone]
  /\ \A t \in Thread : th'[t].item = th[t].item => Held'[Hand(t)] = Held[Hand(t)]
  /\ \A h \in Handle :
       /\ info'[h].queue = info[h].queue => Held'[Queue(h)] = Held[Queue(h)]
       /\ info'[h].pending = info[h].pending /\ CalledWith(h)' = CalledWith(h)
            => Held'[Pending(h)] = Held[Pending(h)]
       /\ out'[h] = out[h] => Held'[Out(h)] = Held[Out(h)]
BY HeldAt, HeldAtNext

LEMMA HeldStays ==
  ASSUME stream' = stream, gone' = gone, \A t \in Thread : th'[t].item = th[t].item,
         \A h \in Handle : /\ info'[h].queue = info[h].queue
                           /\ info'[h].pending = info[h].pending /\ CalledWith(h)' = CalledWith(h)
                           /\ out'[h] = out[h],
         NEW n, Parted(Held, n)
  PROVE  Parted(Held', n)
<1>1. \A c \in Cell : Held'[c] = Held[c]
  BY HeldChanges, Cells
<1> QED
  BY <1>1 DEF Parted

-----------------------------------------------------------------------------
(* What goes with it.  Only handles that are open are pointed to, or have  *)
(* anything in their queues; a queue that was freed stays empty; a handle  *)
(* is removed when its thread has ended; the end of the connection is the  *)
(* last that is read from it, and there is none without handles.           *)

HandleInv ==
  /\ \A h \in Handle \ open : info[h].queue = <<>> /\ info[h].pending = <<>>
  /\ \A t \in Thread : th[t].pc \in {"deliver", "push"} => th[t].item.to \in open
  /\ \A h \in Handle : info[h].stage # "live" => info[h].queue = <<>>
  /\ \A t \in App : th[t].pc \in {"join", "closed", "remove"} => info[th[t].h].stage # "live"
  /\ \A t \in App : th[t].pc \in {"closed", "remove"} /\ th[t].h \in Notified
                      => th[th[t].h].pc = "ended"
  /\ num = 0 => stream = <<>>
  /\ \A i \in DOMAIN stream : stream[i] = EOF => i = Len(stream)

PlaceInv ==
  /\ Parted(Held, arrivals)
  /\ NoneTwice(stream, 0)
  /\ \A h \in Handle : /\ NoneTwice(info[h].queue, 0) /\ NoneTwice(out[h], 0)
                       /\ NoneTwice(info[h].pending, CalledWith(h))

EventInv == undefined = "no" => HandleInv /\ PlaceInv

-----------------------------------------------------------------------------
(* What a step does to the sequences of events.                            *)

(* The queues of a handle that stay as they are.                           *)
Same(h) == info'[h].queue = info[h].queue /\ info'[h].pending = info[h].pending
SameHands == \A t \in Thread : th'[t].item = th[t].item
OtherHands(t) == \A u \in Thread \ {t} : th'[u].item = th[u].item

(* No event goes anywhere, but some may be dropped.                        *)
Quiet ==
  /\ stream' = stream \/ stream' = <<>>
  /\ \A t \in Thread : th'[t].item = th[t].item \/ th'[t].item = EOF
  /\ \A h \in Handle :
       /\ out'[h] = out[h]
       /\ info'[h].queue = info[h].queue \/ info'[h].queue = <<>>
       /\ \/ info'[h].pending = <<>>
          \/ info'[h].pending = info[h].pending /\ CalledWith(h)' = CalledWith(h)

(* One is read,                                                            *)
Takes(t) ==
  /\ stream # <<>> /\ Head(stream) # EOF /\ stream' = Tail(stream)
  /\ th'[t].item = Head(stream) /\ th[t].item = EOF /\ OtherHands(t)
  /\ \A h \in Handle : Same(h) /\ out'[h] = out[h] /\ CalledWith(h)' = CalledWith(h)

(* put into a queue,                                                       *)
Puts(t) ==
  LET item == th[t].item
      k == item.to IN
  /\ item \in Item \ {EOF} /\ k \in Handle /\ th'[t].item = EOF /\ OtherHands(t)
  /\ stream' = stream
  /\ \A h \in Handle : out'[h] = out[h] /\ CalledWith(h)' = CalledWith(h) /\ (h # k => Same(h))
  /\ \/ info'[k].pending = Append(info[k].pending, item) /\ info'[k].queue = info[k].queue
     \/ /\ info'[k].queue = Queued(WithRoom(info[k].queue), item)
        /\ info'[k].pending = info[k].pending

(* polled,                                                                 *)
HandsOut(k, mask) ==
  LET queue == info[k].queue
      m == Min(Fitting(queue, mask)) IN
  /\ stream' = stream /\ SameHands
  /\ \A h \in Handle : /\ info'[h].pending = info[h].pending /\ CalledWith(h)' = CalledWith(h)
                       /\ h # k => Same(h) /\ out'[h] = out[h]
  /\ Fitting(queue, mask) # {} /\ info'[k].queue = RemoveAt(queue, m)
  /\ out'[k] = Append(out[k], [how |-> "polling", mask |-> mask, n |-> queue[m].n])

(* given to a callback function, which returns,                            *)
CallsBack(h) ==
  /\ stream' = stream /\ SameHands
  /\ \A k \in Handle : /\ Same(k)
                       /\ k # h => out'[k] = out[k] /\ CalledWith(k)' = CalledWith(k)
  /\ info[h].pending # <<>> /\ CalledWith(h) = 0 /\ CalledWith(h)' = 1
  /\ out'[h] = Append(out[h], [how |-> "callback", mask |-> NoOne, n |-> Head(info[h].pending).n])

Returned(h) ==
  /\ stream' = stream /\ SameHands
  /\ \A k \in Handle :
       /\ out'[k] = out[k] /\ info'[k].queue = info[k].queue
       /\ k # h => info'[k].pending = info[k].pending /\ CalledWith(k)' = CalledWith(k)
  /\ info[h].pending # <<>> /\ CalledWith(h) = 1 /\ CalledWith(h)' = 0
  /\ info'[h].pending = Tail(info[h].pending)

(* or sent.                                                                *)
Sent ==
  /\ \E x \in Item : stream' = Append(stream, x) /\ (x = EOF \/ x.n = arrivals + 1)
  /\ SameHands
  /\ \A h \in Handle : Same(h) /\ out'[h] = out[h] /\ CalledWith(h)' = CalledWith(h)

Effect ==
  \/ Quiet \/ Sent
  \/ \E t \in Thread : Takes(t) \/ Puts(t)
  \/ \E h \in Handle : CallsBack(h) \/ Returned(h) \/ \E mask : HandsOut(h, mask)

-----------------------------------------------------------------------------
(* What a step of a thread leaves as it is.                                *)

LEMMA LeftAlone ==
  ASSUME TypeInv, NEW t \in Thread, Leaves(t)
  PROVE  /\ \A u \in Thread \ {t} :
              /\ th'[u].item = th[u].item /\ th'[u].h = th[u].h
              /\ th'[u].pc = th[u].pc \/ (th[u].pc = "waiting" /\ th'[u].pc = "woken")
         /\ \A h \in Handle \ {t} : CalledWith(h)' = CalledWith(h)
<1>1. \A u \in Thread \ {t} :
        /\ th'[u].item = th[u].item /\ th'[u].h = th[u].h
        /\ th'[u].pc = th[u].pc \/ (th[u].pc = "waiting" /\ th'[u].pc = "woken")
  BY Woken DEF Leaves, TypeInv
<1>2. \A h \in Handle \ {t} : CalledWith(h)' = CalledWith(h)
  BY <1>1, Names DEF CalledWith
<1> QED
  BY <1>1, <1>2

LEMMA Goings ==
  ASSUME TypeInv, NEW t \in Thread
  PROVE  /\ \A pc : Goes(t, pc) =>
              /\ th'[t].pc = pc /\ th'[t].item = th[t].item /\ th'[t].h = th[t].h
              /\ Leaves(t)
         /\ \A ret : Progress(t, ret) =>
              /\ th'[t].pc = "progress" /\ th'[t].item = th[t].item
<1>1. th \in [Thread -> ThreadRecord]
  BY DEF TypeInv, ThreadInv
<1> QED
  BY <1>1 DEF Goes, Progress, ThreadRecord, Leaves

LEMMA PlacesStay ==
  ASSUME TypeInv, PlaceInv, NEW t \in Thread, Leaves(t), th'[t].item = th[t].item,
         t \in Handle => CalledWith(t)' = CalledWith(t),
         UNCHANGED <<stream, gone, out, arrivals>>, \A h \in Handle : Same(h)
  PROVE  PlaceInv' /\ Quiet
<1>1. \A u \in Thread : th'[u].item = th[u].item
  BY LeftAlone
<1>2. \A h \in Handle : CalledWith(h)' = CalledWith(h)
  BY LeftAlone
<1>3. Parted(Held', arrivals)
  BY <1>1, <1>2, HeldStays DEF PlaceInv, Same
<1>4. Parted(Held, arrivals)'
  BY <1>3 DEF Parted, Cell
<1>5. PlaceInv'
  BY <1>2, <1>4 DEF PlaceInv, Same
<1>6. Quiet
  BY <1>1, <1>2 DEF Quiet, Same
<1> QED
  BY <1>5, <1>6

(* Handles: what the step of a thread has to see to.                       *)
Carriage(t) == th'[t].pc \in {"deliver", "push"} => th'[t].item.to \in open
Stages ==
  /\ \A h \in Handle : info'[h].stage # "live" => info'[h].queue = <<>>
  /\ \A h \in Handle : info[h].stage # "live" => info'[h].stage # "live"
Removal(t) ==
  /\ th'[t].pc \in {"join", "closed", "remove"} => info'[th'[t].h].stage # "live"
  /\ th'[t].pc \in {"closed", "remove"} /\ th'[t].h \in Notified => th[th'[t].h].pc = "ended"
Ending(s) == \A i \in DOMAIN s : s[i] = EOF => i = Len(s)

LEMMA HandlesStay ==
  ASSUME TypeInv, HandleInv, NEW t \in Thread, Leaves(t), UNCHANGED <<open, num>>,
         \A h \in Handle \ open : Same(h), Carriage(t), Stages, t \in App => Removal(t),
         t \in Handle => th[t].pc # "ended",
         num = 0 => stream' = <<>>, Ending(stream')
  PROVE  HandleInv'
<1>1. \A u \in Thread \ {t} :
        /\ th'[u].item = th[u].item /\ th'[u].h = th[u].h
        /\ th'[u].pc = th[u].pc \/ (th[u].pc = "waiting" /\ th'[u].pc = "woken")
  BY LeftAlone
<1>2. \A h \in Handle : th[h].pc = "ended" => th'[h].pc = "ended"
  BY <1>1, Names
<1>3. \A u \in App \ {t} : u \in Thread
  BY Names
<1>4. Notified \subseteq Handle
  BY DEF Handle
<1>5. \A h \in Handle \ open' : info'[h].queue = <<>> /\ info'[h].pending = <<>>
  BY DEF HandleInv, Same
<1>6. \A u \in Thread : th'[u].pc \in {"deliver", "push"} => th'[u].item.to \in open'
  BY <1>1 DEF HandleInv, Carriage
<1>7. ASSUME NEW u \in App, th'[u].pc \in {"join", "closed", "remove"}
      PROVE  info'[th'[u].h].stage # "live"
  <2>1. CASE u = t
    BY <1>7, <2>1 DEF Removal
  <2>2. CASE u # t
    <3>1. th[u].pc \in {"join", "closed", "remove"} /\ th'[u].h = th[u].h
      BY <1>1, <1>3, <1>7, <2>2
    <3>2. th[u].h \in Handle
      BY <3>1, AppThread
    <3> QED
      BY <3>1, <3>2 DEF HandleInv, Stages
  <2> QED
    BY <2>1, <2>2
<1>8. ASSUME NEW u \in App, th'[u].pc \in {"closed", "remove"}, th'[u].h \in Notified
      PROVE  th'[th'[u].h].pc = "ended"
  <2>1. CASE u = t
    BY <1>2, <1>4, <1>8, <2>1 DEF Removal
  <2>2. CASE u # t
    <3>1. th[u].pc \in {"closed", "remove"} /\ th'[u].h = th[u].h
      BY <1>1, <1>3, <1>8, <2>2
    <3> QED
      BY <1>2, <1>4, <1>8, <3>1 DEF HandleInv
  <2> QED
    BY <2>1, <2>2
<1> QED
  BY <1>5, <1>6, <1>7, <1>8 DEF HandleInv, Stages, Ending, EOF

-----------------------------------------------------------------------------
(* Steps that move no event.                                               *)

NotStage(f, g, k, v, w) ==
  \/ g = f
  \/ g = [f EXCEPT ![k].lock = v]
  \/ g = [f EXCEPT ![k].polling = v]
  \/ g = [f EXCEPT ![k].callbacks = v]
  \/ g = [f EXCEPT ![k].polling = v, ![k].callbacks = w]

LEMMA StageKept ==
  ASSUME NEW f \in [Handle -> InfoRecord], NEW h \in Handle, NEW k, NEW v, NEW w, NEW g,
         NotStage(f, g, k, v, w)
  PROVE  g[h].stage = f[h].stage
<1>1. f[h] \in InfoRecord
  OBVIOUS
<1>2. CASE g = f
  BY <1>2
<1>3. CASE g = [f EXCEPT ![k].lock = v]
  BY <1>1, <1>3 DEF InfoRecord
<1>4. CASE g = [f EXCEPT ![k].polling = v]
  BY <1>1, <1>4 DEF InfoRecord
<1>5. CASE g = [f EXCEPT ![k].callbacks = v]
  BY <1>1, <1>5 DEF InfoRecord
<1>6. CASE g = [f EXCEPT ![k].polling = v, ![k].callbacks = w]
  BY <1>1, <1>6 DEF InfoRecord
<1> QED
  BY <1>2, <1>3, <1>4, <1>5, <1>6 DEF NotStage

LEMMA StagesKept ==
  ASSUME TypeInv, NEW t, NEW h \in Handle,
         AddMask(t) \/ DeleteMask(t) \/ LockHandle(t) \/ PollNothing(t) \/ JoinedUnlock(t)
  PROVE  info'[h].stage = info[h].stage
<1>0. info \in [Handle -> InfoRecord]
  BY DEF TypeInv, InfoOK
<1>1. \E k, v, w : NotStage(info, info', k, v, w)
  <2>1. CASE AddMask(t)
    <3>1. \/ NotStage(info, info', th[t].h, Inserted(info[th[t].h].polling, th[t].mask), 0)
          \/ NotStage(info, info', th[t].h, Inserted(info[th[t].h].callbacks, th[t].mask), 0)
      BY <2>1 DEF AddMask, NotStage
    <3> QED
      BY <3>1
  <2>2. CASE DeleteMask(t)
    <3>1. NotStage(info, info', th[t].h, Removed(info[th[t].h].polling, th[t].mask),
                   Removed(info[th[t].h].callbacks, th[t].mask))
      BY <2>2 DEF DeleteMask, NotStage
    <3> QED
      BY <3>1
  <2>3. CASE LockHandle(t)
    <3>1. NotStage(info, info', th[t].item.to, t, 0)
      BY <2>3 DEF LockHandle, NotStage
    <3> QED
      BY <3>1
  <2>4. CASE PollNothing(t) \/ JoinedUnlock(t)
    <3>1. NotStage(info, info', th[t].h, NoOne, 0)
      BY <2>4 DEF PollNothing, JoinedUnlock, UnlockAgain, NotStage
    <3> QED
      BY <3>1
  <2> QED
    BY <2>1, <2>2, <2>3, <2>4
<1> QED
  BY <1>0, <1>1, StageKept

(* A thread that does not carry an event has none in its hands.            *)
LEMMA EmptyHands ==
  ASSUME TypeInv, NEW t \in Thread, ~ Carries(th[t])
  PROVE  th[t].item = EOF
BY DEF TypeInv, ThreadInv, WellFormed

(* Steps that only send a thread on.                                       *)
Plain(t) ==
  \/ t \in App /\ (\/ Register(t) \/ AddMask(t) \/ SendMask(t) \/ DeleteMask(t) \/ CheckProgress(t)
                   \/ GrabNothing(t) \/ PollNothing(t))
  \/ t \in App \cup {Rx} /\ Reconnect(t)
  \/ t = Rx /\ LockRecv

LEMMA PlainThreads ==
  ASSUME TypeInv, NEW t \in App \cup {Rx}, Plain(t), undefined' = "no"
  PROVE  /\ Leaves(t) /\ th'[t].item = th[t].item
         /\ th'[t].pc \notin {"deliver", "push", "join", "closed", "remove"}
<1>0. t \in Thread /\ th \in [Thread -> ThreadRecord]
  BY Names DEF TypeInv, ThreadInv
<1>1. Leaves(t)
  BY AppLeaves DEF Plain, Receives
<1>2. CASE Register(t) \/ DeleteMask(t)
  <2>1. th'[t].pc = "progress" /\ th'[t].item = th[t].item
    BY <1>0, <1>2, Goings DEF Register, DeleteMask
  <2> QED
    BY <1>1, <2>1
<1>3. CASE t \in App /\ (SendMask(t) \/ PollNothing(t))
  <2>1. th'[t] = Idle /\ th[t].pc \in {"subscribe", "polled"}
    BY <1>0, <1>3 DEF SendMask, PollNothing, Is
  <2>2. th[t].item = EOF
    BY <1>0, <2>1, EmptyHands DEF Carries
  <2>3. Idle.item = EOF /\ Idle.pc = "idle"
    BY DEF Idle, NoThread
  <2> QED
    BY <1>1, <2>1, <2>2, <2>3
<1>4. CASE AddMask(t) \/ (t = Rx /\ LockRecv)
  <2>1. \E pc \in {"subscribe", "select"} : Goes(t, pc)
    BY <1>4 DEF AddMask, LockRecv
  <2>2. th'[t].pc \in {"subscribe", "select"} /\ th'[t].item = th[t].item
    BY <1>0, <2>1, Goings
  <2> QED
    BY <1>1, <2>2
<1>5. ASSUME t \in App, Resumes(t), th[t].pc \in {"progress", "grab", "reconnect"}
      PROVE  /\ th'[t].item = th[t].item
             /\ th'[t].pc \notin {"deliver", "push", "join", "closed", "remove"}
  <2>1. th' = [th EXCEPT ![t] = Resumed(th[t])]
    BY <1>5 DEF Resumes, Resumed
  <2>2. th'[t] = Resumed(th[t])
    BY <1>0, <2>1
  <2>3. WellFormed(t, Resumed(th[t])) /\ Resumed(th[t]).pc \in {"idle", "add", "look"}
    BY <1>5, AppThread, AppResumes DEF Carries
  <2>4. Resumed(th[t]).item = EOF
    BY <2>3 DEF WellFormed, Carries
  <2>5. th[t].item = EOF
    BY <1>0, <1>5, EmptyHands DEF Carries
  <2> QED
    BY <2>2, <2>3, <2>4, <2>5
<1>6. CASE t \in App /\ (CheckProgress(t) \/ GrabNothing(t))
  <2>1. (Resumes(t) \/ Goes(t, "grab")) /\ th[t].pc \in {"progress", "grab"}
    BY <1>6 DEF CheckProgress, GrabNothing, Is
  <2>2. CASE Goes(t, "grab")
    BY <1>0, <1>1, <2>2, Goings
  <2> QED
    BY <1>1, <1>5, <1>6, <2>1, <2>2
<1>7. CASE Reconnect(t)
  <2>1. th[t].pc = "reconnect" /\ (\/ t = Rx /\ Goes(t, "ended")
                                   \/ t # Rx /\ Resumes(t))
    BY <1>7 DEF Reconnect, Undefined, Is
  <2>2. CASE t = Rx /\ Goes(t, "ended")
    BY <1>0, <1>1, <2>2, Goings
  <2> QED
    BY <1>1, <1>5, <2>1, <2>2
<1> QED
  BY <1>2, <1>3, <1>4, <1>6, <1>7 DEF Plain

LEMMA PlainStep ==
  ASSUME TypeInv, HandleInv, PlaceInv, NEW t \in App \cup {Rx}, Plain(t), undefined' = "no"
  PROVE  HandleInv' /\ PlaceInv' /\ Quiet
<1>0. t \in Thread /\ t \notin Handle /\ info \in [Handle -> InfoRecord]
  BY Names DEF TypeInv, InfoOK
<1>1. /\ Leaves(t) /\ th'[t].item = th[t].item
      /\ th'[t].pc \notin {"deliver", "push", "join", "closed", "remove"}
  BY PlainThreads
<1>2. UNCHANGED <<open, num, stream, gone, out, arrivals>>
  <2>1. CASE Register(t) \/ AddMask(t) \/ SendMask(t) \/ DeleteMask(t) \/ CheckProgress(t)
             \/ GrabNothing(t)
    BY <2>1 DEF Register, AddMask, SendMask, DeleteMask, CheckProgress, GrabNothing,
                counts, net, history, Within, bounds
  <2>2. CASE PollNothing(t) \/ Reconnect(t) \/ LockRecv
    BY <2>2 DEF PollNothing, UnlockAgain, Reconnect, LockRecv, counts, net, history, Within, bounds
  <2> QED
    BY <2>1, <2>2 DEF Plain
<1>3. ASSUME NEW h \in Handle PROVE Same(h) /\ info'[h].stage = info[h].stage
  <2>1. CASE AddMask(t) \/ DeleteMask(t) \/ PollNothing(t)
    <3>1. OtherFields(info, info')
      BY <2>1, OtherInfo
    <3> QED
      BY <1>0, <2>1, <3>1, FieldsKept, StagesKept DEF Same
  <2>2. CASE UNCHANGED info
    BY <2>2 DEF Same
  <2> QED
    BY <2>1, <2>2
    DEF Plain, Register, SendMask, CheckProgress, GrabNothing, Reconnect, LockRecv
<1>4. Stages /\ Carriage(t) /\ Removal(t)
  BY <1>1, <1>3 DEF Stages, Carriage, Removal, HandleInv, Same
<1>5. (num = 0 => stream' = <<>>) /\ Ending(stream')
  BY <1>2 DEF HandleInv, Ending
<1>6. HandleInv'
  BY <1>0, <1>1, <1>2, <1>3, <1>4, <1>5, HandlesStay
<1>7. PlaceInv' /\ Quiet
  BY <1>0, <1>1, <1>2, <1>3, PlacesStay
<1> QED
  BY <1>6, <1>7

LEMMA LockHandleStep ==
  ASSUME TypeInv, HandleInv, PlaceInv, NEW t \in App \cup {Rx}, LockHandle(t)
  PROVE  HandleInv' /\ PlaceInv' /\ Quiet
<1>0. t \in Thread /\ t \notin Handle /\ info \in [Handle -> InfoRecord]
  BY Names DEF TypeInv, InfoOK
<1>1. /\ Leaves(t) /\ th[t].pc = "deliver" /\ Goes(t, "push")
      /\ UNCHANGED <<open, num, stream, gone, out, arrivals>>
  BY AppLeaves DEF LockHandle, Is, Receives, counts, net, history, Within, bounds
<1>2. th'[t].pc = "push" /\ th'[t].item = th[t].item
  BY <1>0, <1>1, Goings
<1>3. \A h \in Handle : Same(h) /\ info'[h].stage = info[h].stage
  BY <1>0, FieldsKept, OtherInfo, StagesKept DEF Same
<1>4. Stages /\ Carriage(t) /\ Removal(t)
  BY <1>0, <1>1, <1>2, <1>3 DEF Stages, Carriage, Removal, HandleInv, Same
<1>5. (num = 0 => stream' = <<>>) /\ Ending(stream')
  BY <1>1 DEF HandleInv, Ending
<1>6. HandleInv'
  BY <1>0, <1>1, <1>3, <1>4, <1>5, HandlesStay
<1>7. PlaceInv' /\ Quiet
  BY <1>0, <1>1, <1>2, <1>3, PlacesStay
<1> QED
  BY <1>6, <1>7

(* Join frees the maps of a handle, whose queue was freed before.          *)
LEMMA JoinStep ==
  ASSUME TypeInv, HandleInv, PlaceInv, NEW t \in App, Join(t) \/ JoinedUnlock(t)
  PROVE  HandleInv' /\ PlaceInv' /\ Quiet
<1> DEFINE h == th[t].h
<1>0. t \in Thread /\ t \notin Handle /\ info \in [Handle -> InfoRecord]
  BY Names DEF TypeInv, InfoOK
<1>1. /\ Leaves(t)
      /\ UNCHANGED <<open, num, stream, gone, out, arrivals>>
      /\ \/ th[t].pc = "join" /\ Goes(t, "closed") /\ th[h].pc = "ended"
         \/ th[t].pc = "closed" /\ Goes(t, "remove")
  BY AppLeaves DEF Join, JoinedUnlock, UnlockAgain, Is, counts, net, history, Within, bounds
<1>2. /\ th'[t].pc \in {"closed", "remove"} /\ th'[t].item = th[t].item /\ th'[t].h = h
      /\ h \in Handle /\ (h \in Notified => th[h].pc = "ended") /\ info[h].stage # "live"
  <2>1. h \in Handle
    BY <1>1, AppThread
  <2> QED
    BY <1>0, <1>1, <2>1, Goings DEF HandleInv
<1>3. \A k \in Handle : Same(k)
  BY <1>0, FieldsKept, OtherInfo DEF Same
<1>4. \A k \in Handle : info'[k].stage = info[k].stage \/ (k = h /\ info'[k].stage = "gone")
  <2>1. CASE Join(t)
    <3>1. info' = [info EXCEPT ![h].stage = "gone"]
      BY <2>1 DEF Join
    <3>2. \A k \in Handle : info[k] \in InfoRecord
      BY <1>0
    <3> HIDE DEF h
    <3> QED
      BY <1>0, <3>1, <3>2 DEF InfoRecord
  <2>2. CASE JoinedUnlock(t)
    BY <2>2, StagesKept
  <2> QED
    BY <2>1, <2>2
<1> HIDE DEF h
<1>5. Stages
  BY <1>2, <1>3, <1>4 DEF Stages, HandleInv, Same
<1>6. Carriage(t) /\ Removal(t)
  BY <1>2, <1>5 DEF Carriage, Removal, Stages
<1>7. (num = 0 => stream' = <<>>) /\ Ending(stream')
  BY <1>1 DEF HandleInv, Ending
<1>8. HandleInv'
  BY <1>0, <1>1, <1>3, <1>5, <1>6, <1>7, HandlesStay
<1>9. PlaceInv' /\ Quiet
  BY <1>0, <1>1, <1>2, <1>3, PlacesStay
<1> QED
  BY <1>8, <1>9

(* A call begins.                                                          *)
LEMMA CallStep ==
  ASSUME TypeInv, HandleInv, PlaceInv, NEW t \in App,
         \/ \E h \in Handle : Connect(t, h) \/ Disconnect(t, h)
         \/ \E s \in Subscription : Subscribe(t, s) \/ Unsubscribe(t, s) \/ Poll(t, s)
  PROVE  HandleInv' /\ PlaceInv' /\ Quiet
<1>0. t \in Thread /\ t \notin Handle
  BY Names
<1>1. /\ Leaves(t) /\ th'[t].item = th[t].item
      /\ th'[t].pc \notin {"deliver", "push", "join", "closed", "remove"}
      /\ UNCHANGED <<info, out, gone, open, arrivals>>
  BY CallLeaves
<1>2. stream' = stream /\ (num' = 0 => num = 0)
  <2>1. CASE \E h \in Handle : Connect(t, h)
    <3>1. num' = num + 1 /\ num \in Nat /\ (stream' = stream \/ (num = 0 /\ stream' = <<>>))
      <4>1. IsFiniteSet(Counted) /\ num = Cardinality(Counted)
        BY DEF TypeInv, CountInv
      <4> QED
        BY <2>1, <4>1, FS_CardinalityType DEF Connect, net
    <3> QED
      BY <3>1 DEF HandleInv
  <2>2. CASE \E h \in Handle : Disconnect(t, h)
    BY <2>2 DEF Disconnect, counts
  <2>3. CASE \E s \in Subscription : Subscribe(t, s) \/ Unsubscribe(t, s) \/ Poll(t, s)
    BY <2>3 DEF Subscribe, Unsubscribe, Poll, counts, net
  <2> QED
    BY <2>1, <2>2, <2>3
<1>3. \A h \in Handle : Same(h) /\ info'[h].stage = info[h].stage
  BY <1>1 DEF Same
<1>4. PlaceInv' /\ Quiet
  BY <1>0, <1>1, <1>2, <1>3, PlacesStay
<1>5. \A u \in Thread \ {t} :
        /\ th'[u].item = th[u].item /\ th'[u].h = th[u].h
        /\ th'[u].pc = th[u].pc \/ (th[u].pc = "waiting" /\ th'[u].pc = "woken")
  BY <1>0, <1>1, LeftAlone
<1>6. HandleInv'
  <2>1. \A h \in Handle : th[h].pc = "ended" => th'[h].pc = "ended"
    BY <1>0, <1>5, Names
  <2>2. \A u \in App : u \in Thread
    BY Names
  <2>3. Notified \subseteq Handle
    BY DEF Handle
  <2>4. \A u \in Thread : th'[u].pc \in {"deliver", "push"} => th'[u].item.to \in open
    BY <1>1, <1>5 DEF HandleInv
  <2>5. \A u \in App : th'[u].pc \in {"join", "closed", "remove"} => info[th'[u].h].stage # "live"
    BY <1>1, <1>5, <2>2 DEF HandleInv
  <2>6. \A u \in App : th'[u].pc \in {"closed", "remove"} /\ th'[u].h \in Notified
                         => th'[th'[u].h].pc = "ended"
    BY <1>1, <1>5, <2>1, <2>2, <2>3 DEF HandleInv
  <2> QED
    BY <1>1, <1>2, <2>4, <2>5, <2>6 DEF HandleInv, EOF
<1> QED
  BY <1>4, <1>6

(* A handle is there.                                                      *)
LEMMA InsertStep ==
  ASSUME TypeInv, HandleInv, PlaceInv, NEW t \in App, Insert(t)
  PROVE  HandleInv' /\ PlaceInv' /\ Quiet
<1>0. t \in Thread /\ t \notin Handle
  BY Names
<1>1. /\ Leaves(t) /\ Goes(t, "register")
      /\ UNCHANGED <<info, num, stream, out, gone, arrivals>>
      /\ open \subseteq open'
  BY AppLeaves DEF Insert, counts, net, history, Within, bounds
<1>2. th'[t].item = th[t].item /\ th'[t].pc = "register"
  BY <1>0, <1>1, Goings
<1>3. \A h \in Handle : Same(h)
  BY <1>1 DEF Same
<1>4. PlaceInv' /\ Quiet
  BY <1>0, <1>1, <1>2, <1>3, PlacesStay
<1>5. \A u \in Thread \ {t} :
        /\ th'[u].item = th[u].item /\ th'[u].h = th[u].h
        /\ th'[u].pc = th[u].pc \/ (th[u].pc = "waiting" /\ th'[u].pc = "woken")
  BY <1>0, <1>1, LeftAlone
<1>6. HandleInv'
  <2>1. \A h \in Handle : th[h].pc = "ended" => th'[h].pc = "ended"
    BY <1>0, <1>5, Names
  <2>2. \A u \in App : u \in Thread
    BY Names
  <2>3. Notified \subseteq Handle
    BY DEF Handle
  <2>4. \A u \in Thread : th'[u].pc \in {"deliver", "push"} => th'[u].item.to \in open'
    BY <1>1, <1>2, <1>5 DEF HandleInv
  <2>5. \A u \in App : th'[u].pc \in {"join", "closed", "remove"} => info[th'[u].h].stage # "live"
    BY <1>2, <1>5, <2>2 DEF HandleInv
  <2>6. \A u \in App : th'[u].pc \in {"closed", "remove"} /\ th'[u].h \in Notified
                         => th'[th'[u].h].pc = "ended"
    BY <1>2, <1>5, <2>1, <2>2, <2>3 DEF HandleInv
  <2> QED
    BY <1>1, <2>4, <2>5, <2>6 DEF HandleInv, EOF
<1> QED
  BY <1>4, <1>6

(* A handle gets its threads.                                              *)
LEMMA StartStep ==
  ASSUME TypeInv, HandleInv, PlaceInv, NEW t \in App, StartThreads(t)
  PROVE  HandleInv' /\ PlaceInv' /\ Quiet
<1> DEFINE h == th[t].h
<1>0. /\ t \in Thread /\ t \notin Handle /\ info \in [Handle -> InfoRecord]
      /\ th \in [Thread -> ThreadRecord]
  BY Names DEF TypeInv, InfoOK, ThreadInv
<1>1. /\ th[t].pc = "threads" /\ info' = [info EXCEPT ![h] = FreshInfo]
      /\ UNCHANGED <<open, num, stream, out, gone, arrivals>>
  BY DEF StartThreads, Is, net, history, Within, bounds
<1>2. h \in Handle /\ h \notin open /\ \A u \in App \ {t} : th[u].h # h
  BY <1>1, AppThread DEF TypeInv, AloneInv, Opening, Exclusive
<1>3. th[h] = NoThread
  <2>1. h \notin Served
    BY <1>1, <1>2 DEF Served, OfThreads
  <2> QED
    BY <1>2, <2>1 DEF TypeInv, CountInv
<1>4. enable = 0 => th[Rx] = NoThread
  <2>1. IsFiniteSet(Served \cap Notified)
    <3>1. Served \subseteq Counted
      BY DEF Served, Counted, OfThreads
    <3> QED
      BY <3>1, FS_Subset DEF TypeInv, CountInv
  <2> QED
    BY <2>1, FS_EmptySet DEF TypeInv, CountInv
<1>5. /\ th'[t] = [th[t] EXCEPT !.pc = "insert"]
      /\ \A u \in Thread \ {t} :
           \/ th'[u] = th[u]
           \/ u = h /\ th'[u] = Running("start")
           \/ u = Rx /\ enable = 0 /\ th'[u] = Running("receive")
  BY <1>0, <1>2, Names DEF StartThreads, Goes
<1>6. NoThread.pc = "none" /\ NoThread.item = EOF
      /\ \A pc : Running(pc).pc = pc /\ Running(pc).item = EOF
  BY DEF NoThread, Running
<1>7. th'[t].pc = "insert" /\ th'[t].item = th[t].item
  BY <1>0, <1>5 DEF ThreadRecord
<1> HIDE DEF h
<1>8. \A u \in Thread \ {t} :
        \/ th'[u] = th[u]
        \/ /\ th[u].pc = "none" /\ th'[u].pc \in {"start", "receive"} /\ u \notin App
           /\ th[u].item = EOF /\ th'[u].item = EOF
  BY <1>2, <1>3, <1>4, <1>5, <1>6, Names
<1>9. \A k \in Handle : info'[k] = IF k = h THEN FreshInfo ELSE info[k]
  BY <1>0, <1>1
<1>10. FreshInfo.queue = <<>> /\ FreshInfo.pending = <<>> /\ FreshInfo.stage = "live"
  BY DEF FreshInfo
<1>11. \A k \in Handle : Same(k)
  BY <1>2, <1>9, <1>10 DEF Same, HandleInv
<1>12. PlaceInv' /\ Quiet
  <2>1. \A u \in Thread : th'[u].item = th[u].item
    BY <1>7, <1>8
  <2>2. \A k \in Handle : CalledWith(k)' = CalledWith(k)
    BY <1>0, <1>8, Names DEF CalledWith
  <2>3. Parted(Held', arrivals)
    BY <1>1, <1>11, <2>1, <2>2, HeldStays DEF PlaceInv, Same
  <2>4. Parted(Held, arrivals)'
    BY <1>1, <2>3 DEF Parted, Cell
  <2> QED
    BY <1>1, <1>11, <2>1, <2>2, <2>4 DEF PlaceInv, Same, Quiet
<1>13. HandleInv'
  <2>1. \A u \in App : u \in Thread /\ (u # t => th'[u] = th[u])
    BY <1>8, Names
  <2>2. \A k \in Handle : th[k].pc = "ended" => th'[k].pc = "ended"
    BY <1>0, <1>8, Names
  <2>3. Notified \subseteq Handle
    BY DEF Handle
  <2>4. \A u \in Thread : th'[u].pc \in {"deliver", "push"} => th'[u].item.to \in open
    BY <1>7, <1>8 DEF HandleInv
  <2>5. \A k \in Handle : info'[k].stage # "live" => info'[k].queue = <<>>
    BY <1>9, <1>10 DEF HandleInv
  <2>6. \A u \in App : th'[u].pc \in {"join", "closed", "remove"} => info'[th'[u].h].stage # "live"
    <3> SUFFICES ASSUME NEW u \in App, th'[u].pc \in {"join", "closed", "remove"}
                 PROVE  info'[th'[u].h].stage # "live"
      OBVIOUS
    <3>1. u # t /\ th'[u] = th[u]
      BY <1>7, <2>1
    <3>2. th[u].h \in Handle /\ th[u].h # h
      BY <1>2, <3>1, AppThread
    <3> QED
      BY <1>9, <3>1, <3>2 DEF HandleInv
  <2>7. \A u \in App : th'[u].pc \in {"closed", "remove"} /\ th'[u].h \in Notified
                         => th'[th'[u].h].pc = "ended"
    BY <1>7, <2>1, <2>2, <2>3 DEF HandleInv
  <2> QED
    BY <1>1, <1>11, <2>4, <2>5, <2>6, <2>7 DEF HandleInv, Same, EOF
<1> QED
  BY <1>12, <1>13

(* The thread of a handle: what it does but to call callback functions.    *)
CallbackPlain(h) ==
  \/ CallbackWaits(h) \/ CallbackWakes(h) \/ CallbackEnds(h)
  \/ DeleteMask(h) \/ CheckProgress(h)
  \/ \E s \in Subscription : UnsubscribeInCallback(h, s)

LEMMA CallbackPlainStep ==
  ASSUME TypeInv, HandleInv, PlaceInv, NEW h \in Handle, CallbackPlain(h)
  PROVE  HandleInv' /\ PlaceInv' /\ Quiet
<1>0. h \in Thread /\ h \notin App /\ info \in [Handle -> InfoRecord] /\ th \in [Thread -> ThreadRecord]
  BY Names DEF TypeInv, InfoOK, ThreadInv
<1>1. UNCHANGED <<open, num, stream, gone, out, arrivals>>
  <2>1. CASE CallbackWaits(h) \/ CallbackWakes(h) \/ CallbackEnds(h)
    BY <2>1 DEF CallbackWaits, CallbackWakes, CallbackEnds, Proceed, counts, net, history, Within, bounds
  <2>2. CASE DeleteMask(h) \/ CheckProgress(h) \/ \E s \in Subscription : UnsubscribeInCallback(h, s)
    BY <2>2 DEF DeleteMask, CheckProgress, UnsubscribeInCallback, counts, net, history, Within, bounds
  <2> QED
    BY <2>1, <2>2 DEF CallbackPlain
<1>2. /\ Leaves(h) /\ th'[h].item = EOF /\ ~ Carries(th[h])
      /\ th[h].pc # "ended" /\ th'[h].pc \notin {"deliver", "push"}
      /\ CalledWith(h)' = CalledWith(h)
  <2>1. ASSUME NEW pc, Goes(h, pc), th[h].pc \in {"start", "woken"}, pc \in {"waiting", "pick", "ended"}
        PROVE  <1>2!:
    <3>1. ~ Carries(th[h])
      BY <2>1 DEF Carries
    <3>2. Leaves(h) /\ th'[h].item = th[h].item /\ th'[h].pc = pc
      BY <1>0, <2>1, Goings
    <3>3. th[h].item = EOF
      BY <1>0, <3>1, EmptyHands
    <3>4. CalledWith(h)' = CalledWith(h)
      BY <2>1, <3>2 DEF CalledWith
    <3> QED
      BY <2>1, <3>1, <3>2, <3>3, <3>4
  <2>2. CASE CallbackWaits(h) \/ CallbackWakes(h) \/ CallbackEnds(h)
    <3>1. th[h].pc \in {"start", "woken"} /\ (Goes(h, "ended") \/ Goes(h, "waiting") \/ Goes(h, "pick"))
      BY <2>2 DEF CallbackWaits, CallbackWakes, CallbackEnds, Proceed, Awaits, Is
    <3> QED
      BY <2>1, <3>1
  <2>3. CASE DeleteMask(h)
    <3>1. th[h].pc = "delete" /\ Progress(h, th[h].ret)
      BY <2>3 DEF DeleteMask, Is
    <3>2. ~ Carries(th[h])
      BY <3>1 DEF Carries
    <3>3. Leaves(h) /\ th'[h].pc = "progress" /\ th'[h].item = EOF
      BY <1>0, <3>1, <3>2, Goings, EmptyHands DEF Leaves, Progress
    <3> QED
      BY <3>1, <3>2, <3>3 DEF CalledWith
  <2>4. CASE CheckProgress(h)
    <3>1. th[h].pc = "progress" /\ th' = [th EXCEPT ![h] = Running("calling")]
      BY <2>4, CallbackProgressed DEF CheckProgress, Is
    <3>2. Leaves(h) /\ th'[h].pc = "calling" /\ th'[h].item = EOF
      BY <1>0, <3>1 DEF Leaves, Running, NoThread
    <3> QED
      BY <3>1, <3>2 DEF CalledWith, Carries
  <2>5. CASE \E s \in Subscription : UnsubscribeInCallback(h, s)
    <3>1. PICK s \in Subscription : th[h].pc = "calling" /\ th' =
            [th EXCEPT ![h].pc = "delete", ![h].h = h, ![h].mask = s.mask, ![h].ret = "calling"]
      BY <2>5 DEF UnsubscribeInCallback, Is
    <3>2. ~ Carries(th[h])
      BY <3>1 DEF Carries
    <3>3. th[h].item = EOF /\ th[h] \in ThreadRecord
      BY <1>0, <3>2, EmptyHands
    <3>4. Leaves(h) /\ th'[h].pc = "delete" /\ th'[h].item = EOF
      BY <1>0, <3>1, <3>3 DEF Leaves, ThreadRecord
    <3> QED
      BY <3>1, <3>2, <3>4 DEF CalledWith
  <2> QED
    BY <2>2, <2>3, <2>4, <2>5 DEF CallbackPlain
<1>3. th'[h].item = th[h].item
  BY <1>0, <1>2, EmptyHands
<1>4. ASSUME NEW k \in Handle PROVE Same(k) /\ info'[k].stage = info[k].stage
  <2>1. CASE DeleteMask(h)
    BY <1>0, <2>1, OtherInfo, FieldsKept, StagesKept DEF Same
  <2>2. CASE UNCHANGED info
    BY <2>2 DEF Same
  <2> QED
    BY <2>1, <2>2
    DEF CallbackPlain, CallbackWaits, CallbackWakes, CallbackEnds, Proceed, CheckProgress,
        UnsubscribeInCallback
<1>5. Stages /\ Carriage(h)
  BY <1>2, <1>4 DEF Stages, Carriage, HandleInv, Same
<1>6. (num = 0 => stream' = <<>>) /\ Ending(stream')
  BY <1>1 DEF HandleInv, Ending
<1>7. HandleInv'
  BY <1>0, <1>1, <1>2, <1>4, <1>5, <1>6, HandlesStay
<1>8. PlaceInv' /\ Quiet
  BY <1>0, <1>1, <1>2, <1>3, <1>4, PlacesStay
<1> QED
  BY <1>7, <1>8

-----------------------------------------------------------------------------
(* Steps that move one.                                                    *)

LEMMA Apart ==
  ASSUME NEW f, NEW n, Parted(f, n), NEW c \in Cell, NEW d \in Cell, c # d, NEW k, k \in f[c]
  PROVE  k \notin f[d]
BY DEF Parted

LEMMA EventTypes ==
  ASSUME TypeInv
  PROVE  /\ stream \in Seq(Item) /\ out \in [Handle -> Seq(Handed)]
         /\ \A h \in Handle : /\ info[h].queue \in Seq(Item \ {EOF})
                              /\ info[h].pending \in Seq(Item \ {EOF})
                              /\ out[h] \in Seq(Handed)
                              /\ CalledWith(h) \in 0..1 /\ Len(info[h].pending) >= CalledWith(h)
                              /\ CalledWith(h) = 1 => info[h].pending # <<>>
         /\ EOF.n = 0 /\ 0 \notin Ordinal /\ \A x \in Item \ {EOF} : x.n # 0
<1>1. stream \in Seq(Item) /\ out \in [Handle -> Seq(Handed)]
  BY PastType DEF TypeInv, NetOK
<1>2. ASSUME NEW h \in Handle
      PROVE  /\ info[h].queue \in Seq(Item \ {EOF})
             /\ info[h].pending \in Seq(Item \ {EOF})
             /\ CalledWith(h) \in 0..1 /\ Len(info[h].pending) >= CalledWith(h)
             /\ CalledWith(h) = 1 => info[h].pending # <<>>
  <2>1. info[h].queue \in Seq(Item \ {EOF}) /\ info[h].pending \in Seq(Item \ {EOF})
    BY <1>2, HandleRecord DEF TypeInv
  <2>2. Len(info[h].pending) \in Nat /\ (info[h].pending = <<>> <=> Len(info[h].pending) = 0)
    BY <2>1, SeqShape
  <2>3. CalledWith(h) = 1 => info[h].pending # <<>>
    BY <1>2 DEF TypeInv, HeadInv, NeedsEvent, CalledWith
  <2>4. CalledWith(h) \in 0..1
    BY DEF CalledWith
  <2> QED
    BY <2>1, <2>2, <2>3, <2>4
<1>3. EOF.n = 0 /\ 0 \notin Ordinal /\ \A x \in Item \ {EOF} : x.n # 0
  <2>1. scenario.events \in Nat
    BY PastType DEF TypeInv
  <2> QED
    BY <2>1, ItemType DEF EOF, Ordinal
<1> QED
  BY <1>1, <1>2, <1>3

(* From the connection to the hands of a thread.                           *)
LEMMA ReadStep ==
  ASSUME TypeInv, HandleInv, PlaceInv, NEW t \in App \cup {Rx}, Grab(t) \/ (t = Rx /\ Receive)
  PROVE  HandleInv' /\ PlaceInv' /\ (Quiet \/ Takes(t))
<1>0. t \in Thread /\ t \notin Handle /\ th \in [Thread -> ThreadRecord]
  BY Names DEF TypeInv, ThreadInv
<1>1. /\ Leaves(t) /\ Read(t) /\ th[t].pc \in {"grab", "select"} /\ stream # <<>>
      /\ UNCHANGED <<open, num, info, gone, out, arrivals>>
  BY AppLeaves DEF Grab, Receive, Read, Is, counts, history, Within, bounds
<1>2. th[t].item = EOF
  <2>1. ~ Carries(th[t])
    BY <1>1 DEF Carries
  <2> QED
    BY <1>0, <2>1, EmptyHands
<1>3. \A h \in Handle : Same(h) /\ info'[h].stage = info[h].stage
  BY <1>1 DEF Same
<1>4. /\ \A u \in Thread \ {t} : th'[u].item = th[u].item
      /\ \A h \in Handle : CalledWith(h)' = CalledWith(h)
  BY <1>0, <1>1, LeftAlone
<1>5. stream \in Seq(Item) /\ Ending(stream) /\ NoneTwice(stream, 0)
  BY EventTypes DEF HandleInv, Ending, PlaceInv
<1>6. /\ Len(stream) \in Nat /\ Len(stream) >= 1 /\ DOMAIN stream = 1..Len(stream)
      /\ Head(stream) = stream[1] /\ Head(stream) \in Item
      /\ Tail(stream) \in Seq(Item) /\ Len(Tail(stream)) = Len(stream) - 1
      /\ \A i \in 1..Len(stream)-1 : Tail(stream)[i] = stream[i+1]
      /\ DOMAIN Tail(stream) = 1..Len(Tail(stream))
  BY <1>1, <1>5, TailShape, SeqShape
<1>7. CASE Head(stream) = EOF
  <2>1. stream' = <<>> /\ Goes(t, "reconnect")
    BY <1>1, <1>7 DEF Read
  <2>2. th'[t].pc = "reconnect" /\ th'[t].item = EOF
    BY <1>0, <1>2, <2>1, Goings
  <2>3. Len(stream) = 1
    BY <1>5, <1>6, <1>7 DEF Ending
  <2>4. Numbers(stream, 0) = {} /\ Numbers(<<>>, 0) = {} /\ NoneTwice(<<>>, 0)
    BY <1>5, <1>6, <1>7, <2>3, NumberIn, NoNumbers, EventTypes
  <2>5. \A c \in Cell : Held'[c] = Held[c]
    <3>1. Held'[Stream] = Held[Stream]
      BY <2>1, <2>4, HeldAt, HeldAtNext
    <3>2. \A u \in Thread : th'[u].item = th[u].item
      BY <1>2, <1>4, <2>2
    <3> QED
      BY <1>1, <1>3, <1>4, <3>1, <3>2, HeldChanges, Cells DEF Same
  <2>6. Parted(Held, arrivals)'
    BY <1>1, <2>5 DEF PlaceInv, Parted, Cell
  <2>7. PlaceInv' /\ Quiet
    BY <1>1, <1>2, <1>3, <1>4, <2>1, <2>2, <2>4, <2>6 DEF PlaceInv, Quiet, Same
  <2>8. Carriage(t) /\ Stages /\ Removal(t) /\ Ending(stream')
    BY <1>3, <2>1, <2>2 DEF Carriage, Stages, Removal, Ending, HandleInv, Same
  <2>9. HandleInv'
    BY <1>0, <1>1, <1>3, <2>1, <2>8, HandlesStay
  <2> QED
    BY <2>7, <2>9
<1>8. CASE Head(stream) # EOF
  <2> DEFINE n == Head(stream).n
  <2>1. /\ stream' = Tail(stream)
        /\ th' = [th EXCEPT ![t].pc = "lookup", ![t].item = Head(stream)]
    BY <1>1, <1>8 DEF Read
  <2>2. th'[t].pc = "lookup" /\ th'[t].item = Head(stream) /\ n # 0
    BY <1>0, <1>6, <1>8, <2>1, EventTypes DEF ThreadRecord
  <2>3. /\ Numbers(stream', 0) = Numbers(stream, 1)
        /\ Numbers(stream, 0) = Numbers(stream, 1) \cup {n} /\ n \notin Numbers(stream, 1)
        /\ NoneTwice(stream', 0)
    BY <1>1, <1>5, <2>1, <2>2, NumbersTail
  <2> HIDE DEF n
  <2>4. Held[Hand(t)] = {} /\ Held'[Hand(t)] = {n}
    BY <1>0, <1>2, <2>2, HeldAt, HeldAtNext, EventTypes DEF n
  <2>5. Held'[Stream] = Held[Stream] \ {n} /\ {n} \subseteq Held[Stream]
    BY <2>3, HeldAt, HeldAtNext
  <2>6. \A c \in Cell : c # Hand(t) /\ c # Stream => Held'[c] = Held[c]
    BY <1>1, <1>3, <1>4, HeldChanges, Cells DEF Same
  <2>7. Parted(Held', arrivals)
    <3>1. Hand(t) \in Cell /\ Stream \in Cell /\ Stream # Hand(t)
      BY <1>0, Cells, CellsDiffer
    <3>2. Held'[Hand(t)] = Held[Hand(t)] \cup {n}
      BY <2>4
    <3>3. Moved(Held, Held', Stream, Hand(t), {n})
      BY <2>5, <2>6, <3>1, <3>2 DEF Moved
    <3> QED
      BY <3>3, TransferFrom DEF PlaceInv
  <2>8. Parted(Held, arrivals)'
    BY <1>1, <2>7 DEF Parted, Cell
  <2>9. PlaceInv' /\ Takes(t)
    BY <1>1, <1>2, <1>3, <1>4, <1>8, <2>1, <2>2, <2>3, <2>8 DEF PlaceInv, Takes, OtherHands
  <2>10. Ending(stream')
    BY <1>5, <1>6, <2>1 DEF Ending
  <2>11. Carriage(t) /\ Stages /\ Removal(t) /\ num # 0
    BY <1>1, <1>3, <2>2 DEF Carriage, Stages, Removal, HandleInv, Same
  <2>12. HandleInv'
    BY <1>0, <1>1, <1>3, <2>10, <2>11, HandlesStay
  <2> QED
    BY <2>9, <2>12
<1> QED
  BY <1>7, <1>8

(* From the hands of a thread to where it puts it.                         *)
LEMMA OutOfHands ==
  ASSUME TypeInv, NEW t \in App \cup {Rx}, Leaves(t), Carries(th[t]), th'[t].item = EOF
  PROVE  /\ t \in Thread /\ t \notin Handle
         /\ Hand(t) \in Cell /\ {th[t].item.n} \subseteq Held[Hand(t)]
         /\ Held'[Hand(t)] = Held[Hand(t)] \ {th[t].item.n} /\ th[t].item.n # 0
         /\ \A u \in Thread : u # t => Held'[Hand(u)] = Held[Hand(u)]
         /\ \A h \in Handle : CalledWith(h)' = CalledWith(h)
<1>1. t \in Thread /\ t \notin Handle /\ Hand(t) \in Cell
  BY Names, Cells
<1>2. th[t].item.n # 0
  BY CarriedItem, EventTypes
<1>3. Held[Hand(t)] = {th[t].item.n} /\ Held'[Hand(t)] = {}
  BY <1>1, <1>2, HeldAt, HeldAtNext, EventTypes
<1>4. /\ \A u \in Thread \ {t} : th'[u].item = th[u].item
      /\ \A h \in Handle : CalledWith(h)' = CalledWith(h)
  BY <1>1, LeftAlone
<1>5. \A u \in Thread : u # t => Held'[Hand(u)] = Held[Hand(u)]
  BY <1>4, HeldChanges
<1> QED
  BY <1>1, <1>2, <1>3, <1>4, <1>5

LEMMA Dropped ==
  ASSUME TypeInv, PlaceInv, NEW t \in App \cup {Rx}, Leaves(t), Carries(th[t]), th'[t].item = EOF,
         gone' = gone \cup {th[t].item.n}, UNCHANGED <<stream, out, arrivals>>,
         \A h \in Handle : Same(h)
  PROVE  PlaceInv' /\ Quiet
<1> DEFINE n == th[t].item.n
<1>1. /\ Hand(t) \in Cell /\ {n} \subseteq Held[Hand(t)]
      /\ Held'[Hand(t)] = Held[Hand(t)] \ {n} /\ n # 0
      /\ \A u \in Thread : u # t => Held'[Hand(u)] = Held[Hand(u)]
      /\ \A h \in Handle : CalledWith(h)' = CalledWith(h)
  BY OutOfHands
<1>2. Held'[Gone] = Held[Gone] \cup {n}
  BY <1>1, HeldAt, HeldAtNext
<1>3. Gone \in Cell /\ Gone # Hand(t)
  BY Cells, CellsDiffer
<1> HIDE DEF n
<1>4. \A c \in Cell : c # Gone /\ c # Hand(t) => Held'[c] = Held[c]
  BY <1>1, HeldChanges, Cells DEF Same
<1>5. Moved(Held, Held', Hand(t), Gone, {n})
  BY <1>1, <1>2, <1>3, <1>4 DEF Moved
<1>6. Parted(Held', arrivals)
  BY <1>5, TransferFrom DEF PlaceInv
<1>7. Parted(Held, arrivals)'
  BY <1>6 DEF Parted, Cell
<1>8. PlaceInv'
  BY <1>1, <1>7 DEF PlaceInv, Same
<1>9. \A u \in Thread \ {t} : th'[u].item = th[u].item
  BY LeftAlone, Names
<1>10. Quiet
  BY <1>1, <1>9 DEF Quiet, Same
<1> QED
  BY <1>8, <1>10

LEMMA LookupStep ==
  ASSUME TypeInv, HandleInv, PlaceInv, NEW t \in App \cup {Rx}, Lookup(t)
  PROVE  HandleInv' /\ PlaceInv' /\ Quiet
<1>0. t \in Thread /\ t \notin Handle /\ th \in [Thread -> ThreadRecord]
  BY Names DEF TypeInv, ThreadInv
<1>1. /\ Leaves(t) /\ Carries(th[t])
      /\ UNCHANGED <<open, num, info, stream, out, arrivals>>
  BY AppLeaves DEF Lookup, Is, Carries, Receives, counts, net, history, Within, bounds
<1>2. \A h \in Handle : Same(h) /\ info'[h].stage = info[h].stage
  BY <1>1 DEF Same
<1>3. Stages /\ Ending(stream') /\ (num = 0 => stream' = <<>>)
  BY <1>1, <1>2 DEF Stages, Ending, HandleInv, Same
<1>4. CASE th[t].item.to \in open
  <2>1. Goes(t, "deliver") /\ gone' = gone
    BY <1>4 DEF Lookup
  <2>2. th'[t].pc = "deliver" /\ th'[t].item = th[t].item
    BY <1>0, <2>1, Goings
  <2>3. Carriage(t) /\ Removal(t)
    BY <1>4, <2>2 DEF Carriage, Removal
  <2>4. HandleInv'
    BY <1>0, <1>1, <1>2, <1>3, <2>3, HandlesStay
  <2>5. PlaceInv' /\ Quiet
    BY <1>0, <1>1, <1>2, <2>1, <2>2, PlacesStay
  <2> QED
    BY <2>4, <2>5
<1>5. CASE th[t].item.to \notin open
  <2>1. /\ th' = [th EXCEPT ![t].pc = Next1(t), ![t].item = EOF]
        /\ gone' = gone \cup {th[t].item.n}
    BY <1>5 DEF Lookup
  <2>2. th'[t].pc \in {"receive", "grab"} /\ th'[t].item = EOF
    BY <1>0, <2>1 DEF ThreadRecord, Next1
  <2>3. Carriage(t) /\ Removal(t)
    BY <2>2 DEF Carriage, Removal
  <2>4. HandleInv'
    BY <1>0, <1>1, <1>2, <1>3, <2>3, HandlesStay
  <2>5. PlaceInv' /\ Quiet
    BY <1>1, <1>2, <2>1, <2>2, Dropped
  <2> QED
    BY <2>4, <2>5
<1> QED
  BY <1>4, <1>5

LEMMA PushedThread ==
  ASSUME TypeInv, NEW t \in App \cup {Rx}, Push(t), undefined' = "no", undefined = "no"
  PROVE  /\ Leaves(t) /\ Carries(th[t]) /\ th'[t].item = EOF /\ th'[t].pc \in {"receive", "grab"}
         /\ th[t].pc = "push" /\ UNCHANGED <<open, num, stream, out, arrivals>>
<1> DEFINE back == [th EXCEPT ![t].pc = Next1(t), ![t].item = EOF]
           h == th[t].item.to
<1>1. t \in Thread /\ th \in [Thread -> ThreadRecord] /\ Leaves(t)
  BY AppLeaves, Names DEF TypeInv, ThreadInv, Receives
<1>2. th[t].pc = "push" /\ UNCHANGED <<open, num, stream, out, arrivals>>
  BY DEF Push, Is, counts, net, Within, bounds
<1>3. th' = back \/ (h \in Notified /\ th' = Signal(h, back))
  BY DEF Push, Undefined
<1>4. back[t].pc \in {"receive", "grab"} /\ back[t].item = EOF
  BY <1>1 DEF ThreadRecord, Next1
<1>5. (h \in Notified => h # t) /\ DOMAIN back = Thread
  BY <1>1, Names DEF Handle
<1> HIDE DEF back, h
<1>6. th'[t] = back[t]
  BY <1>1, <1>3, <1>5 DEF Signal
<1> QED
  BY <1>1, <1>2, <1>4, <1>6 DEF Carries

(* The record of a handle after an event went to one of its queues, or to  *)
(* none.                                                                   *)
LEMMA PushedRecord ==
  ASSUME TypeInv, NEW t \in App \cup {Rx}, Push(t), undefined' = "no", undefined = "no"
  PROVE  LET item == th[t].item
             k == item.to IN
    /\ k \in Handle /\ item \in Item \ {EOF}
    /\ \A h \in Handle : info'[h].stage = info[h].stage /\ (h # k => Same(h))
    /\ \/ /\ info'[k].pending = Append(info[k].pending, item) /\ info'[k].queue = info[k].queue
          /\ gone' = gone
       \/ /\ info[k].stage = "live"
          /\ info'[k].queue = Queued(WithRoom(info[k].queue), item)
          /\ info'[k].pending = info[k].pending
          /\ gone' = gone \cup Displaced(info[k].queue)
       \/ Same(k) /\ gone' = gone \cup {item.n}
<1> DEFINE item == th[t].item
           k == item.to
           p == [info[k] EXCEPT !.lock = NoOne, !.pending = Queued(info[k].pending, item)]
           q == [info[k] EXCEPT !.lock = NoOne, !.queue = Queued(WithRoom(info[k].queue), item)]
           u == [info[k] EXCEPT !.lock = NoOne]
<1>1. k \in Handle /\ item \in Item \ {EOF}
  BY CarriedItem DEF Push, Is, Carries
<1>2. info[k] \in InfoRecord /\ info \in [Handle -> InfoRecord]
  BY <1>1 DEF TypeInv, InfoOK
<1>3. \/ info' = [info EXCEPT ![k] = p] /\ gone' = gone
      \/ info[k].stage = "live" /\ info' = [info EXCEPT ![k] = q] /\ gone' = gone \cup Displaced(info[k].queue)
      \/ info' = [info EXCEPT ![k] = u] /\ gone' = gone \cup {item.n}
  BY PushCases
<1>4. /\ p.queue = info[k].queue /\ p.pending = Append(info[k].pending, item) /\ p.stage = info[k].stage
  BY <1>2 DEF InfoRecord, Queued
<1>5. /\ q.queue = Queued(WithRoom(info[k].queue), item) /\ q.pending = info[k].pending
      /\ q.stage = info[k].stage
  BY <1>2 DEF InfoRecord
<1>6. u.queue = info[k].queue /\ u.pending = info[k].pending /\ u.stage = info[k].stage
  BY <1>2 DEF InfoRecord
<1> HIDE DEF item, p, q, u, k
<1>7. \A h \in Handle : h # k => info'[h] = info[h]
  BY <1>2, <1>3
<1>8. \/ info'[k] = p /\ gone' = gone
      \/ info[k].stage = "live" /\ info'[k] = q /\ gone' = gone \cup Displaced(info[k].queue)
      \/ info'[k] = u /\ gone' = gone \cup {item.n}
  BY <1>1, <1>2, <1>3
<1>9. \A h \in Handle : info'[h].stage = info[h].stage /\ (h # k => Same(h))
  BY <1>4, <1>5, <1>6, <1>7, <1>8 DEF Same
<1>10. \/ /\ info'[k].pending = Append(info[k].pending, item) /\ info'[k].queue = info[k].queue
          /\ gone' = gone
       \/ /\ info[k].stage = "live"
          /\ info'[k].queue = Queued(WithRoom(info[k].queue), item)
          /\ info'[k].pending = info[k].pending
          /\ gone' = gone \cup Displaced(info[k].queue)
       \/ Same(k) /\ gone' = gone \cup {item.n}
  BY <1>4, <1>5, <1>6, <1>8 DEF Same
<1> QED
  BY <1>1, <1>9, <1>10 DEF item, k

LEMMA PushHandles ==
  ASSUME TypeInv, HandleInv, NEW t \in App \cup {Rx}, Push(t), undefined' = "no", undefined = "no"
  PROVE  HandleInv'
<1> DEFINE k == th[t].item.to
<1>1. /\ Leaves(t) /\ th'[t].pc \in {"receive", "grab"}
      /\ th[t].pc = "push" /\ UNCHANGED <<open, num, stream, out, arrivals>>
  BY PushedThread
<1>2. t \in Thread /\ t \notin Handle /\ k \in open
  BY <1>1, Names DEF HandleInv
<1>3. /\ \A h \in Handle : info'[h].stage = info[h].stage /\ (h # k => Same(h))
      /\ info[k].stage # "live" => info'[k].queue = info[k].queue
  BY PushedRecord DEF Same
<1> HIDE DEF k
<1>4. Stages
  BY <1>3 DEF Stages, HandleInv, Same
<1>5. Carriage(t) /\ Removal(t)
  BY <1>1 DEF Carriage, Removal
<1>6. (num = 0 => stream' = <<>>) /\ Ending(stream')
  BY <1>1 DEF HandleInv, Ending
<1>7. \A h \in Handle \ open : Same(h)
  BY <1>2, <1>3
<1> QED
  BY <1>1, <1>2, <1>4, <1>5, <1>6, <1>7, HandlesStay

LEMMA PushPlaces ==
  ASSUME TypeInv, PlaceInv, NEW t \in App \cup {Rx}, Push(t), undefined' = "no", undefined = "no"
  PROVE  PlaceInv'
<1> DEFINE item == th[t].item
           k == item.to
           n == item.n
<1>1. /\ Leaves(t) /\ Carries(th[t]) /\ th'[t].item = EOF
      /\ UNCHANGED <<stream, out, arrivals>>
  BY PushedThread
<1>2. /\ Hand(t) \in Cell /\ {n} \subseteq Held[Hand(t)]
      /\ Held'[Hand(t)] = Held[Hand(t)] \ {n} /\ n # 0
      /\ \A u \in Thread : u # t => Held'[Hand(u)] = Held[Hand(u)]
      /\ \A h \in Handle : CalledWith(h)' = CalledWith(h)
  BY <1>1, OutOfHands
<1>3. k \in Handle /\ item \in Item \ {EOF} /\ \A h \in Handle : h # k => Same(h)
  BY PushedRecord
<1>4. /\ Gone \in Cell /\ Queue(k) \in Cell /\ Pending(k) \in Cell
      /\ Gone # Hand(t) /\ Queue(k) # Hand(t) /\ Pending(k) # Hand(t) /\ Queue(k) # Gone
  BY <1>3, Cells, CellsDiffer
<1>5. \A c \in Cell : c \notin {Gone, Hand(t), Queue(k), Pending(k)} => Held'[c] = Held[c]
  BY <1>1, <1>2, <1>3, HeldChanges, Cells DEF Same
<1>6. n \notin Held[Queue(k)] /\ n \notin Held[Pending(k)]
  BY <1>2, <1>4, Apart DEF PlaceInv
<1>7. Parted(Held, arrivals) /\ NoneTwice(stream, 0)
      /\ \A h \in Handle : /\ NoneTwice(info[h].queue, 0) /\ NoneTwice(out[h], 0)
                           /\ NoneTwice(info[h].pending, CalledWith(h))
  BY DEF PlaceInv
<1>8. SUFFICES /\ Parted(Held', arrivals)
               /\ NoneTwice(info'[k].queue, 0) /\ NoneTwice(info'[k].pending, CalledWith(k))
  <2> SUFFICES ASSUME /\ Parted(Held', arrivals)
                      /\ NoneTwice(info'[k].queue, 0) /\ NoneTwice(info'[k].pending, CalledWith(k))
               PROVE  PlaceInv'
    OBVIOUS
  <2>1. Parted(Held, arrivals)'
    BY <1>1 DEF Parted, Cell
  <2>2. ASSUME NEW h \in Handle
        PROVE  NoneTwice(info'[h].queue, 0) /\ NoneTwice(info'[h].pending, CalledWith(h)')
    BY <1>2, <1>3, <1>7 DEF Same
  <2> QED
    BY <1>1, <1>7, <2>1, <2>2 DEF PlaceInv
<1>9. /\ info[k].queue \in Seq(Item \ {EOF}) /\ info[k].pending \in Seq(Item \ {EOF})
      /\ CalledWith(k) \in 0..1 /\ Len(info[k].pending) >= CalledWith(k)
      /\ \A x \in Item \ {EOF} : x.n # 0
  BY <1>3, EventTypes
<1>10. /\ Held[Queue(k)] = Numbers(info[k].queue, 0) /\ Held'[Queue(k)] = Numbers(info'[k].queue, 0)
       /\ Held[Pending(k)] = Numbers(info[k].pending, CalledWith(k))
       /\ Held'[Pending(k)] = Numbers(info'[k].pending, CalledWith(k))
       /\ Held[Gone] = gone \ {0} /\ Held'[Gone] = gone' \ {0}
  BY <1>2, <1>3, HeldAt, HeldAtNext
<1>11. CASE /\ info'[k].pending = Append(info[k].pending, item) /\ info'[k].queue = info[k].queue
            /\ gone' = gone
  <2>1. /\ Held'[Pending(k)] = Held[Pending(k)] \cup {n}
        /\ NoneTwice(info'[k].pending, CalledWith(k))
    <3> HIDE DEF k, item
    <3>1. /\ Numbers(Append(info[k].pending, item), CalledWith(k))
               = Numbers(info[k].pending, CalledWith(k)) \cup ({n} \ {0})
          /\ n \notin Numbers(info[k].pending, CalledWith(k))
               => NoneTwice(Append(info[k].pending, item), CalledWith(k))
      BY <1>3, <1>7, <1>9, NumbersAppended
    <3> QED
      BY <1>2, <1>6, <1>10, <1>11, <3>1
  <2>2. Held'[Queue(k)] = Held[Queue(k)] /\ Held'[Gone] = Held[Gone]
    BY <1>10, <1>11
  <2>3. \A c \in Cell : c # Pending(k) /\ c # Hand(t) => Held'[c] = Held[c]
    BY <1>5, <2>2
  <2> HIDE DEF k, n
  <2>4. Moved(Held, Held', Hand(t), Pending(k), {n})
    BY <1>2, <1>4, <2>1, <2>3 DEF Moved
  <2>5. Parted(Held', arrivals)
    BY <1>7, <2>4, TransferFrom
  <2> QED
    BY <1>3, <1>7, <1>11, <2>1, <2>5
<1>12. CASE Same(k) /\ gone' = gone \cup {n}
  <2>1. PlaceInv'
    BY <1>1, <1>3, <1>12, Dropped
  <2> QED
    BY <1>1, <1>2, <1>3, <1>7, <1>12, <2>1 DEF PlaceInv, Same, Parted, Cell
<1>13. CASE /\ info'[k].queue = Queued(WithRoom(info[k].queue), item)
            /\ info'[k].pending = info[k].pending
            /\ gone' = gone \cup Displaced(info[k].queue)
  <2> DEFINE queue == info[k].queue
             room == WithRoom(queue)
             given == [c \in Cell |-> IF c = Queue(k) THEN Numbers(room, 0)
                                      ELSE IF c = Gone THEN Held'[Gone] ELSE Held[c]]
  <2>1. /\ room \in Seq(Item \ {EOF}) /\ NoneTwice(room, 0)
        /\ \E X : /\ X \subseteq Held[Queue(k)] /\ Numbers(room, 0) = Held[Queue(k)] \ X
                  /\ Held'[Gone] = Held[Gone] \cup X
    <3>1. CASE Len(queue) = QueueLen
      <4>1. queue # <<>>
        BY <3>1, QueueLenType
      <4>2. /\ room = Tail(queue) /\ Displaced(queue) = {Head(queue).n}
        BY <3>1 DEF WithRoom, Displaced
      <4>3. Tail(queue) \in Seq(Item \ {EOF}) /\ Head(queue) \in Item \ {EOF}
        BY <1>9, <4>1, TailShape
      <4>4. /\ Numbers(Tail(queue), 0) = Numbers(queue, 1)
            /\ Numbers(queue, 0) = Numbers(queue, 1) \cup {Head(queue).n}
            /\ Head(queue).n \notin Numbers(queue, 1) /\ NoneTwice(Tail(queue), 0)
        BY <1>3, <1>7, <1>9, <4>1, <4>3, NumbersTail
      <4>5. Held'[Gone] = Held[Gone] \cup {Head(queue).n}
        BY <1>9, <1>10, <1>13, <4>2, <4>3
      <4>6. {Head(queue).n} \subseteq Held[Queue(k)] /\ Numbers(room, 0) = Held[Queue(k)] \ {Head(queue).n}
        BY <1>10, <4>2, <4>4
      <4> QED
        BY <4>2, <4>3, <4>4, <4>5, <4>6
    <3>2. CASE Len(queue) # QueueLen
      <4>1. room = queue /\ Displaced(queue) = {}
        BY <3>2 DEF WithRoom, Displaced
      <4>2. Held'[Gone] = Held[Gone] \cup {} /\ Numbers(room, 0) = Held[Queue(k)] \ {}
        BY <1>10, <1>13, <4>1
      <4>3. room \in Seq(Item \ {EOF}) /\ NoneTwice(room, 0)
        BY <1>3, <1>7, <1>9, <4>1
      <4> QED
        BY <4>2, <4>3
    <3> QED
      BY <3>1, <3>2
  <2>2. info'[k].queue = Append(room, item)
    BY <1>13 DEF Queued
  <2> HIDE DEF room, queue, k, n, item
  <2>3. /\ \A c \in Cell : c # Queue(k) /\ c # Gone => given[c] = Held[c]
        /\ given[Queue(k)] = Numbers(room, 0) /\ given[Gone] = Held'[Gone]
    BY <1>4
  <2> HIDE DEF given
  <2>4. PICK X : /\ X \subseteq Held[Queue(k)] /\ Numbers(room, 0) = Held[Queue(k)] \ X
                 /\ Held'[Gone] = Held[Gone] \cup X
    BY <2>1
  <2>5. Moved(Held, given, Queue(k), Gone, X)
    BY <1>4, <2>3, <2>4 DEF Moved
  <2>6. Parted(given, arrivals)
    BY <1>7, <2>5, TransferFrom
  <2>7. n \notin Numbers(room, 0)
    BY <1>6, <2>4
  <2>8. /\ Numbers(Append(room, item), 0) = Numbers(room, 0) \cup ({n} \ {0})
        /\ NoneTwice(Append(room, item), 0)
    <3>1. item.n = n
      BY DEF n
    <3>2. Len(room) >= 0
      BY <2>1, SeqShape
    <3> QED
      BY <1>3, <2>1, <2>7, <3>1, <3>2, NumbersAppended
  <2>9. Held'[Queue(k)] = given[Queue(k)] \cup {n}
    BY <1>2, <1>10, <2>2, <2>3, <2>8
  <2>10. \A c \in Cell : c # Queue(k) /\ c # Hand(t) => Held'[c] = given[c]
    <3>1. Held'[Pending(k)] = Held[Pending(k)]
      BY <1>10, <1>13
    <3> QED
      BY <1>5, <2>3, <3>1
  <2>11. Held[Hand(t)] = given[Hand(t)]
    BY <1>2, <1>4, <2>3
  <2>12. Moved(given, Held', Hand(t), Queue(k), {n})
    BY <1>2, <1>4, <2>9, <2>10, <2>11 DEF Moved
  <2>13. Parted(Held', arrivals)
    BY <2>6, <2>12, TransferFrom
  <2> QED
    BY <1>3, <1>7, <1>13, <2>2, <2>8, <2>13
<1> QED
  BY <1>11, <1>12, <1>13, PushedRecord

LEMMA PushMoves ==
  ASSUME TypeInv, NEW t \in App \cup {Rx}, Push(t), undefined' = "no", undefined = "no"
  PROVE  t \in Thread /\ (Quiet \/ Puts(t))
<1> DEFINE item == th[t].item
           k == item.to
<1>1. /\ Leaves(t) /\ Carries(th[t]) /\ th'[t].item = EOF
      /\ UNCHANGED <<stream, out, arrivals>>
  BY PushedThread
<1>2. t \in Thread /\ \A h \in Handle : CalledWith(h)' = CalledWith(h)
  BY <1>1, OutOfHands
<1>3. OtherHands(t)
  BY <1>1, <1>2, LeftAlone DEF OtherHands
<1>4. k \in Handle /\ item \in Item \ {EOF} /\ \A h \in Handle : h # k => Same(h)
  BY PushedRecord
<1>5. \/ info'[k].pending = Append(info[k].pending, item) /\ info'[k].queue = info[k].queue
      \/ /\ info'[k].queue = Queued(WithRoom(info[k].queue), item)
         /\ info'[k].pending = info[k].pending
      \/ Same(k)
  BY PushedRecord
<1>6. CASE Same(k)
  <2>1. \A h \in Handle : Same(h)
    BY <1>4, <1>6
  <2> QED
    BY <1>1, <1>2, <1>3, <2>1 DEF Quiet, Same, OtherHands
<1>7. CASE ~ Same(k)
  BY <1>1, <1>2, <1>3, <1>4, <1>5, <1>7 DEF Puts
<1> QED
  BY <1>6, <1>7

(* From the queue of a handle to the caller of FTBC_Poll_event.            *)
LEMMA ScanStep ==
  ASSUME TypeInv, HandleInv, PlaceInv, NEW t \in App, Scan(t)
  PROVE  HandleInv' /\ PlaceInv' /\ (Quiet \/ \E h \in Handle : \E mask : HandsOut(h, mask))
<1> DEFINE k == th[t].h
           queue == info[k].queue
           m == Min(Fitting(queue, th[t].mask))
           n == queue[m].n
           what == [how |-> "polling", mask |-> th[t].mask, n |-> n]
           r == [info[k] EXCEPT !.queue = RemoveAt(queue, m)]
<1>0. t \in Thread /\ t \notin Handle /\ t \in App \cup {Rx} /\ th \in [Thread -> ThreadRecord]
      /\ info \in [Handle -> InfoRecord]
  BY Names DEF TypeInv, ThreadInv, InfoOK
<1>1. /\ Leaves(t) /\ th[t].pc = "look"
      /\ UNCHANGED <<open, num, stream, gone, arrivals>>
  BY <1>0, AppLeaves DEF Scan, Is, counts, net, Within, bounds
<1>2. k \in Handle /\ th[t] \in ThreadRecord /\ th[t].item = EOF
  <2>1. ~ Carries(th[t])
    BY <1>1 DEF Carries
  <2> QED
    BY <1>0, <1>1, <2>1, AppThread, EmptyHands
<1>3. Ending(stream') /\ (num = 0 => stream' = <<>>)
  BY <1>1 DEF Ending, HandleInv
<1>4. CASE Fitting(queue, th[t].mask) = {}
  <2>1. /\ UNCHANGED <<info, out>>
        /\ Goes(t, "polled") \/ th' = [th EXCEPT ![t].pc = "progress", ![t].round = 2]
    BY <1>4 DEF Scan
  <2>2. th'[t].pc \in {"polled", "progress"} /\ th'[t].item = th[t].item
    BY <1>0, <1>2, <2>1 DEF Goes, ThreadRecord
  <2>3. \A h \in Handle : Same(h) /\ info'[h].stage = info[h].stage
    BY <2>1 DEF Same
  <2>4. Stages /\ Carriage(t) /\ Removal(t)
    BY <2>2, <2>3 DEF Stages, Carriage, Removal, HandleInv, Same
  <2>5. HandleInv'
    BY <1>0, <1>1, <1>3, <2>3, <2>4, HandlesStay
  <2>6. PlaceInv' /\ Quiet
    BY <1>0, <1>1, <2>1, <2>2, <2>3, PlacesStay
  <2> QED
    BY <2>5, <2>6
<1>5. CASE Fitting(queue, th[t].mask) # {}
  <2>1. /\ info' = [info EXCEPT ![k] = r] /\ out' = [out EXCEPT ![k] = Append(@, what)]
        /\ th' = [th EXCEPT ![t] = Idle]
    BY <1>5 DEF Scan
  <2>2. /\ queue \in Seq(Item \ {EOF}) /\ m \in 1..Len(queue) /\ info[k] \in InfoRecord
    BY <1>0, <1>2, <1>5, EventTypes, FittingType
  <2>3. n \in Ordinal /\ n # 0
    BY <2>2, SeqShape, ItemType, EventTypes
  <2>4. what \in Handed
    BY <1>2, <2>3 DEF Handed, ThreadRecord
  <2>5. /\ r.queue = RemoveAt(queue, m) /\ r.pending = info[k].pending /\ r.stage = info[k].stage
    BY <2>2 DEF InfoRecord
  <2>6. queue # <<>>
    BY <2>2, SeqShape
  <2>7. info[k].stage = "live" /\ k \in open
    BY <1>2, <2>6 DEF HandleInv
  <2>8. th'[t].item = EOF /\ th'[t].pc = "idle"
    BY <1>0, <2>1 DEF Idle, NoThread
  <2>9. what.n = n
    OBVIOUS
  <2> HIDE DEF what, m
  <2>10. /\ Numbers(RemoveAt(queue, m), 0) = Numbers(queue, 0) \ {n} /\ n \in Numbers(queue, 0)
         /\ NoneTwice(RemoveAt(queue, m), 0)
    BY <1>2, <2>2, <2>3, NumbersRemoved DEF PlaceInv
  <2>11. /\ info'[k].queue = RemoveAt(queue, m) /\ info'[k].pending = info[k].pending
         /\ info'[k].stage = info[k].stage
         /\ \A h \in Handle : h # k => Same(h) /\ info'[h].stage = info[h].stage
    <3> HIDE DEF r
    <3>1. \A h \in Handle : info'[h] = IF h = k THEN r ELSE info[h]
      BY <1>0, <1>2, <2>1
    <3> HIDE DEF k, queue
    <3> QED
      BY <1>2, <2>5, <3>1 DEF Same
  <2>12. /\ out[k] \in Seq(Handed) /\ out \in [Handle -> Seq(Handed)]
    BY <1>2, EventTypes
  <2>13. out'[k] = Append(out[k], what) /\ \A h \in Handle : h # k => out'[h] = out[h]
    BY <1>2, <2>1, <2>12
  <2> DEFINE mask == th[t].mask
  <2>30. /\ out'[k] = Append(out[k], [how |-> "polling", mask |-> mask, n |-> queue[m].n])
         /\ Fitting(queue, mask) # {} /\ m = Min(Fitting(queue, mask)) /\ queue = info[k].queue
    BY <1>5, <2>13 DEF what, m
  <2> HIDE DEF r, n, queue, k, mask
  <2>14. /\ Queue(k) \in Cell /\ Out(k) \in Cell /\ Queue(k) # Out(k)
    BY <1>2, Cells, CellsDiffer
  <2>15. Held[Queue(k)] = Numbers(queue, 0) /\ Held'[Queue(k)] = Held[Queue(k)] \ {n}
    BY <1>2, <2>10, <2>11, HeldAt, HeldAtNext DEF queue
  <2>16. n \notin Numbers(out[k], 0)
    <3>1. n \in Held[Queue(k)] /\ Held[Out(k)] = Numbers(out[k], 0)
      BY <1>2, <2>10, <2>15, HeldAt
    <3> QED
      BY <2>14, <3>1, Apart DEF PlaceInv
  <2>17. /\ Numbers(out'[k], 0) = Numbers(out[k], 0) \cup {n}
         /\ NoneTwice(out'[k], 0)
    <3>1. Len(out[k]) >= 0 /\ NoneTwice(out[k], 0)
      BY <1>2, <2>12, SeqShape DEF PlaceInv
    <3> QED
      BY <2>3, <2>4, <2>9, <2>12, <2>13, <2>16, <3>1, NumbersAppended
  <2>18. Held'[Out(k)] = Held[Out(k)] \cup {n}
    BY <1>2, <2>17, HeldAt, HeldAtNext
  <2>19. /\ \A u \in Thread : th'[u].item = th[u].item
         /\ \A h \in Handle : CalledWith(h)' = CalledWith(h)
    BY <1>0, <1>1, <1>2, <2>8, LeftAlone
  <2>20. \A c \in Cell : c # Out(k) /\ c # Queue(k) => Held'[c] = Held[c]
    BY <1>1, <2>11, <2>13, <2>19, HeldChanges, Cells DEF Same
  <2>21. Moved(Held, Held', Queue(k), Out(k), {n})
    BY <2>10, <2>14, <2>15, <2>18, <2>20 DEF Moved
  <2>22. Parted(Held', arrivals)
    BY <2>21, TransferFrom DEF PlaceInv
  <2>23. Parted(Held, arrivals)'
    BY <1>1, <2>22 DEF Parted, Cell
  <2>24. PlaceInv'
    <3>1. \A h \in Handle : /\ NoneTwice(info'[h].queue, 0) /\ NoneTwice(out'[h], 0)
                            /\ NoneTwice(info'[h].pending, CalledWith(h)')
      BY <2>10, <2>11, <2>13, <2>17, <2>19 DEF PlaceInv, Same
    <3> QED
      BY <1>1, <2>23, <3>1 DEF PlaceInv
  <2>25. Stages
    BY <2>7, <2>11 DEF Stages, HandleInv, Same
  <2>26. Carriage(t) /\ Removal(t)
    BY <2>8 DEF Carriage, Removal
  <2>27. \A h \in Handle \ open : Same(h)
    BY <2>7, <2>11
  <2>28. HandleInv'
    BY <1>0, <1>1, <1>3, <2>25, <2>26, <2>27, HandlesStay
  <2>29. HandsOut(k, mask)
    <3>1. \A h \in Handle : /\ info'[h].pending = info[h].pending /\ CalledWith(h)' = CalledWith(h)
                            /\ h # k => Same(h) /\ out'[h] = out[h]
      BY <2>11, <2>13, <2>19 DEF Same
    <3>2. stream' = stream /\ SameHands
      BY <1>1, <2>19 DEF SameHands
    <3> QED
      BY <2>11, <2>30, <3>1, <3>2 DEF HandsOut
  <2> QED
    BY <1>2, <2>24, <2>28, <2>29
<1> QED
  BY <1>4, <1>5

(* To the callback functions: the event stays at the head of its queue     *)
(* until they return.                                                      *)
LEMMA PickStep ==
  ASSUME TypeInv, HandleInv, PlaceInv, NEW h \in Handle, Pick(h)
  PROVE  HandleInv' /\ PlaceInv' /\ (Quiet \/ CallsBack(h))
<1> DEFINE s == info[h].pending
           n == Head(s).n
           what == [how |-> "callback", mask |-> NoOne, n |-> n]
<1>0. h \in Thread /\ h \notin App /\ th \in [Thread -> ThreadRecord]
  BY Names DEF TypeInv, ThreadInv
<1>1. th[h].pc = "pick" /\ UNCHANGED <<open, num, info, stream, gone, arrivals>>
  BY DEF Pick, Is, counts, net, Within, bounds
<1>2. \A k \in Handle : Same(k) /\ info'[k].stage = info[k].stage
  BY <1>1 DEF Same
<1>3. Stages /\ Ending(stream') /\ (num = 0 => stream' = <<>>)
  BY <1>1, <1>2 DEF Stages, Ending, HandleInv, Same
<1>4. \/ Goes(h, "calling") /\ out' = [out EXCEPT ![h] = Append(@, what)]
      \/ Goes(h, "unmatched") /\ out' = out
  BY DEF Pick
<1>5. Leaves(h) /\ th'[h].item = th[h].item /\ th'[h].pc \in {"calling", "unmatched"}
  BY <1>0, <1>4, Goings
<1>6. Carriage(h)
  BY <1>5 DEF Carriage
<1>7. HandleInv'
  BY <1>0, <1>1, <1>2, <1>3, <1>5, <1>6, HandlesStay
<1>8. CASE Goes(h, "unmatched") /\ out' = out
  <2>1. CalledWith(h)' = CalledWith(h)
    BY <1>0, <1>1, <1>8, Goings DEF CalledWith
  <2>2. PlaceInv' /\ Quiet
    BY <1>0, <1>1, <1>2, <1>5, <1>8, <2>1, PlacesStay
  <2> QED
    BY <1>7, <2>2
<1>9. CASE Goes(h, "calling") /\ out' = [out EXCEPT ![h] = Append(@, what)]
  <2>1. CalledWith(h) = 0 /\ CalledWith(h)' = 1
    BY <1>0, <1>1, <1>9, Goings DEF CalledWith
  <2>2. s \in Seq(Item \ {EOF}) /\ s # <<>>
    BY <1>1, EventTypes DEF TypeInv, HeadInv, NeedsEvent
  <2>3. Head(s) \in Item \ {EOF}
    BY <2>2, TailShape
  <2>4. n \in Ordinal /\ n # 0
    BY <2>3, ItemType, EventTypes
  <2>5. what \in Handed /\ what.n = n
    BY <2>4 DEF Handed
  <2>6. NoneTwice(s, 0) /\ NoneTwice(out[h], 0)
    BY <2>1 DEF PlaceInv
  <2>7. /\ Numbers(s, 0) = Numbers(s, 1) \cup {n} /\ n \notin Numbers(s, 1) /\ NoneTwice(s, 1)
    BY <2>2, <2>4, <2>6, NumbersTail
  <2>8. out[h] \in Seq(Handed) /\ out \in [Handle -> Seq(Handed)]
    BY EventTypes
  <2>22. out'[h] = Append(out[h], [how |-> "callback", mask |-> NoOne, n |-> Head(info[h].pending).n])
    BY <1>9, <2>8
  <2> HIDE DEF what
  <2>9. out'[h] = Append(out[h], what) /\ \A k \in Handle : k # h => out'[k] = out[k]
    BY <1>9, <2>8
  <2>10. Held[Pending(h)] = Numbers(s, 0) /\ Held'[Pending(h)] = Numbers(s, 1)
    BY <1>1, <2>1, HeldAt, HeldAtNext
  <2> HIDE DEF s, n
  <2>11. Pending(h) \in Cell /\ Out(h) \in Cell /\ Pending(h) # Out(h)
    BY Cells, CellsDiffer
  <2>12. n \notin Numbers(out[h], 0)
    <3>1. n \in Held[Pending(h)] /\ Held[Out(h)] = Numbers(out[h], 0)
      BY <2>7, <2>10, HeldAt
    <3> QED
      BY <2>11, <3>1, Apart DEF PlaceInv
  <2>13. Numbers(out'[h], 0) = Numbers(out[h], 0) \cup {n} /\ NoneTwice(out'[h], 0)
    <3>1. Len(out[h]) >= 0
      BY <2>8, SeqShape
    <3> QED
      BY <2>4, <2>5, <2>6, <2>8, <2>9, <2>12, <3>1, NumbersAppended
  <2>14. Held'[Out(h)] = Held[Out(h)] \cup {n}
    BY <2>13, HeldAt, HeldAtNext
  <2>15. /\ \A u \in Thread : th'[u].item = th[u].item
         /\ \A k \in Handle \ {h} : CalledWith(k)' = CalledWith(k)
    BY <1>0, <1>5, LeftAlone
  <2>16. \A c \in Cell : c # Out(h) /\ c # Pending(h) => Held'[c] = Held[c]
    BY <1>1, <1>2, <2>9, <2>15, HeldChanges, Cells DEF Same
  <2>17. Moved(Held, Held', Pending(h), Out(h), {n})
    BY <2>7, <2>10, <2>11, <2>14, <2>16 DEF Moved
  <2>18. Parted(Held', arrivals)
    BY <2>17, TransferFrom DEF PlaceInv
  <2>19. Parted(Held, arrivals)'
    BY <1>1, <2>18 DEF Parted, Cell
  <2>20. NoneTwice(info'[h].pending, CalledWith(h)')
    BY <1>1, <2>1, <2>7 DEF s
  <2>21. PlaceInv'
    <3>1. \A k \in Handle : /\ NoneTwice(info'[k].queue, 0) /\ NoneTwice(out'[k], 0)
                            /\ NoneTwice(info'[k].pending, CalledWith(k)')
      BY <1>2, <2>9, <2>13, <2>15, <2>20 DEF PlaceInv, Same
    <3> QED
      BY <1>1, <2>19, <3>1 DEF PlaceInv
  <2>23. CallsBack(h)
    BY <1>1, <1>2, <2>1, <2>2, <2>9, <2>15, <2>22 DEF CallsBack, SameHands, s
  <2> QED
    BY <1>7, <2>21, <2>23
<1> QED
  BY <1>4, <1>8, <1>9

LEMMA ReturnStep ==
  ASSUME TypeInv, HandleInv, PlaceInv, NEW h \in Handle, CallbackReturns(h)
  PROVE  HandleInv' /\ PlaceInv' /\ Returned(h)
<1> DEFINE s == info[h].pending
           r == [info[h] EXCEPT !.pending = Tail(s)]
<1>0. h \in Thread /\ h \notin App /\ info \in [Handle -> InfoRecord]
  BY Names DEF TypeInv, InfoOK
<1>1. /\ th[h].pc = "calling" /\ Goes(h, "start") /\ info' = [info EXCEPT ![h] = r]
      /\ UNCHANGED <<open, num, stream, gone, out, arrivals>>
  BY DEF CallbackReturns, Awaits, Is, Unlinked, counts, net, history, Within, bounds
<1>2. Leaves(h) /\ th'[h].item = th[h].item /\ th'[h].pc = "start"
  BY <1>0, <1>1, Goings
<1>3. CalledWith(h) = 1 /\ CalledWith(h)' = 0
  BY <1>1, <1>2 DEF CalledWith
<1>4. s \in Seq(Item \ {EOF}) /\ s # <<>> /\ NoneTwice(s, 1)
  BY <1>3, EventTypes DEF PlaceInv
<1>5. r.pending = Tail(s) /\ r.queue = info[h].queue /\ r.stage = info[h].stage
  BY <1>0 DEF InfoRecord
<1> HIDE DEF r
<1>6. \A k \in Handle : info'[k] = IF k = h THEN r ELSE info[k]
  BY <1>0, <1>1
<1>7. /\ info'[h].pending = Tail(s)
      /\ \A k \in Handle : /\ info'[k].queue = info[k].queue /\ info'[k].stage = info[k].stage
                           /\ k # h => info'[k].pending = info[k].pending
  BY <1>5, <1>6
<1>8. h \in open
  BY <1>4 DEF HandleInv
<1>9. HandleInv'
  <2>1. \A k \in Handle \ open : Same(k)
    BY <1>7, <1>8 DEF Same
  <2>2. Stages /\ Carriage(h)
    BY <1>2, <1>7 DEF Stages, Carriage, HandleInv
  <2>3. Ending(stream') /\ (num = 0 => stream' = <<>>)
    BY <1>1 DEF Ending, HandleInv
  <2> QED
    BY <1>0, <1>1, <1>2, <2>1, <2>2, <2>3, HandlesStay
<1>10. PlaceInv'
  <2>1. Numbers(Tail(s), 0) = Numbers(s, 1) /\ NoneTwice(Tail(s), 0)
    BY <1>4, NumbersTail
  <2>2. Held'[Pending(h)] = Held[Pending(h)]
    BY <1>3, <1>7, <2>1, HeldAt, HeldAtNext
  <2>3. /\ \A u \in Thread : th'[u].item = th[u].item
        /\ \A k \in Handle \ {h} : CalledWith(k)' = CalledWith(k)
    BY <1>0, <1>2, LeftAlone
  <2>4. \A c \in Cell : Held'[c] = Held[c]
    BY <1>1, <1>7, <2>2, <2>3, HeldChanges, Cells
  <2>5. Parted(Held, arrivals)'
    BY <1>1, <2>4 DEF PlaceInv, Parted, Cell
  <2>6. \A k \in Handle : /\ NoneTwice(info'[k].queue, 0) /\ NoneTwice(out'[k], 0)
                          /\ NoneTwice(info'[k].pending, CalledWith(k)')
    BY <1>1, <1>3, <1>7, <2>1, <2>3 DEF PlaceInv
  <2> QED
    BY <1>1, <2>5, <2>6 DEF PlaceInv
<1>11. Returned(h)
  <2>1. /\ \A u \in Thread : th'[u].item = th[u].item
        /\ \A k \in Handle \ {h} : CalledWith(k)' = CalledWith(k)
    BY <1>0, <1>2, LeftAlone
  <2> QED
    BY <1>1, <1>3, <1>4, <1>7, <2>1 DEF Returned, SameHands
<1> QED
  BY <1>9, <1>10, <1>11

LEMMA AllNumbers ==
  ASSUME NEW S, NEW s \in Seq(S)
  PROVE  \A k : k \in Numbers(s, 0) <=> k # 0 /\ k \in {s[i].n : i \in DOMAIN s}
<1>1. /\ \A k : k \in Numbers(s, 0) <=> k # 0 /\ \E i \in 1..Len(s) : i > 0 /\ k = s[i].n
      /\ DOMAIN s = 1..Len(s) /\ Len(s) \in Nat
  BY NumberIn
<1> QED
  BY <1>1

(* What is left of a handle is dropped: first its queue,                   *)
LEMMA FinalizeStep ==
  ASSUME TypeInv, HandleInv, PlaceInv, NEW t \in App, Finalize(t)
  PROVE  HandleInv' /\ PlaceInv' /\ Quiet
<1> DEFINE k == th[t].h
           s == info[k].queue
           back == [th EXCEPT ![t].pc = "join"]
           r == [info[k] EXCEPT !.stage = "closing", !.finalizing = TRUE, !.queue = <<>>]
<1>0. t \in Thread /\ t \notin Handle /\ t \in App \cup {Rx} /\ th \in [Thread -> ThreadRecord]
      /\ info \in [Handle -> InfoRecord]
  BY Names DEF TypeInv, ThreadInv, InfoOK
<1>1. /\ Leaves(t) /\ th[t].pc = "finalize"
      /\ UNCHANGED <<open, num, stream, out, arrivals>>
  BY <1>0, AppLeaves DEF Finalize, Is, counts, net, Within, bounds
<1>2. k \in Handle /\ k \in open
  BY <1>1, AppThread DEF TypeInv, AloneInv, Closing
<1>3. /\ info' = [info EXCEPT ![k] = r] /\ gone' = gone \cup {s[i].n : i \in DOMAIN s}
      /\ \/ k \in Notified /\ th' = Signal(k, back)
         \/ k \notin Notified /\ th' = [th EXCEPT ![t].pc = "remove"]
  BY DEF Finalize
<1>4. /\ th'[t].pc \in {"join", "remove"} /\ (k \in Notified => th'[t].pc = "join")
      /\ th'[t].item = th[t].item /\ th'[t].h = k
  <2>1. CASE k \in Notified /\ th' = Signal(k, back)
    <3>1. back[t].pc = "join" /\ back[t].item = th[t].item /\ back[t].h = k /\ DOMAIN back = Thread
      BY <1>0 DEF ThreadRecord
    <3>2. k # t
      BY <1>0, <1>2
    <3> HIDE DEF back, k
    <3>3. th'[t] = back[t]
      BY <1>0, <2>1, <3>1, <3>2 DEF Signal
    <3> QED
      BY <3>1, <3>3
  <2>2. CASE k \notin Notified /\ th' = [th EXCEPT ![t].pc = "remove"]
    BY <1>0, <2>2 DEF ThreadRecord
  <2> QED
    BY <1>3, <2>1, <2>2
<1>5. r.queue = <<>> /\ r.pending = info[k].pending /\ r.stage = "closing"
  BY <1>0, <1>2 DEF InfoRecord
<1>6. s \in Seq(Item \ {EOF})
  BY <1>2, EventTypes
<1> HIDE DEF r
<1>7. \A h \in Handle : info'[h] = IF h = k THEN r ELSE info[h]
  BY <1>0, <1>2, <1>3
<1>8. \A j : j \in Numbers(s, 0) <=> j # 0 /\ j \in {s[i].n : i \in DOMAIN s}
  BY <1>6, AllNumbers
<1>9. Held[Queue(k)] = Numbers(s, 0) /\ Held'[Queue(k)] = {}
  BY <1>2, <1>5, <1>7, HeldAt, HeldAtNext, NoNumbers
<1> DEFINE dropped == {s[i].n : i \in DOMAIN s}
<1> HIDE DEF k, s, back, dropped
<1>10. Held'[Gone] = Held[Gone] \cup Held[Queue(k)]
  BY <1>3, <1>8, <1>9, HeldAt, HeldAtNext DEF dropped
<1>11. /\ info'[k].queue = <<>> /\ info'[k].pending = info[k].pending /\ info'[k].stage = "closing"
       /\ \A h \in Handle : h # k => Same(h) /\ info'[h].stage = info[h].stage
  BY <1>2, <1>5, <1>7 DEF Same
<1>12. PlaceInv' /\ Quiet
  <2>1. /\ \A u \in Thread : th'[u].item = th[u].item
        /\ \A h \in Handle : CalledWith(h)' = CalledWith(h)
    BY <1>0, <1>1, <1>4, LeftAlone
  <2>2. Gone \in Cell /\ Queue(k) \in Cell /\ Queue(k) # Gone
    BY <1>2, Cells, CellsDiffer
  <2>3. \A c \in Cell : c # Gone /\ c # Queue(k) => Held'[c] = Held[c]
    BY <1>1, <1>11, <2>1, HeldChanges, Cells DEF Same
  <2>4. Moved(Held, Held', Queue(k), Gone, Held[Queue(k)])
    BY <1>9, <1>10, <2>2, <2>3 DEF Moved
  <2>5. Parted(Held', arrivals)
    BY <2>4, TransferFrom DEF PlaceInv
  <2>6. Parted(Held, arrivals)'
    BY <1>1, <2>5 DEF Parted, Cell
  <2>7. \A h \in Handle : /\ NoneTwice(info'[h].queue, 0) /\ NoneTwice(out'[h], 0)
                          /\ NoneTwice(info'[h].pending, CalledWith(h)')
    BY <1>1, <1>11, <2>1, NoNumbers DEF PlaceInv, Same
  <2> QED
    BY <1>1, <1>11, <2>1, <2>6, <2>7 DEF PlaceInv, Quiet, Same
<1>13. HandleInv'
  <2>1. Stages
    BY <1>11 DEF Stages, HandleInv, Same
  <2>2. Carriage(t) /\ Removal(t)
    BY <1>4, <1>11 DEF Carriage, Removal
  <2>3. Ending(stream') /\ (num = 0 => stream' = <<>>)
    BY <1>1 DEF Ending, HandleInv
  <2>4. \A h \in Handle \ open : Same(h)
    BY <1>2, <1>11
  <2> QED
    BY <1>0, <1>1, <2>1, <2>2, <2>3, <2>4, HandlesStay
<1> QED
  BY <1>12, <1>13

(* then its callbacks' queue, with what callback_thread had in its hands,  *)
(* and what nobody read.                                                   *)
LEMMA RemoveStep ==
  ASSUME TypeInv, HandleInv, PlaceInv, NEW t \in App, RemoveHandle(t), undefined' = "no"
  PROVE  HandleInv' /\ PlaceInv' /\ Quiet
<1> DEFINE k == th[t].h
           s == info[k].pending
           cancelled == IF k \in Notified /\ enable = 1 THEN {Rx} ELSE {}
           ends == num = 1
<1>0. /\ t \in Thread /\ t \notin Handle /\ t \in App \cup {Rx} /\ th \in [Thread -> ThreadRecord]
      /\ info \in [Handle -> InfoRecord] /\ Rx \in Thread /\ Rx # t
  BY Names DEF TypeInv, ThreadInv, InfoOK
<1>1. /\ th[t].pc = "remove" /\ UNCHANGED <<out, arrivals>> /\ open' = open \ {k} /\ num' = num - 1
      /\ info' = [info EXCEPT ![k] = FreshInfo]
  BY DEF RemoveHandle, Is, Within, bounds
<1>2. /\ k \in Handle /\ k \in open /\ \A u \in App \ {t} : th[u].h # k
      /\ info[k].stage # "live" /\ (k \in Notified => th[k].pc = "ended")
  BY <1>1, AppThread DEF TypeInv, AloneInv, Closing, Exclusive, HandleInv
<1>3. /\ th[t].item = EOF /\ th[k].item = EOF /\ CalledWith(k) = 0
  <2>1. ~ Carries(th[t])
    BY <1>1 DEF Carries
  <2>2. k \in Thread /\ ~ Carries(th[k])
    BY <1>2, Names DEF TypeInv, ThreadInv, WellFormed, CallbackRecord, Carries, CallbackPCs
  <2>3. k \notin Notified => th[k].pc = "none"
    BY <1>2 DEF TypeInv, CountInv
  <2> QED
    BY <1>0, <1>2, <2>1, <2>2, <2>3, EmptyHands DEF CalledWith
<1>4. /\ th'[t] = [th[t] EXCEPT !.pc = "progress", !.ret = "idle"]
      /\ \A u \in Thread \ {t} :
           th'[u] = IF u \in {k} \cup cancelled THEN NoThread ELSE th[u]
  <2>1. t \notin {k} \cup cancelled
    BY <1>0, <1>2
  <2> QED
    BY <1>0, <2>1 DEF RemoveHandle
<1>5. /\ gone' = gone \cup {s[i].n : i \in DOMAIN s} \cup {th[u].item.n : u \in cancelled}
                     \cup (IF ends THEN {stream[i].n : i \in DOMAIN stream} ELSE {})
      /\ stream' = IF ends THEN <<>> ELSE stream
      /\ ~ \E u \in Thread \ cancelled : Uses(u, k)
  <2> DEFINE using == \E u \in Thread \ cancelled : Uses(u, k)
  <2>1. IF using THEN Undefined("handle freed while it was in use") ELSE UNCHANGED undefined
    BY DEF RemoveHandle
  <2>2. ~ using
    <3> HIDE DEF using
    <3> QED
      BY <2>1 DEF Undefined
  <2> QED
    BY <2>2 DEF RemoveHandle, net
<1>6. th'[t].pc = "progress" /\ th'[t].item = EOF
  BY <1>0, <1>3, <1>4 DEF ThreadRecord
<1>7. s \in Seq(Item \ {EOF}) /\ stream \in Seq(Item)
  BY <1>2, EventTypes
<1>8. \A h \in Handle : info'[h] = IF h = k THEN FreshInfo ELSE info[h]
  BY <1>0, <1>1, <1>2
<1>9. FreshInfo.queue = <<>> /\ FreshInfo.pending = <<>> /\ FreshInfo.stage = "live"
  BY DEF FreshInfo
<1>10. NoThread.pc = "none" /\ NoThread.item = EOF
  BY DEF NoThread
<1>11. info[k].queue = <<>>
  BY <1>2 DEF HandleInv
<1>12. cancelled \subseteq {Rx}
  OBVIOUS
<1> HIDE DEF k, cancelled, ends
<1>13. /\ info'[k].queue = <<>> /\ info'[k].pending = <<>> /\ info'[k].stage = "live"
       /\ \A h \in Handle : h # k => Same(h) /\ info'[h].stage = info[h].stage
  BY <1>2, <1>8, <1>9 DEF Same
<1>14. /\ \A u \in Thread : u \notin cancelled => th'[u].item = th[u].item
       /\ \A u \in cancelled : u = Rx /\ th'[u].item = EOF
       /\ \A h \in Handle : CalledWith(h)' = CalledWith(h)
  <2>1. \A u \in cancelled : u = Rx /\ th'[u] = NoThread
    BY <1>0, <1>4, <1>12
  <2>2. \A u \in Thread : u \notin cancelled => th'[u].item = th[u].item
    BY <1>3, <1>4, <1>6, <1>10
  <2>3. \A h \in Handle : th'[h] = IF h = k THEN NoThread ELSE th[h]
    BY <1>0, <1>4, <1>12, Names
  <2>4. \A h \in Handle : CalledWith(h)' = CalledWith(h)
    BY <1>3, <1>10, <2>3 DEF CalledWith
  <2> QED
    BY <1>10, <2>1, <2>2, <2>4
<1>15. Parted(Held', arrivals)
  <2>1. /\ \A j : j \in Numbers(s, 0) <=> j # 0 /\ j \in {s[i].n : i \in DOMAIN s}
        /\ \A j : j \in Numbers(stream, 0) <=> j # 0 /\ j \in {stream[i].n : i \in DOMAIN stream}
    BY <1>7, AllNumbers
  <2>2. Held[Pending(k)] = Numbers(s, 0) /\ Held'[Pending(k)] = {}
    BY <1>2, <1>3, <1>13, <1>14, HeldAt, HeldAtNext, NoNumbers
  <2>3. Held[Queue(k)] = {} /\ Held'[Queue(k)] = {}
    BY <1>2, <1>11, <1>13, HeldAt, HeldAtNext, NoNumbers
  <2>4. /\ Held[Stream] = Numbers(stream, 0)
        /\ Held'[Stream] = IF ends THEN {} ELSE Held[Stream]
    <3>1. Held[Stream] = Numbers(stream, 0) /\ Held'[Stream] = Numbers(stream', 0)
      BY HeldAt, HeldAtNext
    <3>2. Numbers(<<>>, 0) = {}
      BY NoNumbers
    <3>3. stream' = IF ends THEN <<>> ELSE stream
      BY <1>5
    <3> QED
      BY <3>1, <3>2, <3>3
  <2>5. /\ \A u \in Thread : u \notin cancelled => Held'[Hand(u)] = Held[Hand(u)]
        /\ \A u \in cancelled : Held'[Hand(u)] = {} /\ Held[Hand(u)] = {th[u].item.n} \ {0}
    <3>1. \A u \in Thread : u \notin cancelled => Held'[Hand(u)] = Held[Hand(u)]
      BY <1>14, HeldChanges
    <3>2. \A u \in cancelled : u \in Thread /\ th'[u].item.n = 0
      BY <1>0, <1>14, EventTypes
    <3> QED
      BY <3>1, <3>2, HeldAt, HeldAtNext
  <2>6. /\ \A h \in Handle : Held'[Out(h)] = Held[Out(h)]
        /\ \A h \in Handle : h # k => /\ Held'[Queue(h)] = Held[Queue(h)]
                                      /\ Held'[Pending(h)] = Held[Pending(h)]
    BY <1>1, <1>13, <1>14, HeldChanges DEF Same
  <2> DEFINE lost == {s[i].n : i \in DOMAIN s}
             unread == {stream[i].n : i \in DOMAIN stream}
  <2>7. ASSUME NEW j
        PROVE  j \in Held'[Gone] <=> \/ j \in Held[Gone]
                                     \/ j \in Held[Pending(k)]
                                     \/ \E u \in cancelled : j \in Held[Hand(u)]
                                     \/ ends /\ j \in Held[Stream]
    <3>1. j \in Held'[Gone] <=> j \in gone' /\ j # 0
      BY HeldAtNext
    <3>2. j \in Held[Gone] <=> j \in gone /\ j # 0
      BY HeldAt
    <3>3. j \in gone' <=> \/ j \in gone \/ j \in lost \/ \E u \in cancelled : j = th[u].item.n
                          \/ ends /\ j \in unread
      BY <1>5
    <3>4. (\E u \in cancelled : j \in Held[Hand(u)]) <=> j # 0 /\ \E u \in cancelled : j = th[u].item.n
      BY <2>5
    <3>5. /\ j \in Held[Pending(k)] <=> j # 0 /\ j \in lost
          /\ j \in Held[Stream] <=> j # 0 /\ j \in unread
      BY <2>1, <2>2, <2>4
    <3> HIDE DEF lost, unread
    <3> QED
      BY <3>1, <3>2, <3>3, <3>4, <3>5
  <2>8. /\ Gone \in Cell /\ Stream \in Cell /\ Pending(k) \in Cell
        /\ Gone # Stream /\ Gone # Pending(k)
        /\ \A u \in cancelled : Hand(u) \in Cell /\ Gone # Hand(u)
    BY <1>0, <1>2, <1>12, Cells, CellsDiffer
  <2>9. \A c \in Cell : c # Gone =>
          \/ Held'[c] = Held[c]
          \/ Held'[c] = {} /\ (c = Pending(k) \/ (c = Stream /\ ends) \/ \E u \in cancelled : c = Hand(u))
    BY <2>2, <2>3, <2>4, <2>5, <2>6, Cells
  <2>10. \A c \in Cell : c # Gone => Held'[c] \subseteq Held[c]
    BY <2>9
  <2>11. ASSUME NEW j
         PROVE  j \in Held'[Gone] <=>
                  j \in Held[Gone] \/ \E c \in Cell : c # Gone /\ j \in Held[c] /\ j \notin Held'[c]
    <3>1. ASSUME NEW c \in Cell, c # Gone, j \in Held[c], j \notin Held'[c]
          PROVE  j \in Held'[Gone]
      BY <2>7, <2>9, <3>1
    <3>2. j \in Held[Pending(k)] => \E c \in Cell : c # Gone /\ j \in Held[c] /\ j \notin Held'[c]
      BY <2>2, <2>8
    <3>3. ends /\ j \in Held[Stream] => \E c \in Cell : c # Gone /\ j \in Held[c] /\ j \notin Held'[c]
      BY <2>4, <2>8
    <3>4. (\E u \in cancelled : j \in Held[Hand(u)])
             => \E c \in Cell : c # Gone /\ j \in Held[c] /\ j \notin Held'[c]
      BY <2>5, <2>8
    <3> QED
      BY <2>7, <3>1, <3>2, <3>3, <3>4
  <2> QED
    BY <2>8, <2>10, <2>11, Transfer DEF PlaceInv
<1>16. PlaceInv'
  <2>1. Parted(Held, arrivals)'
    BY <1>1, <1>15 DEF Parted, Cell
  <2>2. NoneTwice(stream', 0)
    BY <1>5, NoNumbers DEF PlaceInv
  <2>3. \A h \in Handle : /\ NoneTwice(info'[h].queue, 0) /\ NoneTwice(out'[h], 0)
                          /\ NoneTwice(info'[h].pending, CalledWith(h)')
    BY <1>1, <1>3, <1>13, <1>14, NoNumbers DEF PlaceInv, Same
  <2> QED
    BY <2>1, <2>2, <2>3 DEF PlaceInv
<1>17. HandleInv'
  <2>1. \A h \in Handle \ open' : info'[h].queue = <<>> /\ info'[h].pending = <<>>
    BY <1>1, <1>13 DEF HandleInv, Same
  <2>2. \A u \in Thread : th'[u].pc \in {"deliver", "push"} => th'[u].item.to \in open'
    <3> SUFFICES ASSUME NEW u \in Thread, th'[u].pc \in {"deliver", "push"}
                 PROVE  th'[u].item.to \in open'
      OBVIOUS
    <3>1. u # t
      BY <1>6
    <3>2. u \notin cancelled /\ th'[u] = th[u]
      BY <1>4, <1>10, <3>1
    <3>3. th[u].item.to # k
      BY <1>5, <3>2 DEF Uses
    <3> QED
      BY <1>1, <3>2, <3>3 DEF HandleInv
  <2>3. \A h \in Handle : info'[h].stage # "live" => info'[h].queue = <<>>
    BY <1>13 DEF HandleInv, Same
  <2>4. \A u \in App : u # t => u \in Thread /\ th'[u] = th[u] /\ th[u].h # k
    BY <1>0, <1>2, <1>4, <1>12, Names
  <2>5. \A u \in App : th'[u].pc \in {"join", "closed", "remove"} => info'[th'[u].h].stage # "live"
    <3> SUFFICES ASSUME NEW u \in App, th'[u].pc \in {"join", "closed", "remove"}
                 PROVE  info'[th'[u].h].stage # "live"
      OBVIOUS
    <3>1. u # t /\ th'[u] = th[u] /\ th[u].h # k
      BY <1>6, <2>4
    <3>2. th[u].h \in Handle
      BY <3>1, AppThread
    <3> QED
      BY <1>13, <3>1, <3>2 DEF HandleInv
  <2>6. \A u \in App : th'[u].pc \in {"closed", "remove"} /\ th'[u].h \in Notified
                         => th'[th'[u].h].pc = "ended"
    <3> SUFFICES ASSUME NEW u \in App, th'[u].pc \in {"closed", "remove"}, th'[u].h \in Notified
                 PROVE  th'[th'[u].h].pc = "ended"
      OBVIOUS
    <3>1. u # t /\ th'[u] = th[u] /\ th[u].h # k
      BY <1>6, <2>4
    <3>2. th[u].h \in Handle
      BY <3>1, AppThread
    <3>3. th'[th[u].h] = th[th[u].h]
      BY <1>0, <1>4, <1>12, <3>1, <3>2, Names
    <3> QED
      BY <3>1, <3>3 DEF HandleInv
  <2>7. num' = 0 => stream' = <<>>
    <3>1. num \in Nat
      <4>1. IsFiniteSet(Counted) /\ num = Cardinality(Counted)
        BY DEF TypeInv, CountInv
      <4> QED
        BY <4>1, FS_CardinalityType
    <3> QED
      BY <1>1, <1>5, <3>1 DEF ends
  <2>8. \A i \in DOMAIN stream' : stream'[i] = EOF => i = Len(stream')
    BY <1>5 DEF HandleInv
  <2> QED
    BY <2>1, <2>2, <2>3, <2>5, <2>6, <2>7, <2>8 DEF HandleInv, EOF
<1>18. Quiet
  BY <1>1, <1>5, <1>13, <1>14 DEF Quiet, Same
<1> QED
  BY <1>16, <1>17, <1>18

(* The agent sends, or the connection is lost: at the end of the stream.   *)
LEMMA AgentStep ==
  ASSUME TypeInv, HandleInv, PlaceInv, (\E h \in Handle, e \in Event : Arrive(h, e)) \/ Lose
  PROVE  HandleInv' /\ PlaceInv' /\ Sent
<1>1. PICK x \in Item :
        /\ stream' = Append(stream, x)
        /\ \/ arrivals' = arrivals /\ x = EOF
           \/ arrivals' = arrivals + 1 /\ x.n = arrivals + 1 /\ x # EOF
  <2>1. CASE Lose
    BY <2>1 DEF Lose, Item
  <2>2. ASSUME NEW h \in Handle, NEW e \in Event, Arrive(h, e)
        PROVE  \E x \in Item : stream' = Append(stream, x) /\ arrivals' = arrivals + 1
                                 /\ x.n = arrivals + 1 /\ x # EOF
    <3> DEFINE x == [n |-> arrivals + 1, to |-> h, ev |-> e]
    <3>1. arrivals < scenario.events /\ arrivals' = arrivals + 1 /\ stream' = Append(stream, x)
      BY <2>2 DEF Arrive
    <3>2. arrivals \in Nat /\ arrivals + 1 \in Ordinal /\ arrivals + 1 # 0
      BY <3>1, PastType DEF TypeInv, Ordinal
    <3>3. x \in Item /\ x.n = arrivals + 1
      BY <3>2 DEF Item
    <3>4. x # EOF
      BY <3>2, <3>3, EventTypes
    <3> QED
      BY <3>1, <3>3, <3>4
  <2> QED
    BY <2>1, <2>2
<1>2. /\ UNCHANGED <<open, num, info, th, out, gone>> /\ Up /\ num > 0
  BY DEF Arrive, Lose, counts, history
<1>3. stream \in Seq(Item) /\ arrivals \in Nat
  BY EventTypes, PastType DEF TypeInv
<1>4. /\ Numbers(stream', 0) = Numbers(stream, 0) \cup ({x.n} \ {0})
      /\ x.n \notin Numbers(stream, 0) => NoneTwice(stream', 0)
  <2>1. Len(stream) >= 0
    BY <1>3, SeqShape
  <2> QED
    BY <1>1, <1>3, <2>1, NumbersAppended DEF PlaceInv
<1>5. x.n \notin Numbers(stream, 0)
  <2>1. Held[Stream] = Numbers(stream, 0) /\ Held[Stream] \subseteq 1..arrivals
    BY HeldAt, Cells DEF PlaceInv, Parted
  <2>2. x.n = 0 \/ x.n = arrivals + 1
    BY <1>1, EventTypes
  <2>3. x.n \notin 1..arrivals
    BY <1>3, <2>2
  <2> QED
    BY <2>1, <2>3
<1>6. \A c \in Cell : c # Stream => Held'[c] = Held[c]
  <2>1. \A h \in Handle : CalledWith(h)' = CalledWith(h)
    BY <1>2 DEF CalledWith
  <2> QED
    BY <1>2, <2>1, HeldChanges, Cells
<1>7. Held'[Stream] = Held[Stream] \cup ({x.n} \ {0})
  BY <1>4, HeldAt, HeldAtNext
<1>8. Parted(Held', arrivals')
  <2>1. CASE arrivals' = arrivals /\ x = EOF
    <3>1. \A c \in Cell : Held'[c] = Held[c]
      BY <1>6, <1>7, <2>1, EventTypes
    <3> QED
      BY <2>1, <3>1 DEF Parted, PlaceInv
  <2>2. CASE arrivals' = arrivals + 1 /\ x.n = arrivals + 1
    <3>1. Held'[Stream] = Held[Stream] \cup {arrivals + 1}
      BY <1>3, <1>7, <2>2
    <3>2. Parted(Held', arrivals + 1)
      BY <1>3, <1>6, <3>1, Cells, OneMore DEF PlaceInv
    <3> QED
      BY <2>2, <3>2
  <2> QED
    BY <1>1, <2>1, <2>2
<1>9. PlaceInv'
  <2>1. Parted(Held, arrivals)'
    BY <1>8 DEF Parted, Cell
  <2>2. \A h \in Handle : /\ NoneTwice(info'[h].queue, 0) /\ NoneTwice(out'[h], 0)
                          /\ NoneTwice(info'[h].pending, CalledWith(h)')
    BY <1>2 DEF PlaceInv, CalledWith
  <2> QED
    BY <1>4, <1>5, <2>1, <2>2 DEF PlaceInv
<1>10. HandleInv'
  <2>1. /\ DOMAIN stream' = 1..Len(stream) + 1 /\ Len(stream') = Len(stream) + 1
        /\ \A i \in 1..Len(stream) : stream'[i] = stream[i]
        /\ DOMAIN stream = 1..Len(stream) /\ Len(stream) \in Nat
    BY <1>1, <1>3, AppendShape, SeqShape
  <2>2. \A i \in DOMAIN stream' : i \in 1..Len(stream) \/ i = Len(stream')
    BY <2>1
  <2>3. \A i \in DOMAIN stream' : stream'[i] = EOF => i = Len(stream')
    BY <1>2, <2>1, <2>2 DEF Up
  <2>4. num' = 0 => stream' = <<>>
    BY <1>2
  <2> QED
    BY <1>2, <2>3, <2>4 DEF HandleInv, EOF
<1>11. Sent
  <2>1. x = EOF \/ x.n = arrivals + 1
    BY <1>1
  <2>2. \A h \in Handle : Same(h) /\ out'[h] = out[h] /\ CalledWith(h)' = CalledWith(h)
    BY <1>2 DEF Same, CalledWith
  <2> QED
    BY <1>1, <1>2, <2>1, <2>2 DEF Sent, SameHands
<1> QED
  BY <1>9, <1>10, <1>11

-----------------------------------------------------------------------------
(* All steps.                                                              *)

LEMMA DefinedSoFar ==
  ASSUME Next
  PROVE  undefined = "no"
<1>1. ASSUME NEW t, Proceeds(t) PROVE undefined = "no"
  <2>1. CASE \/ StartThreads(t) \/ Insert(t) \/ Register(t) \/ AddMask(t) \/ SendMask(t)
             \/ DeleteMask(t) \/ CheckProgress(t) \/ Grab(t) \/ GrabNothing(t)
    BY <2>1 DEF StartThreads, Insert, Register, AddMask, SendMask, DeleteMask, CheckProgress, Grab,
                GrabNothing, Is
  <2>2. CASE Receives(t) \/ Scan(t) \/ PollNothing(t) \/ Finalize(t) \/ Join(t) \/ JoinedUnlock(t)
             \/ RemoveHandle(t)
    BY <2>2 DEF Receives, Lookup, LockHandle, Push, Reconnect, Scan, PollNothing, Finalize, Join,
                JoinedUnlock, RemoveHandle, Is
  <2> QED
    BY <1>1, <2>1, <2>2 DEF Proceeds
<1>2. ASSUME NEW t, \/ \E h \in Handle : Connect(t, h) \/ Disconnect(t, h)
                    \/ \E s \in Subscription : Subscribe(t, s) \/ Unsubscribe(t, s) \/ Poll(t, s)
      PROVE  undefined = "no"
  BY <1>2 DEF Connect, Disconnect, Subscribe, Unsubscribe, Poll, Calls, Is
<1>3. RxStep => undefined = "no"
  BY DEF RxStep, LockRecv, Receive, Receives, Lookup, LockHandle, Push, Reconnect, Is
<1>4. ASSUME NEW h, CallbackStep(h) \/ \E s \in Subscription : UnsubscribeInCallback(h, s)
      PROVE  undefined = "no"
  BY <1>4 DEF CallbackStep, CallbackWaits, CallbackWakes, CallbackEnds, Pick, CallbackReturns,
              FreeUnmatched, DeleteMask, CheckProgress, UnsubscribeInCallback, Awaits, Is
<1>5. (\E h \in Handle, e \in Event : Arrive(h, e)) \/ Lose => undefined = "no"
  BY DEF Arrive, Lose
<1> QED
  BY <1>1, <1>2, <1>3, <1>4, <1>5 DEF Next

LEMMA NextMoves ==
  ASSUME TypeInv, EventInv, Next, undefined' = "no"
  PROVE  undefined = "no" /\ HandleInv' /\ PlaceInv' /\ Effect
<1>1. undefined = "no" /\ HandleInv /\ PlaceInv
  BY DefinedSoFar DEF EventInv
<1>2. ASSUME NEW t \in App, Proceeds(t) PROVE HandleInv' /\ PlaceInv' /\ Effect
  <2>0. t \in App \cup {Rx}
    OBVIOUS
  <2>1. CASE \/ Register(t) \/ AddMask(t) \/ SendMask(t) \/ DeleteMask(t) \/ CheckProgress(t)
             \/ GrabNothing(t) \/ PollNothing(t) \/ Reconnect(t)
    <3>1. Plain(t)
      BY <2>1 DEF Plain
    <3> QED
      BY <1>1, <3>1, PlainStep DEF Effect
  <2>2. CASE StartThreads(t) \/ Insert(t)
    BY <1>1, <2>2, StartStep, InsertStep DEF Effect
  <2>3. CASE Grab(t) \/ Lookup(t) \/ LockHandle(t)
    BY <1>1, <2>0, <2>3, ReadStep, LookupStep, LockHandleStep, Names DEF Effect
  <2>4. CASE Push(t)
    BY <1>1, <2>0, <2>4, PushHandles, PushPlaces, PushMoves DEF Effect
  <2>5. CASE Scan(t) \/ Finalize(t)
    BY <1>1, <2>5, ScanStep, FinalizeStep DEF Effect
  <2>6. CASE Join(t) \/ JoinedUnlock(t) \/ RemoveHandle(t)
    BY <1>1, <2>6, JoinStep, RemoveStep DEF Effect
  <2> QED
    BY <1>2, <2>1, <2>2, <2>3, <2>4, <2>5, <2>6 DEF Proceeds, Receives
<1>3. ASSUME NEW t \in App,
             \/ \E h \in Handle : Connect(t, h) \/ Disconnect(t, h)
             \/ \E s \in Subscription : Subscribe(t, s) \/ Unsubscribe(t, s) \/ Poll(t, s)
      PROVE  HandleInv' /\ PlaceInv' /\ Effect
  BY <1>1, <1>3, CallStep DEF Effect
<1>4. ASSUME RxStep PROVE HandleInv' /\ PlaceInv' /\ Effect
  <2>0. Rx \in App \cup {Rx}
    OBVIOUS
  <2>1. CASE LockRecv \/ Reconnect(Rx)
    <3>1. Plain(Rx)
      BY <2>1 DEF Plain
    <3> QED
      BY <1>1, <3>1, PlainStep DEF Effect
  <2>2. CASE Receive \/ Lookup(Rx) \/ LockHandle(Rx)
    BY <1>1, <2>0, <2>2, ReadStep, LookupStep, LockHandleStep, Names DEF Effect
  <2>3. CASE Push(Rx)
    BY <1>1, <2>0, <2>3, PushHandles, PushPlaces, PushMoves DEF Effect
  <2> QED
    BY <1>4, <2>1, <2>2, <2>3 DEF RxStep, Receives
<1>5. ASSUME NEW h \in Handle,
             CallbackStep(h) \/ \E s \in Subscription : UnsubscribeInCallback(h, s)
      PROVE  HandleInv' /\ PlaceInv' /\ Effect
  <2>1. CASE CallbackPlain(h)
    BY <1>1, <2>1, CallbackPlainStep DEF Effect
  <2>2. CASE Pick(h) \/ CallbackReturns(h)
    BY <1>1, <2>2, PickStep, ReturnStep DEF Effect
  <2>3. CASE FreeUnmatched(h)
    BY <2>3 DEF FreeUnmatched, Undefined
  <2> QED
    BY <1>5, <2>1, <2>2, <2>3 DEF CallbackStep, CallbackPlain
<1>6. ASSUME (\E h \in Handle, e \in Event : Arrive(h, e)) \/ Lose
      PROVE  HandleInv' /\ PlaceInv' /\ Effect
  BY <1>1, <1>6, AgentStep DEF Effect
<1>7. Notified \subseteq Handle
  BY DEF Handle
<1> QED
  BY <1>1, <1>2, <1>3, <1>4, <1>5, <1>6, <1>7 DEF Next

LEMMA EventStep ==
  ASSUME TypeInv, EventInv, [Next]_vars
  PROVE  EventInv'
<1>1. CASE UNCHANGED vars
  <2>1. UNCHANGED <<open, num, info, th, stream, out, gone, arrivals, undefined>>
    BY <1>1 DEF vars, counts, net, history, bounds
  <2>2. ASSUME HandleInv, PlaceInv PROVE HandleInv' /\ PlaceInv'
    <3>1. \A c \in Cell : Held'[c] = Held[c]
      BY <2>1, HeldChanges, Cells DEF CalledWith
    <3>2. Parted(Held, arrivals)'
      BY <2>1, <2>2, <3>1 DEF PlaceInv, Parted, Cell
    <3> QED
      BY <2>1, <2>2, <3>2 DEF HandleInv, PlaceInv, EOF, CalledWith
  <2> QED
    BY <2>1, <2>2 DEF EventInv
<1>2. CASE Next
  BY <1>2, NextMoves DEF EventInv
<1> QED
  BY <1>1, <1>2

LEMMA EventsAtFirst ==
  ASSUME Init
  PROVE  EventInv
<1>1. /\ ThreadInv /\ InfoOK
      /\ \A t \in Thread : th[t].pc \in {"idle", "receive", "start", "none"}
  <2>1. th = [t \in Thread |->
          CASE t \in App                                  -> Idle
            [] t = Rx /\ Booted \cap Notified # {}        -> Running("receive")
            [] t \in Booted \cap Notified                 -> Running("start")
            [] OTHER                                      -> NoThread]
    BY DEF Init
  <2>2. \A t \in Thread : th[t] \in {Idle, Running("receive"), Running("start"), NoThread}
    BY <2>1, Names, BootType
  <2>3. /\ Idle.pc = "idle" /\ NoThread.pc = "none"
        /\ Running("receive").pc = "receive" /\ Running("start").pc = "start"
    BY DEF Idle, NoThread, Running
  <2> QED
    BY <2>2, <2>3, InitThreads, InitTypes
<1>2. \A t \in Thread : th[t].item = EOF
  BY <1>1 DEF ThreadInv, WellFormed, Carries
<1>3. ASSUME NEW h \in Handle
      PROVE  info[h].queue = <<>> /\ info[h].pending = <<>> /\ info[h].stage = "live"
  <2>1. info[h] = [FreshInfo EXCEPT !.polling = BootMap(h, "polling"),
                                    !.callbacks = BootMap(h, "callback")]
    BY DEF Init
  <2>2. FreshInfo \in InfoRecord
    BY FreshType
  <2>3. FreshInfo.queue = <<>> /\ FreshInfo.pending = <<>> /\ FreshInfo.stage = "live"
    BY DEF FreshInfo
  <2> QED
    BY <2>1, <2>2, <2>3 DEF InfoRecord
<1>4. /\ stream = <<>> /\ gone = {} /\ arrivals = 0 /\ \A h \in Handle : out[h] = <<>>
  BY DEF Init
<1>5. \A h \in Handle : CalledWith(h) = 0
  BY <1>1, Names DEF CalledWith
<1>6. HandleInv
  <2>1. \A t \in App : t \in Thread
    BY Names
  <2> QED
    BY <1>1, <1>3, <1>4, <2>1 DEF HandleInv
<1>7. PlaceInv
  <2>1. \A c \in Cell : Held[c] = {}
    BY <1>2, <1>3, <1>4, <1>5, HeldAt, Cells, NoNumbers DEF EOF
  <2>2. Parted(Held, arrivals)
    BY <1>4, <2>1 DEF Parted
  <2> QED
    BY <1>3, <1>4, <1>5, <2>2, NoNumbers DEF PlaceInv
<1> QED
  BY <1>6, <1>7 DEF EventInv

LEMMA EventInvariance == Spec => []EventInv
<1>1. Init => EventInv
  BY EventsAtFirst
<1>2. TypeInv /\ EventInv /\ [Next]_vars => EventInv'
  BY EventStep
<1> QED
  BY <1>1, <1>2, Invariance, PTL DEF Spec

-----------------------------------------------------------------------------
(* The cell of a place.                                                    *)
LiesIn(n, c, p) ==
  \/ c = Stream /\ \E i \in DOMAIN stream : i > 0 /\ stream[i].n = n /\ p = <<"stream", i>>
  \/ \E t \in Thread : c = Hand(t) /\ th[t].item.n = n /\ p = <<"hand", t>>
  \/ c = Gone /\ n \in gone /\ p = "gone"
  \/ \E h \in Handle : c = Queue(h) /\ \E i \in DOMAIN info[h].queue :
       i > 0 /\ info[h].queue[i].n = n /\ p = << <<"queue", h>>, i>>
  \/ \E h \in Handle : c = Out(h) /\ \E i \in DOMAIN out[h] :
       i > 0 /\ out[h][i].n = n /\ p = << <<"out", h>>, i>>
  \/ \E h \in Handle : c = Pending(h) /\ \E i \in DOMAIN info[h].pending :
       i > CalledWith(h) /\ info[h].pending[i].n = n /\ p = << <<"pending", h>>, i>>

LEMMA PlacesLie ==
  ASSUME NEW n, NEW p
  PROVE  p \in Places(n) <=> \E c \in Cell : LiesIn(n, c, p)
<1>1. p \in Places(n) =>
        \/ \E i \in DOMAIN stream : i > 0 /\ stream[i].n = n /\ p = <<"stream", i>>
        \/ \E t \in Thread : th[t].item.n = n /\ p = <<"hand", t>>
        \/ n \in gone /\ p = "gone"
        \/ \E h \in Handle : \E i \in DOMAIN info[h].queue :
             i > 0 /\ info[h].queue[i].n = n /\ p = << <<"queue", h>>, i>>
        \/ \E h \in Handle : \E i \in DOMAIN out[h] :
             i > 0 /\ out[h][i].n = n /\ p = << <<"out", h>>, i>>
        \/ \E h \in Handle : \E i \in DOMAIN info[h].pending :
             i > CalledWith(h) /\ info[h].pending[i].n = n /\ p = << <<"pending", h>>, i>>
  BY Zenon DEF Places
<1>2. p \in Places(n) => \E c \in Cell : LiesIn(n, c, p)
  BY <1>1, Cells DEF LiesIn
<1>3. ASSUME NEW c \in Cell, LiesIn(n, c, p) PROVE p \in Places(n)
  BY <1>3 DEF LiesIn, Places
<1> QED
  BY <1>2, <1>3

LEMMA LiesHeld ==
  ASSUME TypeInv, NEW n, n # 0, NEW c \in Cell
  PROVE  n \in Held[c] <=> \E p : LiesIn(n, c, p)
<1>1. CASE c = Stream
  BY <1>1, HeldAt, CellsDiffer DEF LiesIn, Numbers
<1>2. CASE c = Gone
  BY <1>2, HeldAt, CellsDiffer DEF LiesIn
<1>3. ASSUME NEW t \in Thread, c = Hand(t)
      PROVE  n \in Held[c] <=> \E p : LiesIn(n, c, p)
  BY <1>3, HeldAt, CellsDiffer DEF LiesIn
<1>4. ASSUME NEW h \in Handle, c = Queue(h)
      PROVE  n \in Held[c] <=> \E p : LiesIn(n, c, p)
  <2> DEFINE s == info[h].queue
  <2>1. Held[c] = Numbers(s, 0)
    BY <1>4, HeldAt
  <2>2. ASSUME NEW p
        PROVE  LiesIn(n, c, p) <=>
                 \E i \in DOMAIN s : i > 0 /\ s[i].n = n /\ p = << <<"queue", h>>, i>>
    BY <1>4, CellsDiffer DEF LiesIn
  <2>3. n \in Numbers(s, 0) <=> \E i \in DOMAIN s : i > 0 /\ s[i].n = n
    BY Zenon, n \notin {0} DEF Numbers
  <2>4. (\E p : LiesIn(n, c, p)) <=> \E i \in DOMAIN s : i > 0 /\ s[i].n = n
    BY <2>2
  <2> QED
    BY <2>1, <2>3, <2>4
<1>5. ASSUME NEW h \in Handle, c = Pending(h)
      PROVE  n \in Held[c] <=> \E p : LiesIn(n, c, p)
  <2> DEFINE s == info[h].pending
  <2>1. Held[c] = Numbers(s, CalledWith(h))
    BY <1>5, HeldAt
  <2>2. ASSUME NEW p
        PROVE  LiesIn(n, c, p) <=>
                 \E i \in DOMAIN s : i > CalledWith(h) /\ s[i].n = n /\ p = << <<"pending", h>>, i>>
    BY <1>5, CellsDiffer DEF LiesIn
  <2>3. n \in Numbers(s, CalledWith(h)) <=> \E i \in DOMAIN s : i > CalledWith(h) /\ s[i].n = n
    BY Zenon, n \notin {0} DEF Numbers
  <2>4. (\E p : LiesIn(n, c, p)) <=> \E i \in DOMAIN s : i > CalledWith(h) /\ s[i].n = n
    BY <2>2
  <2> QED
    BY <2>1, <2>3, <2>4
<1>6. ASSUME NEW h \in Handle, c = Out(h)
      PROVE  n \in Held[c] <=> \E p : LiesIn(n, c, p)
  <2> DEFINE s == out[h]
  <2>1. Held[c] = Numbers(s, 0)
    BY <1>6, HeldAt
  <2>2. ASSUME NEW p
        PROVE  LiesIn(n, c, p) <=>
                 \E i \in DOMAIN s : i > 0 /\ s[i].n = n /\ p = << <<"out", h>>, i>>
    BY <1>6, CellsDiffer DEF LiesIn
  <2>3. n \in Numbers(s, 0) <=> \E i \in DOMAIN s : i > 0 /\ s[i].n = n
    BY Zenon, n \notin {0} DEF Numbers
  <2>4. (\E p : LiesIn(n, c, p)) <=> \E i \in DOMAIN s : i > 0 /\ s[i].n = n
    BY <2>2
  <2> QED
    BY <2>1, <2>3, <2>4
<1> QED
  BY <1>1, <1>2, <1>3, <1>4, <1>5, <1>6, Cells

LEMMA LiesOnce ==
  ASSUME PlaceInv, NEW n, n # 0, NEW c \in Cell, NEW p, NEW q, LiesIn(n, c, p), LiesIn(n, c, q)
  PROVE  p = q
<1>1. CASE c = Stream
  BY <1>1, CellsDiffer DEF LiesIn, PlaceInv, NoneTwice
<1>2. CASE c = Gone
  BY <1>2, CellsDiffer DEF LiesIn
<1>3. ASSUME NEW t \in Thread, c = Hand(t) PROVE p = q
  BY <1>3, CellsDiffer DEF LiesIn
<1>4. ASSUME NEW h \in Handle, c = Queue(h) PROVE p = q
  BY <1>4, CellsDiffer DEF LiesIn, PlaceInv, NoneTwice
<1>5. ASSUME NEW h \in Handle, c = Pending(h) PROVE p = q
  BY <1>5, CellsDiffer DEF LiesIn, PlaceInv, NoneTwice
<1>6. ASSUME NEW h \in Handle, c = Out(h) PROVE p = q
  BY <1>6, CellsDiffer DEF LiesIn, PlaceInv, NoneTwice
<1> QED
  BY <1>1, <1>2, <1>3, <1>4, <1>5, <1>6, Cells

LEMMA EventInvImplies == TypeInv /\ EventInv => OnePlace
<1> SUFFICES ASSUME TypeInv, EventInv, undefined = "no", NEW n \in 1..arrivals
             PROVE  Cardinality(Places(n)) = 1
  BY DEF OnePlace
<1>1. PlaceInv
  BY DEF EventInv
<1>2. n # 0
  OBVIOUS
<1>3. PICK c \in Cell : n \in Held[c]
  BY <1>1 DEF PlaceInv, Parted
<1>4. PICK p : LiesIn(n, c, p)
  BY <1>2, <1>3, LiesHeld
<1>5. p \in Places(n)
  BY <1>4, PlacesLie
<1>6. ASSUME NEW q \in Places(n) PROVE q = p
  <2>1. PICK d \in Cell : LiesIn(n, d, q)
    BY <1>6, PlacesLie
  <2>2. n \in Held[d]
    BY <1>2, <2>1, LiesHeld
  <2>3. d = c
    BY <1>1, <1>3, <2>2 DEF PlaceInv, Parted
  <2> QED
    BY <1>1, <1>2, <1>4, <2>1, <2>3, LiesOnce
<1>7. Places(n) = {p}
  BY <1>5, <1>6
<1> QED
  BY <1>7, FS_Singleton

(* While nothing undefined happened, every event that came from the agent  *)
(* is in one place: unread, in the hands of a thread, in a queue, handed   *)
(* out or dropped, and in none of them twice, whichever threads receive,   *)
(* poll, call back and disconnect, and however long the queues are.        *)
THEOREM OnePlaceAtATime == Spec => []OnePlace
BY Invariance, EventInvariance, EventInvImplies, PTL

-----------------------------------------------------------------------------
(* One at a time: if a single thread makes calls, it receives by itself    *)
(* only while there is no handle with callbacks, hence no callback_thread. *)

Grabbing == {"grab", "lookup", "deliver", "push", "reconnect"}

SoleInv ==
  /\ \A t \in App \ scenario.app : th[t].pc = "idle"
  /\ Sole => \A t \in App : th[t].pc \in Grabbing => enable = 0

LEMMA NoneEnabled ==
  ASSUME TypeInv
  PROVE  enable \in Nat /\ (enable = 0 => th[Rx] = NoThread)
<1>1. IsFiniteSet(Served \cap Notified)
  <2>1. Served \cap Notified \subseteq Counted
    BY DEF Served, Counted, OfThreads
  <2> QED
    BY <2>1, FS_Subset DEF TypeInv, CountInv
<1> QED
  BY <1>1, FS_EmptySet, FS_CardinalityType DEF TypeInv, CountInv

(* Whoever has an event in hand is alone with it.                          *)
OneHand == \A t, u \in Thread : th[t].item # EOF /\ th[u].item # EOF => t = u

LEMMA HandsAlone ==
  ASSUME TypeInv, SoleInv, Sole
  PROVE  OneHand
<1>1. ASSUME NEW t \in Thread, th[t].item # EOF PROVE Carries(th[t]) /\ t \in App \cup {Rx}
  <2>1. Carries(th[t]) /\ (t \in Handle => th[t].pc \in CallbackPCs)
    BY <1>1 DEF TypeInv, ThreadInv, WellFormed, CallbackRecord
  <2> QED
    BY <2>1, Names DEF Carries, CallbackPCs
<1>2. ASSUME NEW t \in App, Carries(th[t]) PROVE t \in scenario.app /\ enable = 0 /\ th[Rx] = NoThread
  BY <1>2, NoneEnabled DEF SoleInv, Carries, Grabbing
<1>3. ~ Carries(NoThread)
  BY DEF NoThread, Carries
<1> QED
  BY <1>1, <1>2, <1>3, Names DEF OneHand, Sole

(* A step of a thread that leaves the others alone.                        *)
LEMMA SoleStays ==
  ASSUME TypeInv, SoleInv, NEW t \in Thread, Leaves(t), UNCHANGED <<scenario, enable>>,
         t \in App => th[t].pc # "idle" \/ t \in scenario.app,
         t \in App /\ th'[t].pc \in Grabbing => th[t].pc \in Grabbing \/ enable = 0
  PROVE  SoleInv'
<1>1. \A u \in App \ {t} : th'[u].pc = th[u].pc
  <2>1. \A u \in App \ {t} : u \in Thread /\ u \notin Handle
    BY Names
  <2> QED
    BY <2>1 DEF Leaves, Wakes
<1>2. Sole' = Sole
  BY DEF Sole
<1>3. \A u \in App \ scenario.app : th'[u].pc = "idle"
  BY <1>1 DEF SoleInv
<1>4. Sole => \A u \in App : th'[u].pc \in Grabbing => enable = 0
  BY <1>1 DEF SoleInv
<1> QED
  BY <1>2, <1>3, <1>4 DEF SoleInv

(* Where threads of the application go, that do not open or remove a       *)
(* handle.                                                                 *)
LEMMA ProceedsOn ==
  ASSUME TypeInv, NEW t \in App,
         \/ Insert(t) \/ Register(t) \/ AddMask(t) \/ SendMask(t) \/ DeleteMask(t)
         \/ CheckProgress(t) \/ Grab(t) \/ GrabNothing(t) \/ Receives(t)
         \/ Scan(t) \/ PollNothing(t) \/ Finalize(t) \/ Join(t) \/ JoinedUnlock(t)
  PROVE  /\ th[t].pc # "idle" /\ UNCHANGED <<scenario, enable>>
         /\ th'[t].pc \in Grabbing => th[t].pc \in Grabbing \/ enable = 0
<1>0. t \in Thread /\ th \in [Thread -> ThreadRecord]
  BY Names DEF TypeInv, ThreadInv
<1>1. th[t].pc # "idle" /\ UNCHANGED <<scenario, enable>>
  <2>1. CASE \/ Insert(t) \/ Register(t) \/ AddMask(t) \/ SendMask(t) \/ DeleteMask(t)
             \/ CheckProgress(t) \/ Grab(t) \/ GrabNothing(t)
    BY <2>1 DEF Insert, Register, AddMask, SendMask, DeleteMask, CheckProgress, Grab, GrabNothing,
                Read, Is, counts, Within, bounds
  <2>2. CASE Receives(t)
    BY <2>2 DEF Receives, Lookup, LockHandle, Push, Reconnect, Is, counts, Within, bounds
  <2>3. CASE Scan(t) \/ PollNothing(t) \/ Finalize(t) \/ Join(t) \/ JoinedUnlock(t)
    BY <2>3 DEF Scan, PollNothing, UnlockAgain, Finalize, Join, JoinedUnlock, Is, counts, Within, bounds
  <2> QED
    BY <2>1, <2>2, <2>3
<1>2. CASE Grab(t) \/ GrabNothing(t) \/ Receives(t)
  <2>1. th[t].pc \in Grabbing
    BY <1>2 DEF Grab, GrabNothing, Receives, Lookup, LockHandle, Push, Reconnect, Is, Grabbing
  <2> QED
    BY <1>1, <2>1
<1>3. CASE CheckProgress(t)
  <2>1. CASE enable > 0 \/ num = 0
    <3>1. Resumes(t) /\ th[t].pc = "progress"
      BY <1>3, <2>1 DEF CheckProgress, Is
    <3>2. th'[t] = Resumed(th[t])
      BY <1>0, <3>1 DEF Resumes, Resumed
    <3>3. Resumed(th[t]).pc \in {"idle", "add", "look"}
      BY <3>1, AppThread, AppResumes DEF Carries
    <3> QED
      BY <1>1, <3>2, <3>3 DEF Grabbing
  <2>2. CASE ~ (enable > 0 \/ num = 0)
    <3>1. enable = 0
      BY <2>2, NoneEnabled
    <3> QED
      BY <1>1, <3>1
  <2> QED
    BY <2>1, <2>2
<1>4. CASE Insert(t) \/ Register(t) \/ AddMask(t) \/ DeleteMask(t) \/ Join(t) \/ JoinedUnlock(t)
  <2>1. \/ \E pc \in {"register", "subscribe", "closed", "remove"} : Goes(t, pc)
        \/ \E ret : Progress(t, ret)
    BY <1>4 DEF Insert, Register, AddMask, DeleteMask, Join, JoinedUnlock
  <2>2. th'[t].pc \in {"register", "subscribe", "closed", "remove", "progress"}
    BY <1>0, <2>1, Goings
  <2> QED
    BY <1>1, <2>2 DEF Grabbing
<1>5. CASE SendMask(t) \/ PollNothing(t)
  <2>1. th'[t] = Idle
    BY <1>0, <1>5 DEF SendMask, PollNothing
  <2> QED
    BY <1>1, <2>1 DEF Idle, NoThread, Grabbing
<1>6. CASE Scan(t)
  <2>1. \/ th' = [th EXCEPT ![t] = Idle]
        \/ th' = [th EXCEPT ![t].pc = "progress", ![t].round = 2]
        \/ Goes(t, "polled")
    BY <1>6 DEF Scan
  <2>2. th'[t].pc \in {"idle", "progress", "polled"}
    BY <1>0, <2>1 DEF Goes, Idle, NoThread, ThreadRecord
  <2> QED
    BY <1>1, <2>2 DEF Grabbing
<1>7. CASE Finalize(t)
  <2> DEFINE h == th[t].h
             back == [th EXCEPT ![t].pc = "join"]
  <2>1. \/ h \in Notified /\ th' = Signal(h, back)
        \/ th' = [th EXCEPT ![t].pc = "remove"]
    BY <1>7 DEF Finalize
  <2>2. back[t].pc = "join" /\ DOMAIN back = Thread /\ (h \in Notified => h # t)
    BY <1>0, Names DEF ThreadRecord, Handle
  <2> HIDE DEF back, h
  <2>3. th'[t].pc \in {"join", "remove"}
    BY <1>0, <2>1, <2>2 DEF Signal, ThreadRecord
  <2> QED
    BY <1>1, <2>3 DEF Grabbing
<1> QED
  BY <1>2, <1>3, <1>4, <1>5, <1>6, <1>7

(* And that do: all others are idle then.                                  *)
LEMMA HandlesAlone ==
  ASSUME TypeInv, SoleInv, NEW t \in App, StartThreads(t) \/ RemoveHandle(t)
  PROVE  SoleInv'
<1>0. t \in Thread /\ th \in [Thread -> ThreadRecord]
  BY Names DEF TypeInv, ThreadInv
<1>1. scenario' = scenario /\ th[t].pc # "idle"
  BY DEF StartThreads, RemoveHandle, Within, bounds, Is
<1>2. th'[t].pc \in {"insert", "progress"} /\ \A u \in App \ {t} : th'[u] = th[u]
  <2>1. CASE StartThreads(t)
    <3>1. th[t].h \in Handle
      BY <1>1, AppThread
    <3> QED
      BY <1>0, <2>1, <3>1, Names DEF StartThreads, Goes, ThreadRecord
  <2>2. CASE RemoveHandle(t)
    <3> DEFINE cancelled == IF th[t].h \in Notified /\ enable = 1 THEN {Rx} ELSE {}
    <3>1. th[t].h \in Handle
      BY <1>1, AppThread
    <3>2. \A u \in App : u \in Thread /\ u \notin {th[t].h} \cup cancelled
      BY <3>1, Names
    <3>3. \A u \in Thread : th'[u] =
            CASE u = t                          -> [th[t] EXCEPT !.pc = "progress", !.ret = "idle"]
              [] u \in {th[t].h} \cup cancelled -> NoThread
              [] OTHER                          -> th[u]
      BY <2>2 DEF RemoveHandle
    <3> HIDE DEF cancelled
    <3>4. th'[t] = [th[t] EXCEPT !.pc = "progress", !.ret = "idle"]
      BY <3>2, <3>3
    <3>5. \A u \in App \ {t} : th'[u] = th[u]
      BY <3>2, <3>3
    <3> QED
      BY <1>0, <3>4, <3>5 DEF ThreadRecord
  <2> QED
    BY <2>1, <2>2
<1>3. t \in scenario.app
  BY <1>1 DEF SoleInv
<1>4. Sole => \A u \in App : th'[u].pc \notin Grabbing
  BY <1>2, <1>3 DEF Sole, SoleInv, Grabbing
<1> QED
  BY <1>1, <1>2, <1>3, <1>4 DEF SoleInv, Sole

(* The others.                                                             *)
LEMMA CallbackLeaves ==
  ASSUME TypeInv, NEW h \in Handle,
         CallbackStep(h) \/ \E s \in Subscription : UnsubscribeInCallback(h, s)
  PROVE  Leaves(h) /\ UNCHANGED <<scenario, enable>>
<1>0. h \in Thread /\ th \in [Thread -> ThreadRecord]
  BY Names DEF TypeInv, ThreadInv
<1>1. CASE \/ CallbackWaits(h) \/ CallbackWakes(h) \/ CallbackEnds(h) \/ Pick(h) \/ CallbackReturns(h)
  <2>1. \E pc : Goes(h, pc)
    BY <1>1 DEF CallbackWaits, CallbackWakes, Proceed, CallbackEnds, Pick, CallbackReturns
  <2>2. UNCHANGED <<scenario, enable>>
    BY <1>1 DEF CallbackWaits, CallbackWakes, Proceed, CallbackEnds, Pick, CallbackReturns,
                counts, Within, bounds
  <2> QED
    BY <1>0, <2>1, <2>2, Goings
<1>2. CASE FreeUnmatched(h)
  BY <1>2 DEF FreeUnmatched, Leaves, counts, Within, bounds
<1>3. CASE DeleteMask(h) \/ CheckProgress(h)
  BY <1>0, <1>3 DEF DeleteMask, CheckProgress, Progress, Resumes, Goes, Leaves, counts, Within, bounds
<1>4. CASE \E s \in Subscription : UnsubscribeInCallback(h, s)
  BY <1>0, <1>4 DEF UnsubscribeInCallback, Leaves, counts, Within, bounds
<1> QED
  BY <1>1, <1>2, <1>3, <1>4 DEF CallbackStep

LEMMA SoleStep ==
  ASSUME TypeInv, SoleInv, Next
  PROVE  SoleInv'
<1>1. ASSUME NEW t \in App, Proceeds(t) PROVE SoleInv'
  <2>0. t \in Thread /\ t \in App \cup {Rx}
    BY Names
  <2>1. CASE \/ Insert(t) \/ Register(t) \/ AddMask(t) \/ SendMask(t) \/ DeleteMask(t)
             \/ CheckProgress(t) \/ Grab(t) \/ GrabNothing(t) \/ Receives(t)
             \/ Scan(t) \/ PollNothing(t) \/ Finalize(t) \/ Join(t) \/ JoinedUnlock(t)
    <3>1. Leaves(t)
      BY <2>0, <2>1, AppLeaves
    <3>2. /\ th[t].pc # "idle" /\ UNCHANGED <<scenario, enable>>
          /\ th'[t].pc \in Grabbing => th[t].pc \in Grabbing \/ enable = 0
      BY <2>1, ProceedsOn
    <3> QED
      BY <2>0, <3>1, <3>2, SoleStays
  <2>2. CASE StartThreads(t) \/ RemoveHandle(t)
    BY <2>2, HandlesAlone
  <2> QED
    BY <1>1, <2>1, <2>2 DEF Proceeds
<1>2. ASSUME NEW t \in App,
             \/ \E h \in Handle : Connect(t, h) \/ Disconnect(t, h)
             \/ \E s \in Subscription : Subscribe(t, s) \/ Unsubscribe(t, s) \/ Poll(t, s)
      PROVE  SoleInv'
  <2>1. t \in Thread /\ Leaves(t) /\ th'[t].pc \in {"threads", "finalize", "progress", "delete"}
    BY <1>2, CallLeaves, Names
  <2>2. t \in scenario.app /\ UNCHANGED <<scenario, enable>>
    BY <1>2 DEF Connect, Disconnect, Subscribe, Unsubscribe, Poll, Calls, counts
  <2> QED
    BY <2>1, <2>2, SoleStays DEF Grabbing
<1>3. CASE RxStep
  <2>1. Leaves(Rx) /\ Rx \in Thread /\ Rx \notin App
    BY <1>3, AppLeaves, Names DEF RxStep
  <2>2. UNCHANGED <<scenario, enable>>
    BY <1>3 DEF RxStep, LockRecv, Receive, Read, Receives, Lookup, LockHandle, Push, Reconnect,
                counts, Within, bounds
  <2> QED
    BY <2>1, <2>2, SoleStays
<1>4. ASSUME NEW h \in Notified,
             CallbackStep(h) \/ \E s \in Subscription : UnsubscribeInCallback(h, s)
      PROVE  SoleInv'
  <2>1. h \in Handle /\ h \in Thread /\ h \notin App
    BY Names DEF Handle
  <2>2. Leaves(h) /\ UNCHANGED <<scenario, enable>>
    BY <1>4, <2>1, CallbackLeaves
  <2> QED
    BY <2>1, <2>2, SoleStays
<1>5. CASE (\E h \in Handle, e \in Event : Arrive(h, e)) \/ Lose
  <2>1. UNCHANGED <<th, scenario, enable>>
    BY <1>5 DEF Arrive, Lose, counts
  <2> QED
    BY <2>1 DEF SoleInv, Sole
<1> QED
  BY <1>1, <1>2, <1>3, <1>4, <1>5 DEF Next

-----------------------------------------------------------------------------
(* Sequences of events in the order of their numbers, after the first ones.*)

Below(X, Y) == \A x \in X, y \in Y : x < y

Rising(s, from) == \A i, j \in DOMAIN s : from < i /\ i < j /\ s[j].n # 0 => s[i].n < s[j].n

LEMMA RisingAppended ==
  ASSUME NEW S, NEW s \in Seq(S), NEW x \in S, NEW from \in 0..1, Len(s) >= from, Rising(s, from),
         x.n # 0 => 0 < x.n /\ Below(Numbers(s, from), {x.n})
  PROVE  Rising(Append(s, x), from)
<1> DEFINE q == Append(s, x)
<1>1. /\ q \in Seq(S) /\ Len(q) = Len(s) + 1 /\ Len(s) \in Nat
      /\ \A i \in 1..Len(s) : q[i] = s[i]
      /\ q[Len(s) + 1] = x
  BY AppendShape, SeqShape
<1> HIDE DEF q
<1>2. /\ \A k : k \in Numbers(s, from) <=>
           k # 0 /\ \E i \in 1..Len(s) : i > from /\ k = s[i].n
      /\ DOMAIN s = 1..Len(s) /\ DOMAIN q = 1..Len(q)
  BY <1>1, NumberIn
<1> SUFFICES ASSUME NEW i \in 1..Len(q), NEW j \in 1..Len(q), from < i, i < j, q[j].n # 0
             PROVE  q[i].n < q[j].n
  BY <1>2 DEF Rising, q
<1>3. i \in 1..Len(s) /\ q[i] = s[i] /\ i > from
  BY <1>1
<1>4. CASE j \in 1..Len(s)
  BY <1>1, <1>2, <1>3, <1>4 DEF Rising
<1>5. CASE j = Len(s) + 1
  <2>1. q[j] = x
    BY <1>1, <1>5
  <2>2. s[i].n = 0 \/ s[i].n \in Numbers(s, from)
    BY <1>2, <1>3
  <2> QED
    BY <1>3, <2>1, <2>2 DEF Below
<1> QED
  BY <1>1, <1>4, <1>5

LEMMA RisingTail ==
  ASSUME NEW S, NEW s \in Seq(S), s # <<>>
  PROVE  /\ Rising(s, 0) => Rising(s, 1) /\ Below({Head(s).n}, Numbers(s, 1))
         /\ Rising(s, 1) => Rising(Tail(s), 0)
<1> DEFINE q == Tail(s)
<1>1. /\ Len(s) \in Nat /\ Len(s) >= 1 /\ Head(s) = s[1]
      /\ q \in Seq(S) /\ Len(q) = Len(s) - 1
      /\ \A i \in 1..Len(s)-1 : q[i] = s[i+1]
  BY TailShape
<1> HIDE DEF q
<1>2. /\ \A k : k \in Numbers(s, 1) <=> k # 0 /\ \E i \in 1..Len(s) : i > 1 /\ k = s[i].n
      /\ DOMAIN s = 1..Len(s) /\ DOMAIN q = 1..Len(q)
  BY <1>1, NumberIn
<1>3. ASSUME Rising(s, 0) PROVE Rising(s, 1) /\ Below({Head(s).n}, Numbers(s, 1))
  <2>1. \A i, j \in 1..Len(s) : 0 < i /\ i < j /\ s[j].n # 0 => s[i].n < s[j].n
    BY <1>2, <1>3 DEF Rising
  <2>2. Rising(s, 1)
    BY <1>2, <2>1 DEF Rising
  <2>3. 1 \in 1..Len(s)
    BY <1>1
  <2>4. Below({Head(s).n}, Numbers(s, 1))
    BY <1>1, <1>2, <2>1, <2>3 DEF Below
  <2> QED
    BY <2>2, <2>4
<1>4. ASSUME Rising(s, 1) PROVE Rising(q, 0)
  <2> SUFFICES ASSUME NEW i \in 1..Len(q), NEW j \in 1..Len(q), i < j, q[j].n # 0
               PROVE  q[i].n < q[j].n
    BY <1>2 DEF Rising
  <2>1. /\ i + 1 \in DOMAIN s /\ j + 1 \in DOMAIN s /\ 1 < i + 1 /\ i + 1 < j + 1
        /\ q[i] = s[i+1] /\ q[j] = s[j+1]
    BY <1>1, <1>2
  <2> QED
    BY <1>4, <2>1 DEF Rising
<1> QED
  BY <1>3, <1>4 DEF q

(* The numbers of the events that match a mask.                            *)
Matched(queue, mask) == {queue[i].n : i \in Fitting(queue, mask)}

LEMMA MatchedIn ==
  ASSUME NEW S, NEW s \in Seq(S)
  PROVE  \A mask, k : k \in Matched(s, mask) <=>
           \E i \in 1..Len(s) : FTBU_match_mask(s[i].ev, mask) /\ k = s[i].n
BY SeqShape DEF Matched, Fitting

LEMMA MatchedAppended ==
  ASSUME NEW S, NEW s \in Seq(S), NEW x \in S
  PROVE  \A mask : Matched(Append(s, x), mask) \subseteq Matched(s, mask) \cup {x.n}
<1> DEFINE q == Append(s, x)
<1>1. /\ q \in Seq(S) /\ Len(q) = Len(s) + 1 /\ Len(s) \in Nat
      /\ \A i \in 1..Len(s) : q[i] = s[i]
      /\ q[Len(s) + 1] = x
  BY AppendShape, SeqShape
<1> HIDE DEF q
<1>2. \A i \in 1..Len(q) : i \in 1..Len(s) \/ i = Len(s) + 1
  BY <1>1
<1>3. \A mask : Matched(q, mask) \subseteq Matched(s, mask) \cup {x.n}
  <2> SUFFICES ASSUME NEW mask, NEW k \in Matched(q, mask) PROVE k \in Matched(s, mask) \cup {x.n}
    OBVIOUS
  <2>1. PICK i \in 1..Len(q) : FTBU_match_mask(q[i].ev, mask) /\ k = q[i].n
    BY <1>1, MatchedIn
  <2>2. CASE i \in 1..Len(s)
    BY <1>1, <2>1, <2>2, MatchedIn
  <2>3. CASE i = Len(s) + 1
    BY <1>1, <2>1, <2>3
  <2> QED
    BY <1>2, <2>2, <2>3
<1> QED
  BY <1>3 DEF q

LEMMA MatchedTail ==
  ASSUME NEW S, NEW s \in Seq(S), s # <<>>
  PROVE  \A mask : Matched(Tail(s), mask) \subseteq Matched(s, mask)
<1> DEFINE q == Tail(s)
<1>1. /\ Len(s) \in Nat /\ q \in Seq(S) /\ Len(q) = Len(s) - 1
      /\ \A i \in 1..Len(s)-1 : q[i] = s[i+1]
  BY TailShape
<1> HIDE DEF q
<1>2. \A mask : Matched(q, mask) \subseteq Matched(s, mask)
  <2> SUFFICES ASSUME NEW mask, NEW k \in Matched(q, mask) PROVE k \in Matched(s, mask)
    OBVIOUS
  <2>1. PICK i \in 1..Len(q) : FTBU_match_mask(q[i].ev, mask) /\ k = q[i].n
    BY <1>1, MatchedIn
  <2>2. i + 1 \in 1..Len(s) /\ q[i] = s[i+1]
    BY <1>1
  <2> QED
    BY <2>1, <2>2, MatchedIn
<1> QED
  BY <1>2 DEF q

(* The first one that matches is taken out.                                *)
LEMMA FirstMatched ==
  ASSUME NEW S, NEW s \in Seq(S), NEW mask, Fitting(s, mask) # {}, Rising(s, 0),
         \A x \in S : x.n # 0
  PROVE  LET m == Min(Fitting(s, mask))
             q == RemoveAt(s, m) IN
         /\ Rising(q, 0) /\ \A a : Matched(q, a) \subseteq Matched(s, a)
         /\ s[m].n \in Matched(s, mask) /\ Below({s[m].n}, Matched(q, mask))
<1> DEFINE m == Min(Fitting(s, mask))
           q == RemoveAt(s, m)
<1>1. m \in Fitting(s, mask) /\ \A i \in Fitting(s, mask) : m <= i
  <2>1. Fitting(s, mask) \in SUBSET Nat
    BY SeqShape DEF Fitting
  <2>2. \E k \in Fitting(s, mask) : \A i \in Fitting(s, mask) : k <= i
    BY <2>1, Least
  <2> QED
    BY <2>2 DEF Min
<1>2. m \in 1..Len(s) /\ Len(s) \in Nat /\ DOMAIN s = 1..Len(s) /\ \A i \in 1..Len(s) : s[i] \in S
  BY <1>1, SeqShape DEF Fitting
<1> HIDE DEF m
<1>3. /\ q \in Seq(S) /\ Len(q) = Len(s) - 1
      /\ \A i \in 1..Len(s)-1 : q[i] = IF i < m THEN s[i] ELSE s[i + 1]
  BY <1>2, RemoveShape
<1> HIDE DEF q
<1>4. DOMAIN q = 1..Len(q)
  BY <1>3, SeqShape
<1>5. \A i, j \in 1..Len(s) : i < j => s[i].n < s[j].n
  BY <1>2 DEF Rising
<1> DEFINE At(i) == IF i < m THEN i ELSE i + 1
<1>6. \A i \in 1..Len(q) : At(i) \in 1..Len(s) /\ At(i) # m /\ q[i] = s[At(i)]
  BY <1>2, <1>3
<1>7. \A i, j \in 1..Len(q) : i < j => At(i) < At(j)
  BY <1>2, <1>3
<1> HIDE DEF At
<1>8. Rising(q, 0)
  <2>1. \A i, j \in 1..Len(q) : i < j => q[i].n < q[j].n
    BY <1>5, <1>6, <1>7
  <2> QED
    BY <1>4, <2>1 DEF Rising
<1>9. \A a : Matched(q, a) \subseteq Matched(s, a)
  <2> SUFFICES ASSUME NEW a, NEW k \in Matched(q, a) PROVE k \in Matched(s, a)
    OBVIOUS
  <2>1. PICK i \in 1..Len(q) : FTBU_match_mask(q[i].ev, a) /\ k = q[i].n
    BY <1>3, MatchedIn
  <2> QED
    BY <1>6, <2>1, MatchedIn
<1>10. s[m].n \in Matched(s, mask)
  BY <1>1 DEF Matched
<1>11. ASSUME NEW k \in Matched(q, mask) PROVE s[m].n < k
  <2>1. PICK i \in 1..Len(q) : FTBU_match_mask(q[i].ev, mask) /\ k = q[i].n
    BY <1>3, MatchedIn
  <2>2. At(i) \in Fitting(s, mask) /\ At(i) # m /\ At(i) \in 1..Len(s)
    BY <1>2, <1>6, <2>1 DEF Fitting
  <2>3. m < At(i)
    BY <1>1, <1>2, <2>2
  <2> QED
    BY <1>2, <1>5, <1>6, <2>1, <2>2, <2>3
<1> QED
  BY <1>8, <1>9, <1>10, <1>11 DEF q, m, Below

LEMMA RisingQueued ==
  ASSUME NEW S, NEW s \in Seq(S), NEW x \in S, Rising(s, 0), 0 < x.n, Below(Numbers(s, 0), {x.n})
  PROVE  LET q == Queued(WithRoom(s), x) IN
         /\ Rising(q, 0) /\ Numbers(q, 0) \subseteq Numbers(s, 0) \cup {x.n}
         /\ \A mask : Matched(q, mask) \subseteq Matched(s, mask) \cup {x.n}
<1> DEFINE room == WithRoom(s)
<1>1. /\ room \in Seq(S) /\ Rising(room, 0) /\ Numbers(room, 0) \subseteq Numbers(s, 0)
      /\ \A mask : Matched(room, mask) \subseteq Matched(s, mask)
  <2>1. CASE Len(s) = QueueLen
    <3>1. s # <<>>
      BY <2>1, QueueLenType
    <3>2. /\ Tail(s) \in Seq(S) /\ Rising(Tail(s), 0) /\ Numbers(Tail(s), 0) \subseteq Numbers(s, 0)
          /\ \A mask : Matched(Tail(s), mask) \subseteq Matched(s, mask)
      BY <3>1, TailShape, RisingTail, NumbersTail, MatchedTail
    <3> QED
      BY <2>1, <3>2 DEF WithRoom
  <2>2. CASE Len(s) # QueueLen
    BY <2>2 DEF WithRoom
  <2> QED
    BY <2>1, <2>2
<1> HIDE DEF room
<1> DEFINE q == Append(room, x)
<1>2. Len(room) >= 0 /\ 0 \in 0..1
  BY <1>1, SeqShape
<1>3. Below(Numbers(room, 0), {x.n})
  BY <1>1 DEF Below
<1>4. Rising(q, 0)
  BY <1>1, <1>2, <1>3, RisingAppended
<1>5. Numbers(q, 0) = Numbers(room, 0) \cup ({x.n} \ {0})
  BY <1>1, <1>2, NumbersAppended
<1>6. \A mask : Matched(q, mask) \subseteq Matched(room, mask) \cup {x.n}
  BY <1>1, MatchedAppended
<1>7. q = Queued(WithRoom(s), x)
  BY DEF q, room, Queued
<1> HIDE DEF q
<1> QED
  BY <1>1, <1>4, <1>5, <1>6, <1>7

-----------------------------------------------------------------------------
(* The order of the events: those in the hands of a thread were sent       *)
(* before those that are unread, those in a queue or handed out before     *)
(* both, and those handed out before the ones in the queues that the same  *)
(* callbacks or the same subscription wait for.                            *)

Kept == {Queue(h) : h \in Handle} \cup {Pending(h) : h \in Handle} \cup {Out(h) : h \in Handle}

InFront ==
  /\ \A t \in Thread : Below(Held[Hand(t)], Held[Stream])
  /\ \A c \in Kept : Below(Held[c], Held[Stream]) /\ \A t \in Thread : Below(Held[c], Held[Hand(t)])

InTurn(o) ==
  \A i, j \in DOMAIN o :
    i < j /\ o[i].how = o[j].how /\ o[i].mask = o[j].mask => o[i].n < o[j].n

HandedFirst(o, called, queue) ==
  \A i \in DOMAIN o :
    /\ o[i].how = "callback" => Below({o[i].n}, called)
    /\ o[i].how = "polling" => Below({o[i].n}, Matched(queue, o[i].mask))

HandleOrder(h) ==
  /\ Rising(info[h].queue, 0) /\ Rising(info[h].pending, CalledWith(h))
  /\ HandedFirst(out[h], Held[Pending(h)], info[h].queue)
  /\ InTurn(out[h])

Ordered == Rising(stream, 0) /\ InFront /\ \A h \in Handle : HandleOrder(h)

OrderInv ==
  /\ InOrder
  /\ undefined = "no" => SoleInv /\ (Sole => Ordered)

(* Fewer events are in order, too.                                         *)
LEMMA Fewer ==
  ASSUME NEW o, NEW called, NEW queue, NEW called2, NEW queue2, HandedFirst(o, called, queue),
         called2 \subseteq called, \A mask : Matched(queue2, mask) \subseteq Matched(queue, mask)
  PROVE  HandedFirst(o, called2, queue2)
BY DEF HandedFirst, Below

LEMMA NoneMatched == \A mask : Matched(<<>>, mask) = {}
BY DEF Matched, Fitting

LEMMA KeptCells ==
  /\ \A h \in Handle : {Queue(h), Pending(h), Out(h)} \subseteq Kept
  /\ \A c \in Kept : c \in Cell /\ \E h \in Handle : c \in {Queue(h), Pending(h), Out(h)}
BY Cells DEF Kept

LEMMA FrontFewer ==
  ASSUME InFront, Held'[Stream] \subseteq Held[Stream],
         \A t \in Thread : Held'[Hand(t)] \subseteq Held[Hand(t)],
         \A c \in Kept : Held'[c] \subseteq Held[c]
  PROVE  InFront'
<1>1. \A t \in Thread : Below(Held'[Hand(t)], Held'[Stream])
  BY DEF InFront, Below
<1>2. \A c \in Kept : /\ Below(Held'[c], Held'[Stream])
                      /\ \A t \in Thread : Below(Held'[c], Held'[Hand(t)])
  BY DEF InFront, Below
<1> QED
  BY <1>1, <1>2 DEF InFront, Kept

LEMMA QuietOrder ==
  ASSUME Ordered, Quiet
  PROVE  Ordered'
<1>1. Held'[Stream] \subseteq Held[Stream]
  BY HeldAt, HeldAtNext, NoNumbers DEF Quiet
<1>2. \A t \in Thread : Held'[Hand(t)] \subseteq Held[Hand(t)]
  BY HeldAt, HeldAtNext DEF Quiet, EOF
<1>3. ASSUME NEW h \in Handle
      PROVE  /\ Held'[Out(h)] = Held[Out(h)]
             /\ Held'[Queue(h)] \subseteq Held[Queue(h)]
             /\ Held'[Pending(h)] \subseteq Held[Pending(h)]
  <2>1. CalledWith(h)' \in 0..1
    BY DEF CalledWith
  <2>2. Numbers(<<>>, CalledWith(h)') = {} /\ Numbers(<<>>, 0) = {}
    BY <2>1, NoNumbers
  <2> QED
    BY <2>2, HeldAt, HeldAtNext DEF Quiet
<1>4. InFront'
  BY <1>1, <1>2, <1>3, KeptCells, FrontFewer DEF Ordered
<1>5. Rising(<<>>, 0) /\ Rising(<<>>, 1)
  BY DEF Rising
<1>6. ASSUME NEW h \in Handle PROVE HandleOrder(h)'
  <2>1. HandleOrder(h) /\ out'[h] = out[h]
    BY DEF Ordered, Quiet
  <2>2. Rising(info'[h].queue, 0)
    BY <1>5, <2>1 DEF Quiet, HandleOrder
  <2>3. Rising(info'[h].pending, CalledWith(h)')
    <3>1. CalledWith(h)' \in 0..1
      BY DEF CalledWith
    <3>2. CalledWith(h)' = 0 \/ CalledWith(h)' = 1
      BY <3>1
    <3> QED
      BY <1>5, <2>1, <3>2 DEF Quiet, HandleOrder
  <2>4. \A mask : Matched(info'[h].queue, mask) \subseteq Matched(info[h].queue, mask)
    BY NoneMatched DEF Quiet
  <2>5. HandedFirst(out'[h], Held'[Pending(h)], info'[h].queue)
    BY <1>3, <2>1, <2>4, Fewer DEF HandleOrder
  <2> QED
    BY <2>1, <2>2, <2>3, <2>5 DEF HandleOrder
<1>7. Rising(stream', 0)
  BY <1>5 DEF Quiet, Ordered
<1> QED
  BY <1>4, <1>6, <1>7 DEF Ordered

LEMMA OrderStays ==
  ASSUME NEW h \in Handle, HandleOrder(h), Same(h), out'[h] = out[h], CalledWith(h)' = CalledWith(h)
  PROVE  /\ HandleOrder(h)'
         /\ \A c \in {Queue(h), Pending(h), Out(h)} : Held'[c] = Held[c]
<1>1. \A c \in {Queue(h), Pending(h), Out(h)} : Held'[c] = Held[c]
  BY HeldChanges DEF Same
<1>2. Held'[Pending(h)] = Held[Pending(h)]
  BY <1>1
<1>3. HandleOrder(h)'
  BY <1>2 DEF HandleOrder, Same
<1> QED
  BY <1>1, <1>3

LEMMA Positive ==
  ASSUME TypeInv
  PROVE  /\ \A x \in Item : x.n \in Nat
         /\ \A h \in Handle : \A i \in DOMAIN out[h] : out[h][i].n \in Held[Out(h)]
<1>1. scenario.events \in Nat
  BY PastType DEF TypeInv
<1>2. \A x \in Item : x.n \in Nat
  <2>1. \A x \in Item \ {EOF} : x.n \in Nat
    BY <1>1, ItemType DEF Ordinal
  <2> QED
    BY <2>1 DEF EOF
<1>3. ASSUME NEW h \in Handle, NEW i \in DOMAIN out[h] PROVE out[h][i].n \in Held[Out(h)]
  <2>1. out[h] \in Seq(Handed)
    BY EventTypes
  <2>2. DOMAIN out[h] = 1..Len(out[h]) /\ out[h][i] \in Handed
    BY <2>1, SeqShape
  <2>3. out[h][i].n # 0
    BY <1>1, <2>2 DEF Handed, Ordinal
  <2>4. i > 0
    BY <2>2
  <2> QED
    BY <2>3, <2>4, HeldAt DEF Numbers
<1> QED
  BY <1>2, <1>3

LEMMA TakesOrder ==
  ASSUME TypeInv, Ordered, NEW t \in Thread, Takes(t)
  PROVE  Ordered'
<1>1. stream \in Seq(Item) /\ stream # <<>> /\ stream' = Tail(stream) /\ Rising(stream, 0)
  BY EventTypes DEF Takes, Ordered
<1>2. /\ Numbers(stream', 0) = Numbers(stream, 1)
      /\ Numbers(stream, 0) = Numbers(stream, 1) \cup ({Head(stream).n} \ {0})
      /\ Below({Head(stream).n}, Numbers(stream, 1)) /\ Rising(stream', 0)
  BY <1>1, NumbersTail, RisingTail
<1>3. /\ Held'[Stream] = Numbers(stream, 1) /\ Held'[Stream] \subseteq Held[Stream]
      /\ Held'[Hand(t)] = {Head(stream).n} \ {0} /\ Held'[Hand(t)] \subseteq Held[Stream]
      /\ \A u \in Thread \ {t} : Held'[Hand(u)] = Held[Hand(u)]
  <2>1. Held'[Stream] = Numbers(stream, 1) /\ Held[Stream] = Numbers(stream, 1) \cup ({Head(stream).n} \ {0})
    BY <1>2, HeldAt, HeldAtNext
  <2>2. Held'[Hand(t)] = {Head(stream).n} \ {0}
    BY HeldAtNext DEF Takes
  <2>3. \A u \in Thread \ {t} : Held'[Hand(u)] = Held[Hand(u)]
    BY HeldChanges DEF Takes, OtherHands
  <2> QED
    BY <2>1, <2>2, <2>3
<1>4. \A h \in Handle : HandleOrder(h)' /\ \A c \in {Queue(h), Pending(h), Out(h)} : Held'[c] = Held[c]
  BY OrderStays DEF Takes, Ordered
<1>5. \A c \in Kept : Held'[c] = Held[c]
  BY <1>4, KeptCells
<1>6. \A u \in Thread : Below(Held'[Hand(u)], Held'[Stream])
  <2>1. Below(Held'[Hand(t)], Held'[Stream])
    BY <1>2, <1>3 DEF Below
  <2>2. \A u \in Thread \ {t} : Below(Held'[Hand(u)], Held'[Stream])
    BY <1>3 DEF Below, Ordered, InFront
  <2> QED
    BY <2>1, <2>2
<1>7. \A c \in Kept : /\ Below(Held'[c], Held'[Stream])
                      /\ \A u \in Thread : Below(Held'[c], Held'[Hand(u)])
  <2> SUFFICES ASSUME NEW c \in Kept
               PROVE  /\ Below(Held'[c], Held'[Stream])
                      /\ \A u \in Thread : Below(Held'[c], Held'[Hand(u)])
    OBVIOUS
  <2>1. Below(Held[c], Held[Stream]) /\ \A u \in Thread : Below(Held[c], Held[Hand(u)])
    BY DEF Ordered, InFront
  <2>2. Below(Held'[c], Held'[Stream]) /\ Below(Held'[c], Held'[Hand(t)])
    BY <1>3, <1>5, <2>1 DEF Below
  <2>3. \A u \in Thread \ {t} : Below(Held'[c], Held'[Hand(u)])
    BY <1>3, <1>5, <2>1
  <2> QED
    BY <2>2, <2>3
<1>8. InFront'
  BY <1>6, <1>7 DEF InFront, Kept
<1> QED
  BY <1>2, <1>4, <1>8 DEF Ordered

LEMMA SentOrder ==
  ASSUME TypeInv, PlaceInv, Ordered, Sent
  PROVE  Ordered'
<1>1. PICK x \in Item : stream' = Append(stream, x) /\ (x = EOF \/ x.n = arrivals + 1)
  BY DEF Sent
<1>2. /\ stream \in Seq(Item) /\ 0 \in 0..1 /\ Len(stream) >= 0 /\ x.n \in Nat /\ EOF.n = 0
      /\ arrivals \in Nat
  <2>1. stream \in Seq(Item) /\ EOF.n = 0 /\ x.n \in Nat
    BY <1>1, EventTypes, Positive
  <2>2. Len(stream) \in Nat
    BY <2>1, SeqShape
  <2>3. arrivals \in 0..scenario.events /\ scenario.events \in Nat
    BY PastType DEF TypeInv, PastOK
  <2> QED
    BY <2>1, <2>2, <2>3
<1>3. ASSUME x.n # 0, NEW c \in Cell PROVE Below(Held[c], {x.n})
  <2>1. x.n = arrivals + 1 /\ Held[c] \subseteq 1..arrivals
    BY <1>1, <1>2, <1>3 DEF PlaceInv, Parted
  <2> QED
    BY <1>2, <2>1 DEF Below
<1>4. Numbers(stream', 0) = Numbers(stream, 0) \cup ({x.n} \ {0})
  BY <1>1, <1>2, NumbersAppended
<1>5. Rising(stream', 0)
  <2>1. x.n # 0 => 0 < x.n /\ Below(Numbers(stream, 0), {x.n})
    <3>1. x.n # 0 => Below(Held[Stream], {x.n})
      BY <1>3, Cells
    <3>2. x.n # 0 => 0 < x.n
      BY <1>2
    <3> QED
      BY <3>1, <3>2, HeldAt
  <2> QED
    BY <1>1, <1>2, <2>1, RisingAppended DEF Ordered
<1>6. \A h \in Handle : HandleOrder(h)' /\ \A c \in {Queue(h), Pending(h), Out(h)} : Held'[c] = Held[c]
  BY OrderStays DEF Sent, Ordered
<1>7. \A c \in Kept : Held'[c] = Held[c]
  BY <1>6, KeptCells
<1>8. \A t \in Thread : Held'[Hand(t)] = Held[Hand(t)]
  BY HeldChanges DEF Sent, SameHands
<1>9. Held'[Stream] = Held[Stream] \cup ({x.n} \ {0})
  BY <1>4, HeldAt, HeldAtNext
<1>10. ASSUME NEW c \in Cell, Held'[c] = Held[c], Below(Held[c], Held[Stream])
       PROVE  Below(Held'[c], Held'[Stream])
  BY <1>3, <1>9, <1>10 DEF Below
<1>11. InFront'
  <2>1. \A t \in Thread : Below(Held'[Hand(t)], Held'[Stream])
    BY <1>8, <1>10, Cells DEF Ordered, InFront
  <2>2. \A c \in Kept : /\ Below(Held'[c], Held'[Stream])
                        /\ \A t \in Thread : Below(Held'[c], Held'[Hand(t)])
    BY <1>7, <1>8, <1>10, KeptCells DEF Ordered, InFront
  <2> QED
    BY <2>1, <2>2 DEF InFront, Kept
<1> QED
  BY <1>5, <1>6, <1>11 DEF Ordered

(* A thread that puts its event into a queue was the only one with any.    *)
LEMMA PutsOrder ==
  ASSUME TypeInv, Ordered, OneHand, NEW t \in Thread, Puts(t)
  PROVE  Ordered'
<1>0. PICK item \in Item \ {EOF} : item = th[t].item /\ item.to \in Handle
  BY DEF Puts
<1>01. PICK k \in Handle : k = item.to
  BY <1>0
<1>02. PICK n \in Nat : n = item.n /\ n # 0 /\ 0 < n
  BY <1>0, EventTypes, Positive
<1>1. /\ th'[t].item = EOF /\ OtherHands(t) /\ stream' = stream
      /\ \A h \in Handle : out'[h] = out[h] /\ CalledWith(h)' = CalledWith(h) /\ (h # k => Same(h))
      /\ \/ info'[k].pending = Append(info[k].pending, item) /\ info'[k].queue = info[k].queue
         \/ /\ info'[k].queue = Queued(WithRoom(info[k].queue), item)
            /\ info'[k].pending = info[k].pending
  BY <1>0, <1>01 DEF Puts
<1>2. Held[Hand(t)] = {n}
  BY <1>0, <1>02, HeldAt
<1>3. \A u \in Thread : Held'[Hand(u)] = {}
  <2>1. th[t].item # EOF
    BY <1>0
  <2>2. \A u \in Thread : th'[u].item = EOF
    BY <1>1, <2>1 DEF OneHand, OtherHands
  <2> QED
    BY <2>2, HeldAtNext, EventTypes
<1>4. Held'[Stream] = Held[Stream] /\ Below({n}, Held[Stream])
  BY <1>1, <1>2, HeldChanges DEF Ordered, InFront
<1>5. \A c \in Kept : Below(Held[c], Held[Stream]) /\ Below(Held[c], {n})
  BY <1>2 DEF Ordered, InFront
<1>6. \A h \in Handle \ {k} : HandleOrder(h)' /\ \A c \in {Queue(h), Pending(h), Out(h)} : Held'[c] = Held[c]
  BY <1>1, OrderStays DEF Ordered
<1>7. /\ HandleOrder(k) /\ info[k].pending \in Seq(Item \ {EOF}) /\ info[k].queue \in Seq(Item \ {EOF})
      /\ CalledWith(k) \in 0..1 /\ Len(info[k].pending) >= CalledWith(k)
      /\ Held[Queue(k)] = Numbers(info[k].queue, 0)
      /\ Held[Pending(k)] = Numbers(info[k].pending, CalledWith(k))
      /\ Below(Held[Queue(k)], {n}) /\ Below(Held[Pending(k)], {n}) /\ Below(Held[Out(k)], {n})
  BY <1>1, <1>5, EventTypes, HeldAt, KeptCells DEF Ordered
<1>8. /\ out'[k] = out[k] /\ CalledWith(k)' = CalledWith(k) /\ Held'[Out(k)] = Held[Out(k)]
      /\ \A i \in DOMAIN out[k] : Below({out[k][i].n}, {n})
  <2>1. \A i \in DOMAIN out[k] : out[k][i].n \in Held[Out(k)]
    BY Positive
  <2> QED
    BY <1>1, <1>7, <2>1, HeldChanges DEF Below
<1>9. /\ HandleOrder(k)' /\ Held'[Queue(k)] \subseteq Held[Queue(k)] \cup {n}
      /\ Held'[Pending(k)] \subseteq Held[Pending(k)] \cup {n}
  <2>1. CASE info'[k].pending = Append(info[k].pending, item) /\ info'[k].queue = info[k].queue
    <3> DEFINE p == info[k].pending
               from == CalledWith(k)
    <3>1. p \in Seq(Item \ {EOF}) /\ from \in 0..1 /\ Len(p) >= from /\ Rising(p, from)
      BY <1>7 DEF HandleOrder
    <3>2. Below(Numbers(p, from), {n})
      BY <1>7
    <3> HIDE DEF p, from
    <3>3. Rising(Append(p, item), from) /\ Numbers(Append(p, item), from) = Numbers(p, from) \cup ({n} \ {0})
      BY <1>1, <3>1, <3>2, RisingAppended, NumbersAppended, <1>02
    <3>4. Rising(info'[k].pending, CalledWith(k)') /\ Held'[Pending(k)] = Held[Pending(k)] \cup {n}
      <4>1. info'[k].pending = Append(p, item) /\ CalledWith(k)' = from
        BY <1>8, <2>1 DEF p, from
      <4>2. Held'[Pending(k)] = Numbers(info'[k].pending, CalledWith(k)')
        BY HeldAtNext
      <4>3. Held[Pending(k)] = Numbers(p, from) /\ {n} \ {0} = {n}
        BY <1>02, <1>7 DEF p, from
      <4> QED
        BY <3>3, <4>1, <4>2, <4>3
    <3>5. HandedFirst(out[k], Held[Pending(k)] \cup {n}, info[k].queue)
      BY <1>7, <1>8 DEF HandleOrder, HandedFirst, Below
    <3>6. HandedFirst(out'[k], Held'[Pending(k)], info'[k].queue)
      BY <1>8, <2>1, <3>4, <3>5
    <3>7. Held'[Queue(k)] = Held[Queue(k)]
      BY <1>1, <2>1, HeldChanges
    <3> QED
      BY <1>7, <1>8, <2>1, <3>4, <3>6, <3>7 DEF HandleOrder
  <2>2. CASE /\ info'[k].queue = Queued(WithRoom(info[k].queue), item)
             /\ info'[k].pending = info[k].pending
    <3> DEFINE q == info[k].queue
               r == Queued(WithRoom(q), item)
    <3>1. q \in Seq(Item \ {EOF}) /\ Rising(q, 0) /\ Below(Numbers(q, 0), {n})
      BY <1>7 DEF HandleOrder
    <3> HIDE DEF q
    <3>2. /\ Rising(r, 0) /\ Numbers(r, 0) \subseteq Numbers(q, 0) \cup {n}
          /\ \A mask : Matched(r, mask) \subseteq Matched(q, mask) \cup {n}
      BY <1>02, <3>1, RisingQueued
    <3> HIDE DEF r
    <3>3. info'[k].queue = r
      BY <2>2 DEF r, q
    <3>4. Held'[Pending(k)] = Held[Pending(k)]
      BY <1>1, <1>8, <2>2, HeldChanges
    <3>5. Held'[Queue(k)] = Numbers(r, 0)
      BY <1>1, <3>3, HeldAtNext
    <3>6. HandedFirst(out[k], Held[Pending(k)], q)
      BY <1>7 DEF HandleOrder, q
    <3>7. HandedFirst(out[k], Held[Pending(k)], r)
      BY <1>8, <3>2, <3>6 DEF HandedFirst, Below
    <3>8. Rising(info'[k].pending, CalledWith(k)')
      BY <1>7, <1>8, <2>2 DEF HandleOrder
    <3>9. Held'[Queue(k)] \subseteq Held[Queue(k)] \cup {n}
      BY <1>7, <3>2, <3>5 DEF q
    <3> QED
      BY <1>7, <1>8, <3>2, <3>3, <3>4, <3>7, <3>8, <3>9 DEF HandleOrder
  <2> QED
    BY <1>1, <2>1, <2>2
<1>10. \A c \in Kept : Held'[c] \subseteq Held[c] \cup {n}
  BY <1>6, <1>8, <1>9, KeptCells
<1>11. \A c \in Kept : Below(Held'[c], Held'[Stream])
  BY <1>4, <1>5, <1>10 DEF Below
<1>12. InFront'
  BY <1>3, <1>11 DEF InFront, Below, Kept
<1>13. Rising(stream', 0)
  BY <1>1 DEF Ordered
<1> QED
  BY <1>6, <1>9, <1>12, <1>13 DEF Ordered

(* What is handed out next was sent after what was handed out alike.       *)
LEMMA InTurnAppended ==
  ASSUME NEW S, NEW o \in Seq(S), NEW e \in S, InTurn(o),
         \A i \in DOMAIN o : o[i].how = e.how /\ o[i].mask = e.mask => o[i].n < e.n
  PROVE  InTurn(Append(o, e))
<1> DEFINE q == Append(o, e)
<1>1. /\ q \in Seq(S) /\ Len(q) = Len(o) + 1 /\ Len(o) \in Nat /\ DOMAIN o = 1..Len(o)
      /\ \A i \in 1..Len(o) : q[i] = o[i]
      /\ q[Len(o) + 1] = e
  BY AppendShape, SeqShape
<1> HIDE DEF q
<1>2. DOMAIN q = 1..Len(q)
  BY <1>1, SeqShape
<1> SUFFICES ASSUME NEW i \in 1..Len(q), NEW j \in 1..Len(q), i < j, q[i].how = q[j].how,
                    q[i].mask = q[j].mask
             PROVE  q[i].n < q[j].n
  BY <1>2 DEF InTurn, q
<1>3. i \in 1..Len(o)
  BY <1>1
<1>4. CASE j \in 1..Len(o)
  BY <1>1, <1>3, <1>4 DEF InTurn
<1>5. CASE j = Len(o) + 1
  BY <1>1, <1>3, <1>5
<1> QED
  BY <1>1, <1>4, <1>5

LEMMA HandedFirstAppended ==
  ASSUME NEW S, NEW o \in Seq(S), NEW e \in S, NEW called, NEW queue,
         HandedFirst(o, called, queue),
         e.how = "callback" => Below({e.n}, called),
         e.how = "polling" => Below({e.n}, Matched(queue, e.mask))
  PROVE  HandedFirst(Append(o, e), called, queue)
<1> DEFINE q == Append(o, e)
<1>1. /\ q \in Seq(S) /\ Len(q) = Len(o) + 1 /\ Len(o) \in Nat /\ DOMAIN o = 1..Len(o)
      /\ \A i \in 1..Len(o) : q[i] = o[i]
      /\ q[Len(o) + 1] = e
  BY AppendShape, SeqShape
<1> HIDE DEF q
<1>2. DOMAIN q = 1..Len(q)
  BY <1>1, SeqShape
<1>3. \A i \in DOMAIN q : q[i] = e \/ \E j \in DOMAIN o : q[i] = o[j]
  BY <1>1, <1>2
<1>4. HandedFirst(q, called, queue)
  BY <1>3 DEF HandedFirst
<1> QED
  BY <1>4 DEF q

LEMMA HandsOutOrder ==
  ASSUME TypeInv, Ordered, NEW k \in Handle, NEW mask, HandsOut(k, mask)
  PROVE  Ordered'
<1> DEFINE queue == info[k].queue
           m == Min(Fitting(queue, mask))
<1>1. /\ stream' = stream /\ SameHands
      /\ \A h \in Handle : /\ info'[h].pending = info[h].pending /\ CalledWith(h)' = CalledWith(h)
                           /\ h # k => Same(h) /\ out'[h] = out[h]
  BY DEF HandsOut
<1>02. /\ Fitting(queue, mask) # {} /\ info'[k].queue = RemoveAt(queue, m)
      /\ out'[k] = Append(out[k], [how |-> "polling", mask |-> mask, n |-> queue[m].n])
  BY DEF HandsOut
<1>2. /\ HandleOrder(k) /\ queue \in Seq(Item \ {EOF}) /\ Rising(queue, 0)
      /\ \A x \in Item \ {EOF} : x.n # 0
  BY EventTypes DEF Ordered, HandleOrder
<1>3. PICK q, n : q = RemoveAt(queue, m) /\ n = queue[m].n
  OBVIOUS
<1>4. /\ Rising(q, 0) /\ \A a : Matched(q, a) \subseteq Matched(queue, a)
      /\ n \in Matched(queue, mask) /\ Below({n}, Matched(q, mask))
  BY <1>02, <1>2, <1>3, FirstMatched
<1>5. Numbers(q, 0) \subseteq Numbers(queue, 0) /\ n \in Numbers(queue, 0)
  <2>1. m \in 1..Len(queue)
    BY <1>02, <1>2, FittingType
  <2> HIDE DEF queue, m
  <2>2. queue[m] \in Item \ {EOF} /\ Len(queue) \in Nat /\ DOMAIN queue = 1..Len(queue)
    BY <1>2, <2>1, SeqShape
  <2>3. n \in Numbers(queue, 0)
    BY <1>2, <1>3, <2>1, <2>2 DEF Numbers
  <2>4. /\ q \in Seq(Item \ {EOF}) /\ Len(q) = Len(queue) - 1
        /\ \A i \in 1..Len(queue)-1 : q[i] = IF i < m THEN queue[i] ELSE queue[i + 1]
    BY <1>2, <1>3, <2>1, RemoveShape
  <2>5. DOMAIN q = 1..Len(q)
    BY <2>4, SeqShape
  <2>6. \A i \in DOMAIN q : \E j \in DOMAIN queue : j > 0 /\ q[i] = queue[j]
    <3> SUFFICES ASSUME NEW i \in 1..Len(q) PROVE \E j \in DOMAIN queue : j > 0 /\ q[i] = queue[j]
      BY <2>5
    <3>1. CASE i < m
      <4>1. i \in 1..Len(queue) /\ i > 0 /\ q[i] = queue[i]
        BY <2>2, <2>4, <3>1
      <4> QED
        BY <2>2, <4>1
    <3>2. CASE ~ (i < m)
      <4>1. i + 1 \in 1..Len(queue) /\ i + 1 > 0 /\ q[i] = queue[i+1]
        BY <2>2, <2>4, <3>2
      <4> QED
        BY <2>2, <4>1
    <3> QED
      BY <3>1, <3>2
  <2>7. Numbers(q, 0) \subseteq Numbers(queue, 0)
    BY <2>6 DEF Numbers
  <2> QED
    BY <2>3, <2>7
<1> DEFINE e == [how |-> "polling", mask |-> mask, n |-> n]
<1>6. out'[k] = Append(out[k], e) /\ info'[k].queue = q
  BY <1>02, <1>3
<1>7. /\ Held[Queue(k)] = Numbers(queue, 0) /\ Held'[Queue(k)] = Numbers(q, 0)
      /\ Held'[Stream] = Held[Stream] /\ \A u \in Thread : Held'[Hand(u)] = Held[Hand(u)]
      /\ Held'[Pending(k)] = Held[Pending(k)]
  <2>1. Held[Queue(k)] = Numbers(queue, 0) /\ Held'[Queue(k)] = Numbers(info'[k].queue, 0)
    BY HeldAt, HeldAtNext
  <2>2. Held'[Stream] = Held[Stream] /\ \A u \in Thread : Held'[Hand(u)] = Held[Hand(u)]
    BY <1>1, HeldChanges DEF SameHands
  <2>3. info'[k].pending = info[k].pending /\ CalledWith(k)' = CalledWith(k)
    BY <1>1
  <2>4. Held'[Pending(k)] = Held[Pending(k)]
    BY <2>3, HeldChanges
  <2> QED
    BY <1>6, <2>1, <2>2, <2>4
<1>8. n \in Held[Queue(k)] /\ Held'[Queue(k)] \subseteq Held[Queue(k)]
  BY <1>5, <1>7
<1> HIDE DEF queue, m
<1>9. \A h \in Handle \ {k} : HandleOrder(h)' /\ \A c \in {Queue(h), Pending(h), Out(h)} : Held'[c] = Held[c]
  <2> SUFFICES ASSUME NEW h \in Handle \ {k}
               PROVE  HandleOrder(h)' /\ \A c \in {Queue(h), Pending(h), Out(h)} : Held'[c] = Held[c]
    OBVIOUS
  <2>1. Same(h) /\ out'[h] = out[h] /\ CalledWith(h)' = CalledWith(h) /\ HandleOrder(h)
    BY <1>1 DEF Ordered
  <2> QED
    BY <2>1, OrderStays
<1> DEFINE T == Handed \cup {e}
<1>10. out[k] \in Seq(T) /\ e \in T
  <2>1. out[k] \in Seq(Handed)
    BY EventTypes
  <2> QED
    BY <2>1
<1> HIDE DEF T
<1>11. e.how = "polling" /\ e.mask = mask /\ e.n = n
  OBVIOUS
<1> HIDE DEF e
<1>12. Held'[Out(k)] \subseteq Held[Out(k)] \cup {n}
  <2>1. 0 \in 0..1 /\ Len(out[k]) >= 0
    BY <1>10, SeqShape
  <2>2. Numbers(Append(out[k], e), 0) = Numbers(out[k], 0) \cup ({e.n} \ {0})
    BY <1>10, <2>1, NumbersAppended
  <2> QED
    <3>1. Held[Out(k)] = Numbers(out[k], 0) /\ Held'[Out(k)] = Numbers(out'[k], 0)
      BY HeldAt, HeldAtNext
    <3> QED
      BY <1>6, <1>11, <2>2, <3>1
<1>13. HandleOrder(k)'
  <2>1. HandedFirst(out[k], Held[Pending(k)], q)
    BY <1>2, <1>4, Fewer DEF HandleOrder, queue
  <2>2. HandedFirst(Append(out[k], e), Held[Pending(k)], q)
    BY <1>4, <1>10, <1>11, <2>1, HandedFirstAppended
  <2>3. \A i \in DOMAIN out[k] : out[k][i].how = e.how /\ out[k][i].mask = e.mask => out[k][i].n < e.n
    BY <1>2, <1>4, <1>11 DEF HandleOrder, HandedFirst, Below, queue
  <2>4. InTurn(Append(out[k], e))
    BY <1>2, <1>10, <2>3, InTurnAppended DEF HandleOrder
  <2>5. Rising(info'[k].pending, CalledWith(k)')
    <3>1. info'[k].pending = info[k].pending /\ CalledWith(k)' = CalledWith(k)
      BY <1>1
    <3>2. Rising(info[k].pending, CalledWith(k))
      BY <1>2 DEF HandleOrder
    <3> QED
      BY <3>1, <3>2
  <2> QED
    BY <1>4, <1>6, <1>7, <2>2, <2>4, <2>5 DEF HandleOrder
<1>14. InFront'
  <2>1. ASSUME NEW c \in Kept PROVE \E d \in Kept : Held'[c] \subseteq Held[c] \cup Held[d]
    <3>1. PICK h \in Handle : c \in {Queue(h), Pending(h), Out(h)}
      BY KeptCells
    <3>2. CASE h # k
      BY <1>9, <3>1, <3>2
    <3>3. CASE h = k
      <4>1. Queue(k) \in Kept
        BY KeptCells
      <4>2. Held'[c] \subseteq Held[c] \cup Held[Queue(k)]
        BY <1>7, <1>8, <1>12, <3>1, <3>3
      <4> QED
        BY <4>1, <4>2
    <3> QED
      BY <3>2, <3>3
  <2>2. \A c \in Kept : /\ Below(Held'[c], Held'[Stream])
                        /\ \A u \in Thread : Below(Held'[c], Held'[Hand(u)])
    BY <1>7, <2>1 DEF Ordered, InFront, Below
  <2> QED
    BY <1>7, <2>2 DEF Ordered, InFront, Kept
<1>15. Rising(stream', 0)
  BY <1>1 DEF Ordered
<1> QED
  BY <1>9, <1>13, <1>14, <1>15 DEF Ordered

LEMMA CallsBackOrder ==
  ASSUME TypeInv, Ordered, NEW h \in Handle, CallsBack(h)
  PROVE  Ordered'
<1>1. /\ stream' = stream /\ SameHands /\ \A k \in Handle : Same(k)
      /\ \A k \in Handle \ {h} : out'[k] = out[k] /\ CalledWith(k)' = CalledWith(k)
      /\ info[h].pending # <<>> /\ CalledWith(h) = 0 /\ CalledWith(h)' = 1
      /\ info'[h].pending = info[h].pending /\ info'[h].queue = info[h].queue
  BY DEF CallsBack, Same
<1>2. PICK n : /\ n = Head(info[h].pending).n
               /\ out'[h] = Append(out[h], [how |-> "callback", mask |-> NoOne, n |-> n])
  BY DEF CallsBack
<1>3. /\ HandleOrder(h) /\ info[h].pending \in Seq(Item \ {EOF}) /\ Rising(info[h].pending, 0)
      /\ \A x \in Item \ {EOF} : x.n # 0
  BY <1>1, EventTypes DEF Ordered, HandleOrder
<1>4. /\ Rising(info[h].pending, 1) /\ Below({n}, Numbers(info[h].pending, 1))
      /\ Numbers(info[h].pending, 0) = Numbers(info[h].pending, 1) \cup ({n} \ {0}) /\ n # 0
  <2>1. Head(info[h].pending) \in Item \ {EOF}
    BY <1>1, <1>3, TailShape
  <2>2. n # 0
    BY <1>2, <1>3, <2>1
  <2> QED
    BY <1>1, <1>2, <1>3, <2>2, RisingTail, NumbersTail
<1>5. /\ Held[Pending(h)] = Numbers(info[h].pending, 0)
      /\ Held'[Pending(h)] = Numbers(info[h].pending, 1)
      /\ Held'[Queue(h)] = Held[Queue(h)] /\ Held'[Stream] = Held[Stream]
      /\ \A u \in Thread : Held'[Hand(u)] = Held[Hand(u)]
  <2>1. Held[Pending(h)] = Numbers(info[h].pending, CalledWith(h))
    BY HeldAt
  <2>2. Held'[Pending(h)] = Numbers(info'[h].pending, CalledWith(h)')
    BY HeldAtNext
  <2>3. Held'[Queue(h)] = Held[Queue(h)] /\ Held'[Stream] = Held[Stream]
    BY <1>1, HeldChanges
  <2>4. \A u \in Thread : Held'[Hand(u)] = Held[Hand(u)]
    BY <1>1, HeldChanges DEF SameHands
  <2> QED
    BY <1>1, <2>1, <2>2, <2>3, <2>4
<1>6. n \in Held[Pending(h)] /\ Held'[Pending(h)] \subseteq Held[Pending(h)] /\ Below({n}, Held'[Pending(h)])
  BY <1>4, <1>5
<1>7. \A k \in Handle \ {h} : HandleOrder(k)' /\ \A c \in {Queue(k), Pending(k), Out(k)} : Held'[c] = Held[c]
  <2> SUFFICES ASSUME NEW k \in Handle \ {h}
               PROVE  HandleOrder(k)' /\ \A c \in {Queue(k), Pending(k), Out(k)} : Held'[c] = Held[c]
    OBVIOUS
  <2>1. Same(k) /\ out'[k] = out[k] /\ CalledWith(k)' = CalledWith(k) /\ HandleOrder(k)
    BY <1>1 DEF Ordered
  <2> QED
    BY <2>1, OrderStays
<1> DEFINE e == [how |-> "callback", mask |-> NoOne, n |-> n]
           T == Handed \cup {e}
<1>8. out[h] \in Seq(T) /\ e \in T
  <2>1. out[h] \in Seq(Handed)
    BY EventTypes
  <2> QED
    BY <2>1
<1> HIDE DEF T
<1>9. e.how = "callback" /\ e.n = n /\ out'[h] = Append(out[h], e)
  BY <1>2
<1> HIDE DEF e
<1>10. Held'[Out(h)] \subseteq Held[Out(h)] \cup {n}
  <2>1. 0 \in 0..1 /\ Len(out[h]) >= 0
    BY <1>8, SeqShape
  <2>2. Numbers(Append(out[h], e), 0) = Numbers(out[h], 0) \cup ({e.n} \ {0})
    BY <1>8, <2>1, NumbersAppended
  <2>3. Held[Out(h)] = Numbers(out[h], 0) /\ Held'[Out(h)] = Numbers(out'[h], 0)
    BY HeldAt, HeldAtNext
  <2> QED
    BY <1>9, <2>2, <2>3
<1>11. HandleOrder(h)'
  <2>1. HandedFirst(out[h], Held[Pending(h)], info[h].queue) /\ InTurn(out[h])
    BY <1>3 DEF HandleOrder
  <2>2. HandedFirst(out[h], Held'[Pending(h)], info[h].queue)
    BY <1>6, <2>1, Fewer
  <2>3. HandedFirst(Append(out[h], e), Held'[Pending(h)], info[h].queue)
    BY <1>6, <1>8, <1>9, <2>2, HandedFirstAppended
  <2>4. \A i \in DOMAIN out[h] : out[h][i].how = e.how /\ out[h][i].mask = e.mask => out[h][i].n < e.n
    BY <1>6, <1>9, <2>1 DEF HandedFirst, Below
  <2>5. InTurn(Append(out[h], e))
    BY <1>8, <2>1, <2>4, InTurnAppended
  <2>6. Rising(info'[h].pending, CalledWith(h)') /\ Rising(info'[h].queue, 0)
    BY <1>1, <1>3, <1>4 DEF HandleOrder
  <2>7. HandedFirst(out'[h], Held'[Pending(h)], info'[h].queue) /\ InTurn(out'[h])
    BY <1>1, <1>9, <2>3, <2>5
  <2> QED
    BY <2>6, <2>7 DEF HandleOrder
<1>12. InFront'
  <2>1. ASSUME NEW c \in Kept PROVE \E d \in Kept : Held'[c] \subseteq Held[c] \cup Held[d]
    <3>1. PICK k \in Handle : c \in {Queue(k), Pending(k), Out(k)}
      BY KeptCells
    <3>2. CASE k # h
      BY <1>7, <3>1, <3>2
    <3>3. CASE k = h
      <4>1. Pending(h) \in Kept
        BY KeptCells
      <4>2. Held'[c] \subseteq Held[c] \cup Held[Pending(h)]
        BY <1>5, <1>6, <1>10, <3>1, <3>3
      <4> QED
        BY <4>1, <4>2
    <3> QED
      BY <3>2, <3>3
  <2>2. \A c \in Kept : /\ Below(Held'[c], Held'[Stream])
                        /\ \A u \in Thread : Below(Held'[c], Held'[Hand(u)])
    BY <1>5, <2>1 DEF Ordered, InFront, Below
  <2> QED
    BY <1>5, <2>2 DEF Ordered, InFront, Kept
<1>13. Rising(stream', 0)
  BY <1>1 DEF Ordered
<1> QED
  BY <1>7, <1>11, <1>12, <1>13 DEF Ordered

LEMMA ReturnedOrder ==
  ASSUME TypeInv, Ordered, NEW h \in Handle, Returned(h)
  PROVE  Ordered'
<1>1. /\ stream' = stream /\ SameHands
      /\ \A k \in Handle : out'[k] = out[k] /\ info'[k].queue = info[k].queue
      /\ \A k \in Handle \ {h} : info'[k].pending = info[k].pending /\ CalledWith(k)' = CalledWith(k)
      /\ info[h].pending # <<>> /\ CalledWith(h) = 1 /\ CalledWith(h)' = 0
      /\ info'[h].pending = Tail(info[h].pending)
  BY DEF Returned
<1>2. HandleOrder(h) /\ info[h].pending \in Seq(Item \ {EOF}) /\ Rising(info[h].pending, 1)
  BY <1>1, EventTypes DEF Ordered, HandleOrder
<1>3. Rising(info'[h].pending, 0) /\ Numbers(info'[h].pending, 0) = Numbers(info[h].pending, 1)
  BY <1>1, <1>2, RisingTail, NumbersTail
<1>4. /\ \A c \in {Queue(h), Pending(h), Out(h)} : Held'[c] = Held[c]
      /\ Held'[Stream] = Held[Stream] /\ \A u \in Thread : Held'[Hand(u)] = Held[Hand(u)]
  <2>1. Held[Pending(h)] = Numbers(info[h].pending, CalledWith(h))
    BY HeldAt
  <2>2. Held'[Pending(h)] = Numbers(info'[h].pending, CalledWith(h)')
    BY HeldAtNext
  <2>3. Held'[Queue(h)] = Held[Queue(h)] /\ Held'[Stream] = Held[Stream] /\ Held'[Out(h)] = Held[Out(h)]
    BY <1>1, HeldChanges
  <2>4. \A u \in Thread : Held'[Hand(u)] = Held[Hand(u)]
    BY <1>1, HeldChanges DEF SameHands
  <2> QED
    BY <1>1, <1>3, <2>1, <2>2, <2>3, <2>4
<1>5. HandleOrder(h)'
  <2>1. Held'[Pending(h)] = Held[Pending(h)]
    BY <1>4
  <2>2. out'[h] = out[h] /\ info'[h].queue = info[h].queue
    BY <1>1
  <2>3. Rising(info'[h].pending, CalledWith(h)')
    BY <1>1, <1>3
  <2> QED
    BY <1>2, <2>1, <2>2, <2>3 DEF HandleOrder
<1>6. \A k \in Handle \ {h} : HandleOrder(k)' /\ \A c \in {Queue(k), Pending(k), Out(k)} : Held'[c] = Held[c]
  <2> SUFFICES ASSUME NEW k \in Handle \ {h}
               PROVE  HandleOrder(k)' /\ \A c \in {Queue(k), Pending(k), Out(k)} : Held'[c] = Held[c]
    OBVIOUS
  <2>1. Same(k) /\ out'[k] = out[k] /\ CalledWith(k)' = CalledWith(k) /\ HandleOrder(k)
    BY <1>1 DEF Ordered, Same
  <2> QED
    BY <2>1, OrderStays
<1>7. \A c \in Kept : Held'[c] = Held[c]
  <2> SUFFICES ASSUME NEW c \in Kept PROVE Held'[c] = Held[c]
    OBVIOUS
  <2>1. PICK k \in Handle : c \in {Queue(k), Pending(k), Out(k)}
    BY KeptCells
  <2> QED
    BY <1>4, <1>6, <2>1
<1>8. InFront'
  BY <1>4, <1>7, FrontFewer DEF Ordered
<1>9. Rising(stream', 0)
  BY <1>1 DEF Ordered
<1> QED
  BY <1>5, <1>6, <1>8, <1>9 DEF Ordered

-----------------------------------------------------------------------------
(* Where something undefined happens, nothing is handed out.               *)
LEMMA UndefinedEnds ==
  ASSUME Next
  PROVE  scenario' = scenario /\ (out' = out \/ undefined' = undefined)
<1>1. ASSUME NEW t, Proceeds(t) PROVE scenario' = scenario /\ (out' = out \/ undefined' = undefined)
  <2>1. CASE \/ StartThreads(t) \/ Insert(t) \/ Register(t) \/ AddMask(t) \/ SendMask(t)
             \/ DeleteMask(t) \/ CheckProgress(t) \/ Grab(t) \/ GrabNothing(t)
    BY <2>1 DEF StartThreads, Insert, Register, AddMask, SendMask, DeleteMask, CheckProgress, Grab,
                GrabNothing, Read, history, Within, bounds
  <2>2. CASE Receives(t) \/ Scan(t) \/ PollNothing(t)
    BY <2>2 DEF Receives, Lookup, LockHandle, Push, Reconnect, Scan, PollNothing, UnlockAgain,
                history, Within, bounds
  <2>3. CASE Finalize(t) \/ Join(t) \/ JoinedUnlock(t) \/ RemoveHandle(t)
    BY <2>3 DEF Finalize, Join, JoinedUnlock, RemoveHandle, UnlockAgain, history, Within, bounds
  <2> QED
    BY <1>1, <2>1, <2>2, <2>3 DEF Proceeds
<1>2. ASSUME NEW t, \/ \E h \in Handle : Connect(t, h) \/ Disconnect(t, h)
                    \/ \E s \in Subscription : Subscribe(t, s) \/ Unsubscribe(t, s) \/ Poll(t, s)
      PROVE  scenario' = scenario /\ (out' = out \/ undefined' = undefined)
  BY <1>2 DEF Connect, Disconnect, Subscribe, Unsubscribe, Poll, Calls, history
<1>3. RxStep => scenario' = scenario /\ (out' = out \/ undefined' = undefined)
  BY DEF RxStep, LockRecv, Receive, Read, Receives, Lookup, LockHandle, Push, Reconnect, history,
         Within, bounds
<1>4. ASSUME NEW h, CallbackStep(h) \/ \E s \in Subscription : UnsubscribeInCallback(h, s)
      PROVE  scenario' = scenario /\ (out' = out \/ undefined' = undefined)
  BY <1>4 DEF CallbackStep, CallbackWaits, CallbackWakes, Proceed, CallbackEnds, Pick, CallbackReturns,
              FreeUnmatched, DeleteMask, CheckProgress, UnsubscribeInCallback, history, Within, bounds
<1>5. (\E h \in Handle, e \in Event : Arrive(h, e)) \/ Lose
        => scenario' = scenario /\ (out' = out \/ undefined' = undefined)
  BY DEF Arrive, Lose, history
<1> QED
  BY <1>1, <1>2, <1>3, <1>4, <1>5 DEF Next

LEMMA OrderStep ==
  ASSUME TypeInv, TypeInv', EventInv, OrderInv, [Next]_vars
  PROVE  OrderInv'
<1>1. CASE UNCHANGED vars
  <2>1. UNCHANGED <<enable, info, th, stream, out, gone, scenario, undefined>>
    BY <1>1 DEF vars, counts, net, history, bounds
  <2>2. Held' = Held
    BY <2>1 DEF Held, CalledWith
  <2>3. Ordered' = Ordered
    BY <2>1, <2>2 DEF Ordered, InFront, HandleOrder, CalledWith
  <2>4. SoleInv' = SoleInv /\ Sole' = Sole /\ InOrder' = InOrder
    BY <2>1 DEF SoleInv, Sole, InOrder
  <2> QED
    BY <2>1, <2>3, <2>4 DEF OrderInv
<1>2. CASE Next /\ undefined' = "no"
  <2>1. undefined = "no" /\ PlaceInv /\ Effect
    BY <1>2, NextMoves DEF EventInv
  <2>2. SoleInv /\ (Sole => Ordered)
    BY <2>1 DEF OrderInv
  <2>3. SoleInv'
    BY <1>2, <2>2, SoleStep
  <2>4. scenario' = scenario
    BY <1>2, UndefinedEnds
  <2>5. ASSUME Sole PROVE Ordered' /\ InOrder'
    <3>1. Ordered /\ OneHand
      BY <2>2, <2>5, HandsAlone
    <3>2. Ordered'
      BY <2>1, <3>1, QuietOrder, SentOrder, TakesOrder, PutsOrder, CallsBackOrder, ReturnedOrder,
         HandsOutOrder DEF Effect
    <3>3. InOrder'
      BY <3>2 DEF Ordered, HandleOrder, InTurn, InOrder
    <3> QED
      BY <3>2, <3>3
  <2>6. Sole' = Sole
    BY <2>4 DEF Sole
  <2>7. ~ Sole => InOrder'
    BY <2>6 DEF InOrder
  <2> QED
    BY <2>3, <2>5, <2>6, <2>7 DEF OrderInv
<1>3. CASE Next /\ undefined' # "no"
  <2>1. out' = out /\ scenario' = scenario
    BY <1>3, UndefinedEnds, DefinedSoFar
  <2>2. InOrder'
    BY <2>1 DEF OrderInv, InOrder, Sole
  <2> QED
    BY <1>3, <2>2 DEF OrderInv
<1> QED
  BY <1>1, <1>2, <1>3

LEMMA OrderAtFirst ==
  ASSUME Init
  PROVE  OrderInv
<1>1. EventInv
  BY EventsAtFirst
<1>2. /\ stream = <<>> /\ arrivals = 0 /\ scenario \in Scenarios
      /\ \A h \in Handle : out[h] = <<>> /\ info[h].queue = <<>> /\ info[h].pending = <<>>
  <2>1. ASSUME NEW h \in Handle PROVE info[h].queue = <<>> /\ info[h].pending = <<>>
    <3>1. info[h] = [FreshInfo EXCEPT !.polling = BootMap(h, "polling"),
                                      !.callbacks = BootMap(h, "callback")]
      BY DEF Init
    <3>2. FreshInfo \in InfoRecord /\ FreshInfo.queue = <<>> /\ FreshInfo.pending = <<>>
      BY FreshType DEF FreshInfo
    <3> QED
      BY <3>1, <3>2 DEF InfoRecord
  <2> QED
    BY <2>1 DEF Init
<1>3. SoleInv
  <2>1. \A t \in App : th[t] = Idle
    <3>1. \A t \in Thread : th[t] =
            CASE t \in App                                  -> Idle
              [] t = Rx /\ Booted \cap Notified # {}        -> Running("receive")
              [] t \in Booted \cap Notified                 -> Running("start")
              [] OTHER                                      -> NoThread
      BY DEF Init
    <3>2. \A t \in App : t \in Thread /\ t # Rx /\ t \notin Booted \cap Notified
      BY Names DEF Handle
    <3> QED
      BY <3>1, <3>2
  <2>2. Idle.pc = "idle"
    BY DEF Idle, NoThread
  <2> QED
    BY <2>1, <2>2 DEF SoleInv, Grabbing
<1>4. undefined = "no" /\ PlaceInv
  BY <1>1 DEF EventInv, Init
<1>5. \A c \in Cell : Held[c] = {}
  BY <1>2, <1>4 DEF PlaceInv, Parted
<1>6. InFront
  <2>1. \A t \in Thread : Held[Hand(t)] = {}
    BY <1>5, Cells
  <2>2. \A c \in Kept : Held[c] = {}
    BY <1>5, KeptCells
  <2> QED
    BY <2>1, <2>2 DEF InFront, Below
<1>7. \A h \in Handle : HandleOrder(h)
  BY <1>2 DEF HandleOrder, Rising, HandedFirst, InTurn
<1>8. Rising(stream, 0)
  BY <1>2 DEF Rising
<1>9. InOrder
  BY <1>7 DEF HandleOrder, InTurn, InOrder
<1> QED
  BY <1>3, <1>6, <1>7, <1>8, <1>9 DEF OrderInv, Ordered

(* If a single thread makes calls, each subscription is handed its events  *)
(* in the order in which the agent sent them, and so are the callback      *)
(* functions of each handle: whichever of the receiving thread, the        *)
(* callback threads and the caller runs, and also when full queues make    *)
(* room, connections are lost and handles come and go.                     *)
THEOREM ServedInOrder == Spec => []InOrder
<1>1. Init => OrderInv
  BY OrderAtFirst
<1>2. TypeInv /\ TypeInv' /\ EventInv /\ OrderInv /\ [Next]_vars => OrderInv'
  BY OrderStep
<1>3. OrderInv => InOrder
  BY DEF OrderInv
<1> QED
  BY <1>1, <1>2, <1>3, Invariance, EventInvariance, PTL DEF Spec
=============================================================================
