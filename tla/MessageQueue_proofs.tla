-------------------------- MODULE MessageQueue_proofs --------------------------
(***************************************************************************)
(* The message queue, for all connections, messages and losses: FTBM_Recv  *)
(* and the reader never touch a node that was freed, the messages of a     *)
(* connection come in order, and the linked list implements Fifo.          *)
(***************************************************************************)
EXTENDS MessageQueue, Lists_proofs

(* The nodes s are those that can be found from the head of q on.          *)
Linked(q, s) ==
  /\ q.head = IF s = <<>> THEN Nil ELSE s[1]
  /\ \A i \in 1..Len(s) : q.next[s[i]] = IF i = Len(s) THEN Nil ELSE s[i+1]

(* Messages of a connection are in the order they were written.            *)
Ordered(s) ==
  \A i, j \in DOMAIN s : i < j /\ s[i][1] = s[j][1] => s[i][2] < s[j][2]

(* Those in s were written before those in t.                              *)
Before(s, t) ==
  \A m \in ToSet(s), n \in ToSet(t) : m[1] = n[1] => m[2] < n[2]

(* A connection is in the table once, and has not come to its end.         *)
TableInv ==
  /\ table \in Seq(Conn) /\ Distinct(table)
  /\ read \in [Conn -> Nat] /\ \A c \in Conn : read[c] <= Items(c)
  /\ \A c \in ToSet(table) : read[c] \in 1..Sends[c]
  /\ pc \in {"running", "waiting", "woken"} /\ refused \in 0..MaxRefused

(* A CLEANUP_CONN, and nothing else.                                       *)
Lone(s) == Len(s) = 1 /\ s[1] \in Cleanups

(* The reader holds a list with at most one message of each connection. It *)
(* knows where the list ends, but for a lone CLEANUP_CONN.                 *)
BatchInv ==
  /\ batch \in Seq(Node)
  /\ \A i, j \in DOMAIN batch : batch[i][1] = batch[j][1] => i = j
  /\ \A i \in 1..Len(batch) :
       list.next[batch[i]] = IF i = Len(batch) THEN Nil ELSE batch[i+1]
  /\ IF batch = <<>> THEN last = Nil
     ELSE last = IF Lone(batch) THEN Nil ELSE batch[Len(batch)]

(* What was taken, what is listed as s, and what the reader holds follow   *)
(* upon each other.                                                        *)
OrderInv(s) ==
  /\ taken \in Seq(Node) /\ s \in Seq(Node)
  /\ Ordered(taken) /\ Ordered(s)
  /\ Before(taken, s) /\ Before(taken, batch) /\ Before(s, batch)
  /\ \A n \in ToSet(taken) \cup ToSet(s) \cup ToSet(batch) : n[2] <= read[n[1]]

(* Pointers: those of nodes that were not read yet are null.  The tail     *)
(* pointer is at the end of the list, or null, or at a node that is        *)
(* nowhere, after which there is nothing either.                           *)
PointerInv(s) ==
  /\ list \in [head : Node \cup {Nil}, tail : Node \cup {Nil},
               next : [Node -> Node \cup {Nil}]]
  /\ Linked(list, s)
  /\ \A n \in Node : n[2] > read[n[1]] => list.next[n] = Nil
  /\ s = <<>> => list.tail = Nil
  /\ list.tail # Nil =>
       /\ list.next[list.tail] = Nil /\ list.tail[2] <= read[list.tail[1]]
       /\ list.tail \notin ToSet(taken) \cup ToSet(batch)
       /\ list.tail \in ToSet(s) => list.tail = s[Len(s)]

Holds(s) == TableInv /\ BatchInv /\ OrderInv(s) /\ PointerInv(s)

(* The sequence is named, and not computed from the pointers.              *)
IInv == Holds(Listed)

-----------------------------------------------------------------------------
(* Data.                                                                   *)

(* Nodes are pairs of a connection and a place.                            *)
LEMMA NodeShape ==
  /\ \A c \in Conn : Sends[c] \in Nat /\ Sends[c] >= 1
                     /\ Items(c) \in Nat /\ Sends[c] <= Items(c)
                     /\ Items(c) <= Sends[c] + 1 /\ (c \in Lost => Items(c) = Sends[c] + 1)
  /\ \A n \in Node : n[1] \in Conn /\ n[2] \in 1..Items(n[1]) /\ n = <<n[1], n[2]>>
  /\ \A c \in Conn, k \in Nat : k \in 1..Items(c) => <<c, k>> \in Node
<1>1. \A c \in Conn : Sends[c] \in Nat /\ Sends[c] >= 1
                     /\ Items(c) \in Nat /\ Sends[c] <= Items(c)
                     /\ Items(c) <= Sends[c] + 1 /\ (c \in Lost => Items(c) = Sends[c] + 1)
  BY SendsType DEF Items
<1> QED
  BY <1>1 DEF Node

(* There are finitely many.                                                *)
LEMMA NodeFinite == IsFiniteSet(Node) /\ Cardinality(Node) \in Nat
<1> DEFINE Of == [c \in Conn |-> {c} \X (1..Items(c))]
           All == {{c} \X (1..Items(c)) : c \in Conn}
<1>1. Of \in Surjection(Conn, All)
  BY DEF Surjection
<1>2. IsFiniteSet(All)
  BY <1>1, ConnType, FS_Surjection
<1>3. ASSUME NEW c \in Conn PROVE IsFiniteSet({c} \X (1..Items(c)))
  <2>1. IsFiniteSet(1..Items(c))
    <3>1. 1 \in Int /\ Items(c) \in Int
      BY NodeShape
    <3> QED
      BY <3>1, FS_Interval, Zenon
  <2>2. IsFiniteSet({c})
    BY FS_Singleton
  <2> QED
    BY <2>1, <2>2, FS_Product
<1>4. IsFiniteSet(UNION All)
  BY <1>2, <1>3, FS_UNION
<1> QED
  BY <1>4, FS_CardinalityType DEF Node

(* The walk over a table meets its members in S, and each once.            *)
LEMMA VisitedShape ==
  ASSUME NEW C, NEW t \in Seq(C), NEW S
  PROVE  /\ Visited(t, S) \in Seq(C) /\ ToSet(Visited(t, S)) = ToSet(t) \cap S
         /\ Distinct(t) => Distinct(Visited(t, S))
<1> DEFINE Step(f, i) == IF i = 0 THEN <<>>
                         ELSE IF t[i] \in S THEN Append(f[i-1], t[i]) ELSE f[i-1]
           walk == CHOOSE f : f = [i \in 0..Len(t) |-> Step(f, i)]
           Walks == {n \in 0..Len(t) : \E f : f = [i \in 0..n |-> Step(f, i)]}
           Sofar(i) == {t[j] : j \in 1..i} \cap S
           Good == {i \in 0..Len(t) :
                     /\ walk[i] \in Seq(C) /\ ToSet(walk[i]) = Sofar(i)
                     /\ Distinct(t) => Distinct(walk[i])}
<1>1. Len(t) \in Nat /\ DOMAIN t = 1..Len(t) /\ \A i \in 1..Len(t) : t[i] \in C
  BY SeqShape
<1>2. 0 \in Walks
  <2> DEFINE g == [i \in 0..0 |-> <<>>]
  <2>1. g = [i \in 0..0 |-> Step(g, i)]
    OBVIOUS
  <2> HIDE DEF g
  <2>2. \E f : f = [i \in 0..0 |-> Step(f, i)]
    BY <2>1
  <2> QED
    BY <2>2, <1>1
<1>3. ASSUME NEW n \in 0..Len(t)-1, n \in Walks PROVE n + 1 \in Walks
  <2>1. PICK f : f = [i \in 0..n |-> Step(f, i)]
    BY <1>3
  <2> DEFINE g == [i \in 0..n+1 |-> IF i = n + 1 THEN Step(f, i) ELSE f[i]]
  <2>2. ASSUME NEW i \in 0..n+1 PROVE g[i] = Step(g, i)
    <3>1. CASE i = 0
      BY <2>1, <3>1
    <3>2. CASE i # 0
      <4>1. i - 1 \in 0..n /\ i - 1 # n + 1
        BY <3>2
      <4>2. g[i-1] = f[i-1]
        BY <4>1
      <4>3. g[i] = Step(f, i)
        <5>1. i # n + 1 => i \in 0..n
          OBVIOUS
        <5>2. i \in 0..n => f[i] = Step(f, i)
          BY <2>1
        <5> QED
          BY <5>1, <5>2
      <4> QED
        BY <4>2, <4>3
    <3> QED
      BY <3>1, <3>2
  <2>3. g = [i \in 0..n+1 |-> Step(g, i)]
    BY <2>2
  <2>4. n + 1 \in 0..Len(t)
    BY <1>1
  <2> QED
    BY <2>3, <2>4
<1>4. Len(t) \in Walks
  <2> HIDE DEF Walks
  <2>1. \A n \in 0..Len(t)-1 : n \in Walks => n + 1 \in Walks
    BY <1>3
  <2>2. \A n \in 0..Len(t) : n \in Walks
    BY <2>1, <1>1, <1>2, UpTo, Zenon
  <2> QED
    BY <2>2, <1>1
<1>5. walk = [i \in 0..Len(t) |-> Step(walk, i)]
  <2>1. \E f : f = [i \in 0..Len(t) |-> Step(f, i)]
    BY <1>4
  <2> QED
    BY <2>1, Zenon
<1> HIDE DEF walk
<1>6. 0 \in Good
  <2>1. walk[0] = <<>>
    BY <1>1, <1>5
  <2>2. walk[0] \in Seq(C) /\ ToSet(walk[0]) = {} /\ Distinct(walk[0])
    BY <2>1 DEF ToSet, Distinct
  <2> QED
    BY <2>2, <1>1
<1>7. ASSUME NEW n \in 0..Len(t)-1, n \in Good PROVE n + 1 \in Good
  <2>1. n + 1 \in 0..Len(t) /\ n + 1 # 0 /\ n + 1 - 1 = n /\ n + 1 \in 1..Len(t)
    BY <1>1
  <2>2. walk[n+1] = IF t[n+1] \in S THEN Append(walk[n], t[n+1]) ELSE walk[n]
    <3>1. walk[n+1] = Step(walk, n+1)
      <4> HIDE DEF Step
      <4> QED
        BY <2>1, <1>5
    <3>2. walk[n+1-1] = walk[n]
      BY <2>1
    <3> QED
      BY <3>1, <3>2, <2>1
  <2>3. Sofar(n+1) = Sofar(n) \cup ({t[n+1]} \cap S)
    <3>1. 1..n+1 = 1..n \cup {n+1}
      BY <1>1
    <3> QED
      BY <3>1
  <2>4. Distinct(t) => t[n+1] \notin Sofar(n)
    <3>1. \A j \in 1..n : j \in DOMAIN t /\ j # n + 1
      BY <1>1
    <3> QED
      BY <3>1, <2>1, <1>1 DEF Distinct
  <2>5. walk[n] \in Seq(C) /\ ToSet(walk[n]) = Sofar(n) /\ (Distinct(t) => Distinct(walk[n]))
    BY <1>7
  <2>6. t[n+1] \in C
    BY <2>1, <1>1
  <2> HIDE DEF Sofar
  <2>7. CASE t[n+1] \in S
    <3>1. walk[n+1] = Append(walk[n], t[n+1])
      BY <2>2, <2>7
    <3>2. /\ walk[n+1] \in Seq(C) /\ ToSet(walk[n+1]) = ToSet(walk[n]) \cup {t[n+1]}
          /\ Distinct(walk[n]) /\ t[n+1] \notin ToSet(walk[n]) => Distinct(walk[n+1])
      BY <3>1, <2>5, <2>6, AppendShape
    <3>3. Sofar(n+1) = Sofar(n) \cup {t[n+1]}
      BY <2>3, <2>7
    <3> QED
      BY <3>2, <3>3, <2>1, <2>4, <2>5
  <2>8. CASE t[n+1] \notin S
    <3>1. Sofar(n+1) = Sofar(n) /\ walk[n+1] = walk[n]
      BY <2>2, <2>3, <2>8
    <3> QED
      BY <3>1, <2>1, <2>5
  <2> QED
    BY <2>7, <2>8
<1>8. Len(t) \in Good
  <2> HIDE DEF Good
  <2>1. \A n \in 0..Len(t)-1 : n \in Good => n + 1 \in Good
    BY <1>7
  <2>2. \A n \in 0..Len(t) : n \in Good
    BY <2>1, <1>1, <1>6, UpTo, Zenon
  <2> QED
    BY <2>2, <1>1
<1>9. Visited(t, S) = walk[Len(t)]
  BY Zenon DEF Visited, walk
<1>10. Sofar(Len(t)) = ToSet(t) \cap S
  BY SeqShape
<1> QED
  BY <1>8, <1>9, <1>10

(* The next pointers of nodes that are chained lead from each to the next. *)
LEMMA ChainedShape ==
  ASSUME NEW next \in [Node -> Node \cup {Nil}], NEW nodes \in Seq(Node), Distinct(nodes)
  PROVE  /\ Chained(next, nodes) \in [Node -> Node \cup {Nil}]
         /\ \A i \in 1..Len(nodes)-1 : Chained(next, nodes)[nodes[i]] = nodes[i+1]
         /\ \A n \in Node : n \notin ToSet(nodes) => Chained(next, nodes)[n] = next[n]
         /\ nodes # <<>> => Chained(next, nodes)[nodes[Len(nodes)]] = next[nodes[Len(nodes)]]
<1>1. /\ Len(nodes) \in Nat /\ \A i \in 1..Len(nodes) : nodes[i] \in Node
      /\ \A i, j \in 1..Len(nodes) : nodes[i] = nodes[j] => i = j
      /\ nodes # <<>> => Len(nodes) >= 1
  BY SeqShape DEF Distinct
<1>2. \A i \in 1..Len(nodes)-1 : i \in 1..Len(nodes) /\ i + 1 \in 1..Len(nodes)
                                /\ 1 + i = i + 1 /\ i # Len(nodes)
  BY <1>1
<1>3. ASSUME NEW i \in 1..Len(nodes)-1
      PROVE  (CHOOSE j \in 1..Len(nodes)-1 : nodes[j] = nodes[i]) = i
  BY <1>1, <1>2
<1>4. ASSUME NEW i \in 1..Len(nodes)-1 PROVE Chained(next, nodes)[nodes[i]] = nodes[i+1]
  BY <1>1, <1>2, <1>3 DEF Chained
<1>5. ASSUME NEW n \in Node, ~ \E i \in 1..Len(nodes)-1 : nodes[i] = n
      PROVE  Chained(next, nodes)[n] = next[n]
  BY <1>5 DEF Chained
<1>6. ASSUME NEW n \in Node PROVE Chained(next, nodes)[n] \in Node \cup {Nil}
  <2>1. CASE \E i \in 1..Len(nodes)-1 : nodes[i] = n
    BY <2>1, <1>1, <1>2, <1>4
  <2> QED
    BY <2>1, <1>5
<1>7. Chained(next, nodes) \in [Node -> Node \cup {Nil}]
  BY <1>6 DEF Chained
<1>8. ASSUME NEW n \in Node, n \notin ToSet(nodes) PROVE Chained(next, nodes)[n] = next[n]
  BY <1>2, <1>5, <1>8, HasPlace
<1>9. ASSUME nodes # <<>>
      PROVE  Chained(next, nodes)[nodes[Len(nodes)]] = next[nodes[Len(nodes)]]
  <2>1. Len(nodes) \in 1..Len(nodes) /\ nodes[Len(nodes)] \in Node
    BY <1>1, <1>9
  <2>2. ~ \E i \in 1..Len(nodes)-1 : nodes[i] = nodes[Len(nodes)]
    BY <2>1, <1>1, <1>2
  <2> QED
    BY <2>1, <2>2, <1>5
<1> QED
  BY <1>4, <1>7, <1>8, <1>9

(* Nodes in order are distinct.                                            *)
LEMMA OrderedDistinct ==
  ASSUME NEW s \in Seq(Node), Ordered(s)
  PROVE  Distinct(s)
<1> SUFFICES ASSUME NEW i \in 1..Len(s), NEW j \in 1..Len(s), s[i] = s[j], i # j
             PROVE  FALSE
  BY SeqShape DEF Distinct
<1>1. Len(s) \in Nat /\ s[i] \in Node
  BY SeqShape
<1>2. s[i][2] \in Nat
  BY <1>1, NodeShape
<1>3. s[i][2] < s[i][2]
  BY <1>1, SeqShape DEF Ordered
<1> QED
  BY <1>2, <1>3

(* What is linked is what is found.                                        *)
LEMMA FoundIs ==
  ASSUME NEW q, q.next \in [Node -> Node \cup {Nil}],
         NEW s \in Seq(Node), Distinct(s), Linked(q, s)
  PROVE  Found(q) = s
<1> DEFINE after == [n \in Node \cup {Nil} |-> IF n = Nil THEN Nil ELSE q.next[n]]
           at == CHOOSE f : f = [k \in Nat |-> IF k = 0 THEN q.head ELSE after[f[k-1]]]
           node == [k \in Nat |-> IF k < Len(s) THEN s[k+1] ELSE Nil]
           found == {k \in 0..Cardinality(Node) : at[k] # Nil}
<1>1. Len(s) \in Nat /\ \A i \in 1..Len(s) : s[i] \in Node
  BY SeqShape
<1>2. after[Nil] = Nil /\ \A n \in Node : after[n] = q.next[n]
  BY NilIsNoNode
<1>3. q.head = node[0]
  BY <1>1, SeqShape DEF Linked
<1>4. ASSUME NEW k \in Nat \ {0} PROVE after[node[k-1]] = node[k]
  <2>1. k - 1 \in Nat /\ k - 1 + 1 = k
    OBVIOUS
  <2>2. CASE k <= Len(s)
    <3>1. node[k-1] = s[k] /\ s[k] \in Node /\ k \in 1..Len(s)
      BY <1>1, <2>1, <2>2
    <3>2. after[node[k-1]] = IF k = Len(s) THEN Nil ELSE s[k+1]
      BY <3>1, <1>2 DEF Linked
    <3> QED
      BY <3>1, <3>2, <1>1, <2>2
  <2>3. CASE ~ (k <= Len(s))
    <3>1. node[k-1] = Nil /\ node[k] = Nil
      BY <1>1, <2>1, <2>3
    <3> QED
      BY <3>1, <1>2
  <2> QED
    BY <2>2, <2>3
<1>5. at = [k \in Nat |-> IF k = 0 THEN q.head ELSE after[at[k-1]]]
  <2> HIDE DEF after
  <2>1. ASSUME NEW k \in Nat PROVE node[k] = IF k = 0 THEN q.head ELSE after[node[k-1]]
    BY <1>3, <1>4
  <2> HIDE DEF node
  <2>2. node = [k \in Nat |-> IF k = 0 THEN q.head ELSE after[node[k-1]]]
    <3>1. node = [k \in Nat |-> node[k]]
      BY DEF node
    <3> QED
      BY <3>1, <2>1
  <2> QED
    BY <2>2, Zenon
<1> HIDE DEF at, after
<1>6. \A k \in Nat : at[k] = node[k]
  <2> DEFINE Same == {k \in Nat : at[k] = node[k]}
  <2>1. 0 \in Same
    BY <1>3, <1>5
  <2>2. ASSUME NEW k \in Nat, k \in Same PROVE k + 1 \in Same
    <3>1. k + 1 \in Nat \ {0} /\ k + 1 - 1 = k
      OBVIOUS
    <3>2. at[k+1] = after[at[k]]
      BY <3>1, <1>5
    <3>3. node[k+1] = after[node[k]]
      <4> HIDE DEF node
      <4>1. after[node[k+1-1]] = node[k+1]
        BY <3>1, <1>4
      <4> QED
        BY <4>1, <3>1
    <3> QED
      BY <2>2, <3>1, <3>2, <3>3
  <2> HIDE DEF Same
  <2>3. \A k \in Nat : k \in Same
    BY <2>1, <2>2, Every
  <2> QED
    BY <2>3 DEF Same
<1>7. Len(s) <= Cardinality(Node)
  <2>1. s \in Injection(1..Len(s), Node)
    BY <1>1, SeqShape DEF Injection, IsInjective, Distinct
  <2>2. Cardinality(1..Len(s)) <= Cardinality(Node)
    BY <2>1, NodeFinite, FS_Injection
  <2>3. Cardinality(1..Len(s)) = Len(s)
    <3>1. 1 \in Int /\ Len(s) \in Int
      BY <1>1
    <3>2. Cardinality(1..Len(s)) = IF 1 > Len(s) THEN 0 ELSE Len(s) - 1 + 1
      BY <3>1, FS_Interval, Zenon
    <3> QED
      BY <3>2, <1>1
  <2> QED
    BY <2>2, <2>3
<1>8. found = 0..Len(s)-1
  <2>1. \A k \in Nat : at[k] # Nil <=> k < Len(s)
    <3>1. \A k \in Nat : k < Len(s) => k + 1 \in 1..Len(s)
      BY <1>1
    <3> QED
      BY <3>1, <1>1, <1>6, NilIsNoNode
  <2> QED
    BY <2>1, <1>1, <1>7, NodeFinite
<1>9. Cardinality(found) = Len(s)
  <2>1. 0 \in Int /\ Len(s) - 1 \in Int
    BY <1>1
  <2>2. Cardinality(0..Len(s)-1) = IF 0 > Len(s) - 1 THEN 0 ELSE Len(s) - 1 - 0 + 1
    BY <2>1, FS_Interval, Zenon
  <2>3. Cardinality(0..Len(s)-1) = Len(s)
    BY <2>2, <1>1
  <2> HIDE DEF found
  <2> QED
    BY <2>3, <1>8
<1>10. Found(q) = [i \in 1..Cardinality(found) |-> at[i-1]]
  BY Zenon DEF Found, at, after
<1>11. \A i \in 1..Len(s) : at[i-1] = s[i]
  <2>1. \A i \in 1..Len(s) : i - 1 \in Nat /\ i - 1 < Len(s) /\ i - 1 + 1 = i
    BY <1>1
  <2> QED
    BY <2>1, <1>6
<1>12. Found(q) = [i \in 1..Len(s) |-> s[i]]
  BY <1>9, <1>10, <1>11
<1> QED
  BY <1>12, SeqShape, Zenon

-----------------------------------------------------------------------------
(* FTBN_Grab_messages.                                                     *)

(* The reader reads the next message, or the end, of each connection in w, *)
(* and chains them in that order.                                          *)
Reads(w) ==
  /\ w \in Seq(Conn) /\ w # <<>> /\ Distinct(w)
  /\ \A c \in ToSet(w) : read[c] + 1 <= Items(c)
  /\ batch' = [i \in 1..Len(w) |-> Next1(w[i])]
  /\ last' = IF Lone(batch') THEN Nil ELSE batch'[Len(batch')]
  /\ list' = [list EXCEPT !.next = Chained(@, batch')]
  /\ read' = [c \in Conn |-> IF c \in ToSet(w) THEN read[c] + 1 ELSE read[c]]

(* What is read of the table, up to the first connection that was lost.    *)
LEMMA UpToTheLost ==
  ASSUME TableInv, NEW ready, ready \subseteq {c \in ToSet(table) : c \in Lost \/ ~ AtEnd(c)},
         NEW visited \in Seq(Conn), Distinct(visited), ToSet(visited) = ready
  PROVE  LET ends == {i \in DOMAIN visited : AtEnd(visited[i])}
             before == IF ends = {} THEN visited ELSE SubSeq(visited, 1, Min(ends) - 1)
             cut == IF ends = {} THEN <<>> ELSE <<visited[Min(ends)]>>
         IN  /\ before \in Seq(Conn) /\ Distinct(before) /\ ToSet(before) \subseteq ToSet(table)
             /\ \A c \in ToSet(before) : read[c] + 1 <= Sends[c]
             /\ cut # <<>> =>
                  \E d \in ToSet(table) : /\ cut = <<d>> /\ d \notin ToSet(before)
                                          /\ d \in Lost /\ read[d] = Sends[d]
             /\ cut = <<>> /\ ready # {} => before # <<>>
<1> DEFINE ends == {i \in DOMAIN visited : AtEnd(visited[i])}
           before == IF ends = {} THEN visited ELSE SubSeq(visited, 1, Min(ends) - 1)
           cut == IF ends = {} THEN <<>> ELSE <<visited[Min(ends)]>>
<1>1. /\ table \in Seq(Conn) /\ Distinct(table) /\ ToSet(table) \subseteq Conn
      /\ \A c \in ToSet(table) : read[c] \in 1..Sends[c]
  BY SeqShape DEF TableInv
<1>2. visited \in Seq(Conn) /\ Distinct(visited) /\ ToSet(visited) = ready
  OBVIOUS
<1>3. /\ Len(visited) \in Nat /\ DOMAIN visited = 1..Len(visited)
      /\ \A i \in 1..Len(visited) : visited[i] \in ready /\ visited[i] \in ToSet(table)
  <2>1. \A i \in 1..Len(visited) : visited[i] \in ToSet(visited)
    BY <1>2, HasPlace, Zenon
  <2>2. Len(visited) \in Nat /\ DOMAIN visited = 1..Len(visited)
    BY <1>2, SeqShape, Zenon
  <2> QED
    BY <2>1, <2>2, <1>2
<1>4. ASSUME NEW c \in ready PROVE /\ AtEnd(c) => c \in Lost /\ read[c] = Sends[c]
                                   /\ ~ AtEnd(c) => read[c] + 1 <= Sends[c]
  BY <1>1, NodeShape DEF AtEnd
<1>5. CASE ends = {}
  <2>1. before = visited /\ cut = <<>>
    BY <1>5
  <2>2. \A i \in 1..Len(visited) : ~ AtEnd(visited[i])
    BY <1>3, <1>5
  <2>3. ASSUME NEW c \in ready PROVE ~ AtEnd(c)
    <3>1. PICK i \in 1..Len(visited) : c = visited[i]
      BY <1>2, HasPlace, Zenon
    <3> QED
      BY <3>1, <2>2
  <2>4. visited # <<>> \/ ready = {}
    BY <1>2, SeqShape, Zenon
  <2> QED
    BY <2>1, <2>3, <2>4, <1>2, <1>4
<1>6. CASE ends # {}
  <2> DEFINE m == Min(ends)
  <2>1. m \in ends /\ \A i \in ends : m <= i
    <3>1. ends \in SUBSET Nat
      BY <1>3
    <3>2. \E i \in ends : \A j \in ends : i <= j
      BY <3>1, <1>6, Least
    <3> QED
      BY <3>2 DEF Min
  <2>2. m \in 1..Len(visited) /\ AtEnd(visited[m])
    BY <2>1, <1>3
  <2>3. before = SubSeq(visited, 1, m - 1) /\ cut = <<visited[m]>>
    BY <1>6
  <2> HIDE DEF m, before, cut
  <2>4. /\ before \in Seq(Conn) /\ Len(before) = m - 1
        /\ \A i \in 1..m-1 : before[i] = visited[i] /\ i \in 1..Len(visited) /\ i # m
    <3>1. m - 1 \in Nat /\ m - 1 <= Len(visited)
      BY <2>2, <1>3
    <3>2. \A i \in 1..m-1 : i \in 1..Len(visited) /\ i # m
      BY <2>2, <1>3
    <3>3. /\ SubSeq(visited, 1, m - 1) \in Seq(Conn) /\ Len(SubSeq(visited, 1, m - 1)) = m - 1
          /\ \A i \in 1..m-1 : SubSeq(visited, 1, m - 1)[i] = visited[i]
      BY <3>1, SubSeqShape, Zenon
    <3> QED
      BY <3>2, <3>3, <2>3
  <2>5. \A c \in ToSet(before) : \E i \in 1..m-1 : c = visited[i]
    <3>1. \A c \in ToSet(before) : \E i \in 1..Len(before) : c = before[i]
      BY <2>4, HasPlace
    <3> QED
      BY <3>1, <2>4
  <2>6. ASSUME NEW i \in 1..m-1 PROVE ~ AtEnd(visited[i])
    <3>1. i \notin ends /\ i \in 1..Len(visited)
      BY <2>1, <2>2, <1>3
    <3> QED
      BY <3>1, <1>3
  <2>7. DOMAIN before = 1..m-1
    BY <2>4, SeqShape
  <2>8. Distinct(before)
    BY <2>4, <2>7, <1>2, <1>3 DEF Distinct
  <2>9. visited[m] \notin ToSet(before)
    BY <2>2, <2>4, <2>5, <1>2, <1>3 DEF Distinct
  <2>10. ASSUME NEW c \in ToSet(before) PROVE c \in ToSet(table) /\ read[c] + 1 <= Sends[c]
    <3>1. PICK i \in 1..m-1 : c = visited[i]
      BY <2>5
    <3> QED
      BY <3>1, <2>4, <2>6, <1>3, <1>4
  <2>11. /\ visited[m] \in ToSet(table) /\ visited[m] \in Lost
         /\ read[visited[m]] = Sends[visited[m]]
    BY <2>2, <1>3, <1>4
  <2>12. /\ before \in Seq(Conn) /\ Distinct(before) /\ ToSet(before) \subseteq ToSet(table)
         /\ \A c \in ToSet(before) : read[c] + 1 <= Sends[c]
         /\ cut # <<>> =>
              \E d \in ToSet(table) : /\ cut = <<d>> /\ d \notin ToSet(before)
                                      /\ d \in Lost /\ read[d] = Sends[d]
         /\ cut # <<>>
    BY <2>3, <2>4, <2>8, <2>9, <2>10, <2>11
  <2> QED
    BY <2>12, Zenon DEF before, cut
<1> QED
  BY <1>5, <1>6

(* What the reader finds when it looks, whatever select() reported.        *)
LEMMA GrabReads ==
  ASSUME TableInv, Grab
  PROVE  (\E w : Reads(w)) /\ TableInv'
<1> SUFFICES ASSUME NEW ready \in SUBSET {c \in ToSet(table) : c \in Lost \/ ~ AtEnd(c)},
                    NEW opened \in Seq(Conn),
                    \/ opened = <<>> /\ ready # {}
                    \/ \E c \in Conn : opened = <<c>> /\ read[c] = 0,
                    GrabFrom(ready, opened), UNCHANGED <<pc, taken, refused>>
             PROVE  (\E w : Reads(w)) /\ TableInv'
  <2>1. <<>> \in Seq(Conn) /\ \A c \in Conn : <<c>> \in Seq(Conn)
    OBVIOUS
  <2> QED
    BY <2>1 DEF Grab
<1> DEFINE visited == Visited(table, ready)
           ends == {i \in DOMAIN visited : AtEnd(visited[i])}
           cut == IF ends = {} THEN <<>> ELSE <<visited[Min(ends)]>>
           before == IF ends = {} THEN visited ELSE SubSeq(visited, 1, Min(ends) - 1)
           whole == opened \o before
           messages == [i \in DOMAIN whole |-> Next1(whole[i])]
           nodes == [i \in DOMAIN cut |-> Next1(cut[i])] \o messages
           w == cut \o whole
<1>1. /\ batch' = nodes
      /\ last' = IF messages = <<>> THEN Nil ELSE Last(messages)
      /\ list' = [list EXCEPT !.next = Chained(@, nodes)]
      /\ read' = [c \in Conn |-> IF c \in ToSet(whole \o cut) THEN read[c] + 1 ELSE read[c]]
      /\ table' = IF cut = <<>> THEN opened \o table ELSE Removed(opened \o table, cut[1])
  BY Zenon DEF GrabFrom
<1>2. /\ table \in Seq(Conn) /\ Distinct(table) /\ ToSet(table) \subseteq Conn
      /\ read \in [Conn -> Nat] /\ \A c \in Conn : read[c] <= Items(c)
      /\ \A c \in ToSet(table) : read[c] \in 1..Sends[c]
  BY SeqShape DEF TableInv
<1>3. /\ before \in Seq(Conn) /\ Distinct(before) /\ ToSet(before) \subseteq ToSet(table)
      /\ \A c \in ToSet(before) : read[c] + 1 <= Sends[c]
      /\ cut # <<>> =>
           \E d \in ToSet(table) : /\ cut = <<d>> /\ d \notin ToSet(before)
                                   /\ d \in Lost /\ read[d] = Sends[d]
      /\ cut = <<>> /\ ready # {} => before # <<>>
  <2>1. visited \in Seq(Conn) /\ Distinct(visited) /\ ToSet(visited) = ready
    <3>1. visited \in Seq(Conn) /\ ToSet(visited) = ToSet(table) \cap ready /\ Distinct(visited)
      BY <1>2, VisitedShape, Zenon
    <3> QED
      BY <3>1
  <2> HIDE DEF visited
  <2> QED
    BY <2>1, UpToTheLost, Zenon
<1> HIDE DEF visited, ends, cut, before
<1>4. /\ Distinct(opened) /\ \A c \in ToSet(opened) : c \in Conn /\ c \notin ToSet(table) /\ read[c] = 0
      /\ ToSet(opened) \subseteq Conn
  <2>1. CASE opened = <<>>
    BY <2>1 DEF Distinct, ToSet
  <2>2. CASE \E c \in Conn : opened = <<c>> /\ read[c] = 0
    <3>1. PICK c \in Conn : opened = <<c>> /\ read[c] = 0
      BY <2>2
    <3>2. ToSet(opened) = {c} /\ Distinct(opened)
      BY <3>1 DEF ToSet, Distinct
    <3> QED
      BY <3>1, <3>2, <1>2
  <2> QED
    BY <2>1, <2>2
<1>5. /\ whole \in Seq(Conn) /\ ToSet(whole) = ToSet(opened) \cup ToSet(before)
      /\ Distinct(whole) /\ \A c \in ToSet(whole) : c \in Conn /\ read[c] + 1 <= Sends[c]
  <2>1. whole \in Seq(Conn) /\ ToSet(whole) = ToSet(opened) \cup ToSet(before)
    BY <1>3, ConcatShape
  <2>2. ToSet(opened) \cap ToSet(before) = {}
    BY <1>3, <1>4
  <2>3. Distinct(whole)
    BY <2>2, <1>3, <1>4, ConcatDistinct, Zenon
  <2>4. ASSUME NEW c \in ToSet(opened) PROVE c \in Conn /\ read[c] + 1 <= Sends[c]
    BY <1>4, NodeShape
  <2> QED
    BY <2>1, <2>3, <2>4, <1>2, <1>3
<1>6. cut \in Seq(Conn) /\ Distinct(cut) /\ ToSet(cut) \subseteq ToSet(table)
      /\ ToSet(cut) \cap ToSet(whole) = {} /\ \A c \in ToSet(cut) : c \in Lost /\ read[c] = Sends[c]
  <2>1. CASE cut = <<>>
    BY <2>1 DEF ToSet, Distinct
  <2>2. CASE cut # <<>>
    <3>1. PICK d \in ToSet(table) : cut = <<d>> /\ d \notin ToSet(before) /\ d \in Lost /\ read[d] = Sends[d]
      BY <2>2, <1>3
    <3>2. ToSet(cut) = {d} /\ Distinct(cut) /\ cut \in Seq(Conn)
      BY <3>1, <1>2 DEF ToSet, Distinct
    <3> QED
      BY <3>1, <3>2, <1>4, <1>5
  <2> QED
    BY <2>1, <2>2
<1> HIDE DEF whole
<1>7. /\ w \in Seq(Conn) /\ Distinct(w) /\ ToSet(w) = ToSet(cut) \cup ToSet(whole)
      /\ Len(w) = Len(cut) + Len(whole)
      /\ \A i \in 1..Len(cut) : w[i] = cut[i]
      /\ \A i \in 1..Len(whole) : w[Len(cut) + i] = whole[i]
  BY <1>5, <1>6, ConcatShape, ConcatDistinct
<1>8. ToSet(whole \o cut) = ToSet(w)
  BY <1>5, <1>6, <1>7, ConcatShape
<1>9. ASSUME NEW c \in ToSet(w) PROVE c \in Conn /\ read[c] + 1 <= Items(c)
  <2>1. CASE c \in ToSet(whole)
    <3>1. c \in Conn /\ read[c] + 1 <= Sends[c] /\ read[c] \in Nat
      BY <2>1, <1>2, <1>5
    <3> QED
      BY <3>1, NodeShape
  <2>2. CASE c \in ToSet(cut)
    <3>1. c \in Conn /\ c \in Lost /\ read[c] = Sends[c]
      BY <2>2, <1>2, <1>6
    <3> QED
      BY <3>1, NodeShape
  <2> QED
    BY <2>1, <2>2, <1>7
<1>10. /\ Len(cut) \in Nat /\ DOMAIN cut = 1..Len(cut) /\ \A i \in 1..Len(cut) : cut[i] \in Conn
       /\ Len(whole) \in Nat /\ DOMAIN whole = 1..Len(whole)
       /\ \A i \in 1..Len(whole) : whole[i] \in Conn
  BY <1>5, <1>6, SeqShape
<1>11. w # <<>>
  <2>1. CASE cut # <<>>
    <3>1. Len(cut) # 0
      BY <2>1, <1>6, SeqShape, Zenon
    <3> QED
      BY <3>1, <1>7, <1>10
  <2>2. CASE cut = <<>>
    <3>1. ToSet(whole) # {}
      <4>1. CASE opened # <<>>
        BY <4>1, <1>5, SeqShape
      <4>2. CASE opened = <<>>
        BY <4>2, <2>2, <1>3, <1>5, SeqShape
      <4> QED
        BY <4>1, <4>2
    <3>2. ToSet(w) # {}
      BY <3>1, <1>7
    <3> QED
      BY <3>2, <1>7, SeqShape, Zenon
  <2> QED
    BY <2>1, <2>2
<1>12. /\ nodes = [i \in 1..Len(w) |-> Next1(w[i])]
       /\ messages # <<>> => Len(whole) # 0 /\ Last(messages) = Next1(w[Len(w)])
       /\ messages = <<>> => Len(w) = 1 /\ w[1] \in Lost /\ read[w[1]] = Sends[w[1]]
       /\ Len(w) = 1 /\ messages # <<>> => read[w[1]] + 1 <= Sends[w[1]]
  <2> DEFINE front == [i \in DOMAIN cut |-> Next1(cut[i])]
             Pairs == Conn \X Nat
  <2>1. front \in Seq(Pairs) /\ Len(front) = Len(cut) /\ \A i \in 1..Len(cut) : front[i] = Next1(cut[i])
    BY <1>2, <1>10 DEF Next1
  <2>2. /\ messages \in Seq(Pairs) /\ Len(messages) = Len(whole)
        /\ \A i \in 1..Len(whole) : messages[i] = Next1(whole[i])
    BY <1>2, <1>10 DEF Next1
  <2> HIDE DEF front, messages
  <2>3. /\ nodes \in Seq(Pairs) /\ Len(nodes) = Len(front) + Len(messages)
        /\ \A i \in 1..Len(front) : nodes[i] = front[i]
        /\ \A i \in 1..Len(messages) : nodes[Len(front) + i] = messages[i]
    <3>1. nodes = front \o messages
      BY DEF front
    <3> HIDE DEF nodes, Pairs
    <3>2. /\ front \o messages \in Seq(Pairs) /\ Len(front \o messages) = Len(front) + Len(messages)
          /\ \A i \in 1..Len(front) : (front \o messages)[i] = front[i]
          /\ \A i \in 1..Len(messages) : (front \o messages)[Len(front) + i] = messages[i]
      <4>1. front \in Seq(Pairs) /\ messages \in Seq(Pairs)
        BY <2>1, <2>2
      <4> QED
        BY <4>1, ConcatShape
    <3> QED
      BY <3>1, <3>2
  <2> HIDE DEF nodes, w
  <2>4. ASSUME NEW i \in 1..Len(w) PROVE nodes[i] = Next1(w[i])
    <3>1. CASE i \in 1..Len(cut)
      BY <3>1, <2>1, <2>3, <1>7
    <3>2. CASE i \notin 1..Len(cut)
      <4>1. i - Len(cut) \in 1..Len(whole) /\ i = Len(cut) + (i - Len(cut))
        BY <3>2, <1>7, <1>10
      <4>2. nodes[i] = messages[i - Len(cut)] /\ w[i] = whole[i - Len(cut)]
        BY <4>1, <2>1, <2>2, <2>3, <1>7
      <4> QED
        BY <4>1, <4>2, <2>2
    <3> QED
      BY <3>1, <3>2
  <2>5. nodes = [i \in 1..Len(nodes) |-> nodes[i]] /\ Len(nodes) = Len(w)
    <3>1. Len(nodes) = Len(w)
      BY <2>1, <2>2, <2>3, <1>7
    <3> QED
      BY <3>1, <2>3, SeqShape
  <2>6. nodes = [i \in 1..Len(w) |-> Next1(w[i])]
    BY <2>4, <2>5
  <2>7. ASSUME messages # <<>> PROVE Len(whole) # 0 /\ Last(messages) = Next1(w[Len(w)])
    <3>1. Len(whole) # 0
      BY <2>2, <2>7
    <3>2. w[Len(w)] = whole[Len(whole)]
      BY <3>1, <1>7, <1>10
    <3> QED
      BY <3>1, <3>2, <2>2, <1>10 DEF Last
  <2>8. ASSUME messages = <<>>
        PROVE  Len(w) = 1 /\ w[1] \in Lost /\ read[w[1]] = Sends[w[1]]
    <3>1. Len(whole) = 0
      BY <2>2, <2>8
    <3>2. cut # <<>>
      BY <3>1, <1>7, <1>10, <1>11, SeqShape
    <3>3. Len(cut) = 1 /\ cut[1] \in Lost /\ read[cut[1]] = Sends[cut[1]]
      BY <3>2, <1>3
    <3>4. w[1] = cut[1] /\ Len(w) = 1
      BY <3>1, <3>3, <1>7
    <3> QED
      BY <3>3, <3>4
  <2>9. ASSUME Len(w) = 1, messages # <<>> PROVE read[w[1]] + 1 <= Sends[w[1]]
    <3>1. Len(cut) = 0 /\ Len(whole) = 1
      <4>1. Len(whole) # 0
        BY <2>7, <2>9
      <4>2. Len(cut) + Len(whole) = 1 /\ Len(cut) \in Nat /\ Len(whole) \in Nat
        BY <2>9, <1>7, <1>10
      <4>3. \A i, j \in Nat : i + j = 1 /\ j # 0 => i = 0 /\ j = 1
        OBVIOUS
      <4> QED
        BY <4>1, <4>2, <4>3, Zenon
    <3>2. w[1] = whole[1] /\ whole[1] \in ToSet(whole)
      BY <3>1, <1>5, <1>7, HasPlace
    <3> QED
      BY <3>2, <1>5
  <2> QED
    BY <2>6, <2>7, <2>8, <2>9
<1>13. Reads(w)
  <2> HIDE DEF nodes, messages, w
  <2>1. batch' = [i \in 1..Len(w) |-> Next1(w[i])] /\ Len(w) \in Nat /\ Len(w) >= 1
    BY <1>1, <1>7, <1>11, <1>12, SeqShape
  <2>2. Len(batch') = Len(w) /\ batch'[Len(batch')] = Next1(w[Len(w)])
    BY <2>1
  <2>3. last' = IF Lone(batch') THEN Nil ELSE batch'[Len(batch')]
    <3>1. Len(w) = 1 => batch'[1] = Next1(w[1]) /\ w[1] \in Conn /\ read[w[1]] \in Nat
      BY <2>1, <1>2, <1>7, <1>9, HasPlace
    <3>2. CASE messages = <<>>
      <4>1. batch'[1] = <<w[1], Sends[w[1]] + 1>> /\ w[1] \in Lost /\ Len(batch') = 1
        BY <3>1, <3>2, <2>2, <1>12 DEF Next1
      <4> QED
        BY <4>1, <3>2, <1>1 DEF Lone, Cleanups
    <3>3. CASE messages # <<>>
      <4>1. ASSUME Len(w) = 1 PROVE batch'[1] \notin Cleanups
        <5>1. batch'[1][1] = w[1] /\ batch'[1][2] = read[w[1]] + 1
          BY <4>1, <3>1 DEF Next1
        <5>2. Sends[w[1]] \in Nat /\ read[w[1]] + 1 <= Sends[w[1]]
          BY <4>1, <3>1, <3>3, <1>12, NodeShape
        <5>3. \A n \in Cleanups : n[2] = Sends[n[1]] + 1
          BY DEF Cleanups
        <5> QED
          BY <5>1, <5>2, <5>3
      <4> QED
        BY <4>1, <3>3, <2>2, <1>1, <1>12 DEF Lone
    <3> QED
      BY <3>2, <3>3
  <2> QED
    BY <2>1, <2>3, <1>1, <1>7, <1>8, <1>9, <1>11 DEF Reads
<1>14. TableInv'
  <2> HIDE DEF w
  <2>1. read' = [c \in Conn |-> IF c \in ToSet(w) THEN read[c] + 1 ELSE read[c]]
    BY <1>1, <1>8
  <2>2. read' \in [Conn -> Nat] /\ \A c \in Conn : read'[c] <= Items(c)
    BY <2>1, <1>2, <1>9
  <2> DEFINE longer == opened \o table
  <2>3. /\ longer \in Seq(Conn) /\ Distinct(longer) /\ ToSet(longer) = ToSet(opened) \cup ToSet(table)
    <3>1. ToSet(opened) \cap ToSet(table) = {}
      BY <1>4
    <3> QED
      BY <3>1, <1>2, <1>4, ConcatShape, ConcatDistinct
  <2>4. ASSUME NEW c \in ToSet(longer), c \notin ToSet(cut) PROVE read'[c] \in 1..Sends[c]
    <3>1. CASE c \in ToSet(w)
      <4>1. c \in ToSet(whole)
        BY <3>1, <2>4, <1>7
      <4>2. c \in Conn /\ read[c] + 1 <= Sends[c] /\ read[c] \in Nat
        BY <4>1, <1>2, <1>5
      <4> QED
        BY <4>2, <3>1, <2>1, NodeShape
    <3>2. CASE c \notin ToSet(w)
      <4>1. c \in ToSet(table)
        BY <3>2, <2>3, <1>5, <1>7
      <4> QED
        BY <4>1, <3>2, <2>1, <1>2
    <3> QED
      BY <3>1, <3>2
  <2> HIDE DEF longer
  <2>5. table' \in Seq(Conn) /\ Distinct(table') /\ \A c \in ToSet(table') : read'[c] \in 1..Sends[c]
    <3>1. CASE cut = <<>>
      <4>1. table' = longer /\ ToSet(cut) = {}
        BY <3>1, <1>1 DEF longer, ToSet
      <4> QED
        BY <4>1, <2>3, <2>4
    <3>2. CASE cut # <<>>
      <4>1. PICK d \in ToSet(table) : cut = <<d>>
        BY <3>2, <1>3
      <4>2. table' = Visited(longer, Conn \ {d}) /\ ToSet(cut) = {d}
        BY <4>1, <3>2, <1>1 DEF longer, Removed, ToSet
      <4>3. table' \in Seq(Conn) /\ Distinct(table') /\ ToSet(table') = ToSet(longer) \cap (Conn \ {d})
        BY <4>2, <2>3, VisitedShape
      <4> QED
        BY <4>2, <4>3, <2>4
    <3> QED
      BY <3>1, <3>2
  <2> QED
    BY <2>2, <2>5 DEF TableInv
<1> QED
  BY <1>13, <1>14

-----------------------------------------------------------------------------
(* Order.                                                                  *)

(* One more message, after those of its connection.                        *)
LEMMA OrderedAppend ==
  ASSUME NEW s \in Seq(Node), NEW x \in Node, Ordered(s),
         \A m \in ToSet(s) : m[1] = x[1] => m[2] < x[2]
  PROVE  Ordered(Append(s, x))
<1> DEFINE t == Append(s, x)
<1>1. /\ t \in Seq(Node) /\ Len(t) = Len(s) + 1
      /\ \A i \in 1..Len(s) : t[i] = s[i]
      /\ t[Len(s) + 1] = x
  BY AppendShape
<1> HIDE DEF t
<1>2. Len(s) \in Nat /\ DOMAIN s = 1..Len(s) /\ DOMAIN t = 1..Len(s)+1
  BY <1>1, SeqShape
<1>3. \A i \in 1..Len(s) : s[i] \in ToSet(s)
  BY HasPlace
<1> SUFFICES ASSUME NEW i \in 1..Len(s)+1, NEW j \in 1..Len(s)+1, i < j, t[i][1] = t[j][1]
             PROVE  t[i][2] < t[j][2]
  BY <1>2 DEF Ordered, t
<1>4. i \in 1..Len(s)
  BY <1>2
<1>5. CASE j \in 1..Len(s)
  BY <1>1, <1>2, <1>4, <1>5 DEF Ordered
<1>6. CASE j = Len(s) + 1
  BY <1>1, <1>3, <1>4, <1>6
<1> QED
  BY <1>2, <1>5, <1>6

(* Messages that were written before others.                               *)
LEMMA OrderedConcat ==
  ASSUME NEW s \in Seq(Node), NEW t \in Seq(Node), Ordered(s), Ordered(t), Before(s, t)
  PROVE  Ordered(s \o t)
<1> DEFINE u == s \o t
<1>1. /\ u \in Seq(Node) /\ Len(u) = Len(s) + Len(t)
      /\ \A i \in 1..Len(s) : u[i] = s[i]
      /\ \A i \in 1..Len(t) : u[Len(s) + i] = t[i]
  BY ConcatShape
<1> HIDE DEF u
<1>2. /\ Len(s) \in Nat /\ DOMAIN s = 1..Len(s)
      /\ Len(t) \in Nat /\ DOMAIN t = 1..Len(t) /\ DOMAIN u = 1..Len(s)+Len(t)
  BY <1>1, SeqShape
<1>3. \A i \in 1..Len(s) : s[i] \in ToSet(s)
  BY HasPlace
<1>4. \A i \in 1..Len(t) : t[i] \in ToSet(t)
  BY HasPlace
<1> SUFFICES ASSUME NEW i \in 1..Len(s)+Len(t), NEW j \in 1..Len(s)+Len(t),
                    i < j, u[i][1] = u[j][1]
             PROVE  u[i][2] < u[j][2]
  BY <1>2 DEF Ordered, u
<1>5. \A k \in 1..Len(s)+Len(t) :
        k \notin 1..Len(s) => k - Len(s) \in 1..Len(t) /\ u[k] = t[k - Len(s)]
  <2> SUFFICES ASSUME NEW k \in 1..Len(s)+Len(t), k \notin 1..Len(s)
               PROVE  k - Len(s) \in 1..Len(t) /\ u[k] = t[k - Len(s)]
    OBVIOUS
  <2>1. k - Len(s) \in 1..Len(t) /\ k = Len(s) + (k - Len(s))
    BY <1>2
  <2> QED
    BY <2>1, <1>1
<1>6. CASE j \in 1..Len(s)
  <2>1. i \in 1..Len(s)
    BY <1>2, <1>6
  <2> QED
    BY <2>1, <1>1, <1>2, <1>6 DEF Ordered
<1>7. CASE i \in 1..Len(s) /\ j \notin 1..Len(s)
  BY <1>1, <1>3, <1>4, <1>5, <1>7 DEF Before
<1>8. CASE i \notin 1..Len(s) /\ j \notin 1..Len(s)
  <2>1. /\ i - Len(s) \in 1..Len(t) /\ u[i] = t[i - Len(s)]
        /\ j - Len(s) \in 1..Len(t) /\ u[j] = t[j - Len(s)]
        /\ i - Len(s) < j - Len(s)
    BY <1>2, <1>5, <1>8
  <2> QED
    BY <2>1, <1>2 DEF Ordered
<1> QED
  BY <1>2, <1>6, <1>7, <1>8

(* The first one is before the others.                                     *)
LEMMA OrderedTail ==
  ASSUME NEW s \in Seq(Node), s # <<>>, Ordered(s)
  PROVE  /\ Ordered(Tail(s))
         /\ \A n \in ToSet(Tail(s)) : Head(s)[1] = n[1] => Head(s)[2] < n[2]
<1> DEFINE t == Tail(s)
<1>1. /\ Len(s) \in Nat /\ Len(s) >= 1 /\ Head(s) = s[1]
      /\ t \in Seq(Node) /\ Len(t) = Len(s) - 1
      /\ \A i \in 1..Len(s)-1 : t[i] = s[i+1]
  BY TailShape
<1> HIDE DEF t
<1>2. DOMAIN s = 1..Len(s) /\ DOMAIN t = 1..Len(s)-1
  BY <1>1, SeqShape
<1>3. \A i \in 1..Len(s)-1 : i + 1 \in 1..Len(s) /\ 1 < i + 1 /\ 1 \in 1..Len(s)
  BY <1>1
<1>4. \A i, j \in 1..Len(s)-1 : i < j => i + 1 < j + 1
  BY <1>1
<1>5. Ordered(t)
  <2> SUFFICES ASSUME NEW i \in 1..Len(s)-1, NEW j \in 1..Len(s)-1, i < j, t[i][1] = t[j][1]
               PROVE  t[i][2] < t[j][2]
    BY <1>2 DEF Ordered
  <2>1. t[i] = s[i+1] /\ t[j] = s[j+1]
    BY <1>1
  <2>2. i + 1 \in 1..Len(s) /\ j + 1 \in 1..Len(s) /\ i + 1 < j + 1
    BY <1>3
  <2>3. s[i+1][2] < s[j+1][2]
    BY <2>1, <2>2, <1>2 DEF Ordered
  <2> QED
    BY <2>1, <2>3
<1>6. ASSUME NEW n \in ToSet(t), Head(s)[1] = n[1] PROVE Head(s)[2] < n[2]
  <2>1. PICK i \in 1..Len(s)-1 : n = t[i]
    BY <1>1, HasPlace
  <2> QED
    BY <2>1, <1>1, <1>2, <1>3, <1>6 DEF Ordered
<1> QED
  BY <1>5, <1>6 DEF t

-----------------------------------------------------------------------------
(* The invariant.                                                          *)

(* The sequence of which it holds is the one found.                        *)
LEMMA ListedIs ==
  ASSUME NEW s
  PROVE  /\ Holds(s) => s \in Seq(Node) /\ Listed = s
         /\ Holds(s)' => s \in Seq(Node) /\ Listed' = s
<1>1. ASSUME Holds(s) PROVE s \in Seq(Node) /\ Listed = s
  <2>1. s \in Seq(Node) /\ Ordered(s) /\ Linked(list, s) /\ list.next \in [Node -> Node \cup {Nil}]
    BY <1>1 DEF Holds, OrderInv, PointerInv
  <2>2. Distinct(s)
    BY <2>1, OrderedDistinct
  <2> QED
    BY <2>1, <2>2, FoundIs DEF Listed
<1>2. ASSUME Holds(s)' PROVE s \in Seq(Node) /\ Listed' = s
  <2>1. s \in Seq(Node) /\ Ordered(s) /\ Linked(list', s) /\ list'.next \in [Node -> Node \cup {Nil}]
    BY <1>2 DEF Holds, OrderInv, PointerInv, Linked
  <2>2. Distinct(s)
    BY <2>1, OrderedDistinct
  <2>3. Found(list') = s
    BY <2>1, <2>2, FoundIs
  <2> QED
    BY <2>1, <2>3 DEF Listed
<1> QED
  BY <1>1, <1>2

(* At first nothing is there.                                              *)
LEMMA InitHolds == Init => Holds(<<>>)
<1> SUFFICES ASSUME Init PROVE Holds(<<>>)
  OBVIOUS
<1>1. <<>> \in Seq(Conn) /\ <<>> \in Seq(Node) /\ ToSet(<<>>) = {} /\ Len(<<>>) = 0
  BY DEF ToSet
<1>2. TableInv
  BY <1>1, NodeShape, ConnType DEF Init, TableInv, Distinct
<1>3. BatchInv
  BY <1>1 DEF Init, BatchInv
<1>4. OrderInv(<<>>)
  BY <1>1 DEF Init, OrderInv, Ordered, Before
<1>5. PointerInv(<<>>)
  BY <1>1 DEF Init, PointerInv, Linked
<1> QED
  BY <1>2, <1>3, <1>4, <1>5 DEF Holds

(* What is read is new: nothing that was there before is touched.          *)
LEMMA GrabHolds ==
  ASSUME NEW s, Holds(s), Grab
  PROVE  Holds(s)'
<1>1. TableInv /\ BatchInv /\ OrderInv(s) /\ PointerInv(s) /\ batch = <<>>
  BY DEF Holds, Grab
<1>2. UNCHANGED taken
  BY DEF Grab
<1>3. TableInv' /\ \E w : Reads(w)
  BY <1>1, GrabReads
<1>4. PICK w : Reads(w)
  BY <1>3
<1>5. /\ w \in Seq(Conn) /\ Distinct(w) /\ Len(w) \in Nat /\ DOMAIN w = 1..Len(w) /\ Len(w) # 0
      /\ \A i \in 1..Len(w) : w[i] \in Conn /\ w[i] \in ToSet(w)
  BY <1>4, SeqShape, HasPlace DEF Reads
<1>6. /\ read \in [Conn -> Nat]
      /\ \A c \in Conn : read'[c] = (IF c \in ToSet(w) THEN read[c] + 1 ELSE read[c])
      /\ \A c \in Conn : read'[c] \in Nat /\ read[c] <= read'[c]
  BY <1>1, <1>4 DEF Reads, TableInv
<1> DEFINE nodes == batch'
<1>7. /\ Len(nodes) = Len(w) /\ \A i \in 1..Len(w) : nodes[i] = <<w[i], read[w[i]] + 1>>
      /\ nodes # <<>> /\ DOMAIN nodes = 1..Len(w)
  BY <1>4, <1>5 DEF Reads, Next1
<1>8. \A i \in 1..Len(w) : nodes[i] \in Node
  <2> SUFFICES ASSUME NEW i \in 1..Len(w) PROVE nodes[i] \in Node
    OBVIOUS
  <2>1. w[i] \in Conn /\ read[w[i]] \in Nat /\ read[w[i]] + 1 <= Items(w[i])
    BY <1>4, <1>5, <1>6 DEF Reads
  <2>2. read[w[i]] + 1 \in Nat /\ read[w[i]] + 1 \in 1..Items(w[i])
    BY <2>1, NodeShape
  <2>3. <<w[i], read[w[i]] + 1>> \in Node
    BY <2>1, <2>2, NodeShape, Zenon
  <2> QED
    BY <2>3, <1>7
<1>9. nodes \in Seq(Node)
  BY <1>4, <1>5, <1>7, <1>8 DEF Reads
<1>10. /\ \A i, j \in DOMAIN nodes : nodes[i][1] = nodes[j][1] => i = j
       /\ Distinct(nodes)
  BY <1>5, <1>7 DEF Distinct
<1>11. \A n \in ToSet(nodes) : n \in Node /\ n[1] \in Conn /\ n[2] = read[n[1]] + 1 /\ n[2] = read'[n[1]]
  <2> SUFFICES ASSUME NEW n \in ToSet(nodes)
               PROVE  n \in Node /\ n[1] \in Conn /\ n[2] = read[n[1]] + 1 /\ n[2] = read'[n[1]]
    OBVIOUS
  <2>1. PICK i \in 1..Len(w) : n = nodes[i]
    BY <1>7, <1>9, HasPlace
  <2> QED
    BY <2>1, <1>5, <1>6, <1>7, <1>8
<1> HIDE DEF nodes
<1>12. /\ list.next \in [Node -> Node \cup {Nil}]
       /\ list'.next = Chained(list.next, nodes) /\ list'.head = list.head /\ list'.tail = list.tail
       /\ list'.next \in [Node -> Node \cup {Nil}]
       /\ list' \in [head : Node \cup {Nil}, tail : Node \cup {Nil}, next : [Node -> Node \cup {Nil}]]
  BY <1>1, <1>4, <1>9, <1>10, ChainedShape DEF PointerInv, Reads, nodes
<1>13. /\ \A i \in 1..Len(nodes)-1 : list'.next[nodes[i]] = nodes[i+1]
       /\ \A n \in Node : n \notin ToSet(nodes) => list'.next[n] = list.next[n]
       /\ list'.next[nodes[Len(nodes)]] = Nil
  <2>1. list'.next[nodes[Len(nodes)]] = list.next[nodes[Len(nodes)]]
    BY <1>7, <1>9, <1>10, <1>12, ChainedShape
  <2>2. nodes[Len(nodes)] \in ToSet(nodes)
    <3>1. Len(nodes) \in 1..Len(nodes)
      BY <1>5, <1>7
    <3> QED
      BY <3>1, <1>9, HasPlace
  <2>3. nodes[Len(nodes)] \in Node /\ nodes[Len(nodes)][2] > read[nodes[Len(nodes)][1]]
    BY <2>2, <1>6, <1>11
  <2>4. list.next[nodes[Len(nodes)]] = Nil
    BY <2>3, <1>1 DEF PointerInv
  <2> QED
    BY <2>1, <2>4, <1>9, <1>10, <1>12, ChainedShape
<1>14. ASSUME NEW n \in Node, n[2] <= read[n[1]]
       PROVE  n \notin ToSet(nodes) /\ n[2] <= read'[n[1]]
  BY <1>6, <1>11, <1>14, NodeShape
<1>15. /\ taken \in Seq(Node) /\ s \in Seq(Node)
       /\ \A n \in ToSet(taken) \cup ToSet(s) : n \in Node /\ n[2] <= read[n[1]]
  BY <1>1, SeqShape DEF OrderInv
<1>16. BatchInv'
  <2>1. last' = IF Lone(nodes) THEN Nil ELSE nodes[Len(nodes)]
    BY <1>4 DEF Reads, nodes
  <2>2. \A i \in 1..Len(nodes) :
          list'.next[nodes[i]] = IF i = Len(nodes) THEN Nil ELSE nodes[i+1]
    <3> SUFFICES ASSUME NEW i \in 1..Len(nodes)
                 PROVE  list'.next[nodes[i]] = IF i = Len(nodes) THEN Nil ELSE nodes[i+1]
      OBVIOUS
    <3> DEFINE last1 == Len(nodes)
    <3>1. last1 \in Nat
      BY <1>5, <1>7
    <3> HIDE DEF last1
    <3>2. i \in 1..last1
      BY DEF last1
    <3>3. i # last1 => i \in 1..last1-1
      BY <3>1, <3>2
    <3> QED
      BY <3>3, <1>13 DEF last1
  <2> QED
    BY <2>1, <2>2, <1>7, <1>9, <1>10 DEF BatchInv, nodes
<1>17. OrderInv(s)'
  <2>1. ASSUME NEW t \in Seq(Node), \A n \in ToSet(t) : n \in Node /\ n[2] <= read[n[1]]
        PROVE  Before(t, nodes)
    BY <2>1, <1>6, <1>11, NodeShape DEF Before
  <2>2. \A n \in ToSet(taken) \cup ToSet(s) \cup ToSet(nodes) : n[2] <= read'[n[1]]
    BY <1>6, <1>11, <1>14, <1>15
  <2>3. Before(taken, nodes) /\ Before(s, nodes)
    BY <2>1, <1>15
  <2> QED
    BY <2>2, <2>3, <1>1, <1>2, <1>15 DEF OrderInv, Ordered, Before, nodes
<1>18. PointerInv(s)'
  <2>1. \A i \in 1..Len(s) : s[i] \in ToSet(s)
    BY <1>15, HasPlace
  <2>2. \A i \in 1..Len(s) : list'.next[s[i]] = list.next[s[i]]
    BY <2>1, <1>13, <1>14, <1>15
  <2>3. Linked(list', s)
    BY <2>2, <1>1, <1>12 DEF PointerInv, Linked
  <2>4. ASSUME NEW n \in Node, n[2] > read'[n[1]] PROVE list'.next[n] = Nil
    <3>1. n[1] \in Conn /\ n[2] \in Nat
      BY NodeShape
    <3>2. n \notin ToSet(nodes) /\ n[2] > read[n[1]]
      BY <3>1, <2>4, <1>6, <1>11
    <3> QED
      BY <3>2, <1>1, <1>13 DEF PointerInv
  <2>5. ASSUME list.tail # Nil
        PROVE  /\ list'.next[list.tail] = Nil /\ list.tail[2] <= read'[list.tail[1]]
               /\ list.tail \notin ToSet(taken) \cup ToSet(nodes)
               /\ list.tail \in ToSet(s) => list.tail = s[Len(s)]
    <3>1. /\ list.tail \in Node /\ list.next[list.tail] = Nil /\ list.tail[2] <= read[list.tail[1]]
          /\ list.tail \notin ToSet(taken)
          /\ list.tail \in ToSet(s) => list.tail = s[Len(s)]
      BY <2>5, <1>1 DEF PointerInv
    <3> QED
      BY <3>1, <1>13, <1>14
  <2>6. s = <<>> => list.tail = Nil
    BY <1>1 DEF PointerInv
  <2> QED
    BY <2>3, <2>4, <2>5, <2>6, <1>2, <1>12 DEF PointerInv, Linked, nodes
<1> QED
  BY <1>3, <1>16, <1>17, <1>18 DEF Holds

(* Messages are handed over at the tail, or to a tail that is nowhere: t   *)
(* is what s becomes.                                                      *)
HandedOver(s, t) ==
  t = IF s # <<>> /\ list.tail # s[Len(s)] THEN s ELSE s \o batch

LEMMA FillHolds ==
  ASSUME NEW s, Holds(s), Fill, NEW t, HandedOver(s, t)
  PROVE  Holds(t)'
<1>1. /\ TableInv /\ BatchInv /\ OrderInv(s) /\ PointerInv(s)
      /\ batch # <<>> /\ list' = Added(list, batch, last) /\ pc' = Signalled(pc)
      /\ batch' = <<>> /\ last' = Nil
      /\ UNCHANGED <<table, read, taken, refused>>
  BY DEF Holds, Fill
<1> DEFINE k == Len(batch)
<1>2. /\ s \in Seq(Node) /\ taken \in Seq(Node) /\ batch \in Seq(Node)
      /\ Ordered(s) /\ Distinct(s) /\ Ordered(taken)
      /\ Before(taken, s) /\ Before(taken, batch) /\ Before(s, batch)
  BY <1>1, OrderedDistinct DEF OrderInv, BatchInv
<1>3. /\ k \in Nat /\ k >= 1 /\ DOMAIN batch = 1..k /\ 1 \in 1..k /\ k \in 1..k
      /\ \A i \in 1..k : batch[i] \in Node /\ batch[i] \in ToSet(batch)
      /\ Head(batch) = batch[1]
      /\ Len(s) \in Nat /\ DOMAIN s = 1..Len(s)
      /\ \A i \in 1..Len(s) : s[i] \in Node /\ s[i] \in ToSet(s)
      /\ s # <<>> <=> Len(s) >= 1
  <2>1. Len(batch) # 0 /\ (s = <<>> <=> Len(s) = 0)
    BY <1>1, <1>2, SeqShape
  <2>2. /\ k \in Nat /\ DOMAIN batch = 1..k /\ Len(s) \in Nat /\ DOMAIN s = 1..Len(s)
        /\ \A i \in 1..k : batch[i] \in Node
        /\ \A i \in 1..Len(s) : s[i] \in Node
    BY <1>2, SeqShape
  <2>3. \A i \in 1..k : batch[i] \in ToSet(batch)
    BY <1>2, HasPlace, Zenon
  <2>4. \A i \in 1..Len(s) : s[i] \in ToSet(s)
    BY <1>2, HasPlace, Zenon
  <2>5. Head(batch) = batch[1]
    BY <1>1, <1>2, TailShape
  <2> QED
    BY <2>1, <2>2, <2>3, <2>4, <2>5
<1>4. /\ \A i \in 1..k : list.next[batch[i]] = IF i = k THEN Nil ELSE batch[i+1]
      /\ last = batch[k] \/ last = Nil
  BY <1>1 DEF BatchInv
<1>5. Ordered(batch)
  <2> SUFFICES ASSUME NEW i \in DOMAIN batch, NEW j \in DOMAIN batch, i < j,
                      batch[i][1] = batch[j][1]
               PROVE  FALSE
    BY DEF Ordered
  <2>1. i = j
    BY <1>1 DEF BatchInv
  <2> QED
    BY <2>1, <1>3
<1>6. /\ list \in [head : Node \cup {Nil}, tail : Node \cup {Nil},
                   next : [Node -> Node \cup {Nil}]]
      /\ list.head = IF s = <<>> THEN Nil ELSE s[1]
      /\ \A i \in 1..Len(s) : list.next[s[i]] = IF i = Len(s) THEN Nil ELSE s[i+1]
      /\ \A n \in Node : n[2] > read[n[1]] => list.next[n] = Nil
      /\ s = <<>> => list.tail = Nil
      /\ list.tail # Nil =>
           /\ list.next[list.tail] = Nil /\ list.tail[2] <= read[list.tail[1]]
           /\ list.tail \notin ToSet(taken) \cup ToSet(batch)
           /\ list.tail \in ToSet(s) => list.tail = s[Len(s)]
  BY <1>1 DEF PointerInv, Linked
<1>7. /\ list'.head = IF s = <<>> THEN batch[1] ELSE s[1]
      /\ list'.tail = last
      /\ list'.next = IF list.tail = Nil THEN list.next
                      ELSE [list.next EXCEPT ![list.tail] = batch[1]]
      /\ list' \in [head : Node \cup {Nil}, tail : Node \cup {Nil},
                    next : [Node -> Node \cup {Nil}]]
  <2>1. s # <<>> => list.head # Nil
    <3> SUFFICES ASSUME s # <<>> PROVE list.head # Nil
      OBVIOUS
    <3>1. 1 \in 1..Len(s)
      BY <1>3
    <3>2. list.head = s[1] /\ s[1] \in Node
      BY <3>1, <1>3, <1>6
    <3> QED
      BY <3>2, NilIsNoNode
  <2>2. list' = [head |-> IF list.head = Nil THEN Head(batch) ELSE list.head,
                 tail |-> last,
                 next |-> IF list.tail = Nil THEN list.next
                          ELSE [list.next EXCEPT ![list.tail] = Head(batch)]]
    BY <1>1 DEF Added
  <2>3. list'.next \in [Node -> Node \cup {Nil}]
    BY <2>2, <1>3, <1>6
  <2>4. list'.head \in Node \cup {Nil} /\ last \in Node \cup {Nil}
    BY <2>2, <1>3, <1>4, <1>6
  <2> QED
    BY <2>1, <2>2, <2>3, <2>4, <1>3, <1>6
<1>8. /\ \A n \in Node : n # list.tail => list'.next[n] = list.next[n]
      /\ list.tail # Nil => list'.next[list.tail] = batch[1]
      /\ list.tail = Nil => list'.next = list.next
  BY <1>6, <1>7
<1>9. \A n \in ToSet(batch) : n # list.tail /\ n \notin ToSet(taken) /\ n \notin ToSet(s)
  <2> SUFFICES ASSUME NEW n \in ToSet(batch)
               PROVE  n # list.tail /\ n \notin ToSet(taken) /\ n \notin ToSet(s)
    OBVIOUS
  <2>1. n \in Node
    BY <1>2, SeqShape
  <2>2. ~ (n[2] < n[2])
    BY <2>1, NodeShape
  <2> QED
    BY <2>1, <2>2, <1>2, <1>6, NilIsNoNode DEF Before
<1> HIDE DEF k
<1>10. \A i \in 1..k : list'.next[batch[i]] = IF i = k THEN Nil ELSE batch[i+1]
  BY <1>3, <1>4, <1>8, <1>9
<1>11. /\ t \in Seq(Node) /\ Ordered(t) /\ Before(taken, t) /\ Linked(list', t)
       /\ \A n \in ToSet(t) : n[2] <= read[n[1]]
       /\ t # <<>> /\ (last # Nil /\ last \in ToSet(t) => last = t[Len(t)])
  <2>1. CASE s = <<>>
    <3>1. t = batch
      BY <2>1, <1>2 DEF HandedOver
    <3>2. Linked(list', batch)
      BY <2>1, <1>1, <1>7, <1>10 DEF Linked, k
    <3>3. \A n \in ToSet(batch) : n[2] <= read[n[1]]
      BY <1>1 DEF OrderInv
    <3> QED
      BY <3>1, <3>2, <3>3, <1>1, <1>2, <1>4, <1>5 DEF k
  <2>2. CASE s # <<>> /\ list.tail = s[Len(s)]
    <3>1. t = s \o batch
      BY <2>2 DEF HandedOver
    <3>2. /\ t \in Seq(Node) /\ Len(t) = Len(s) + k
          /\ \A i \in 1..Len(s) : t[i] = s[i]
          /\ \A i \in 1..k : t[Len(s) + i] = batch[i]
          /\ ToSet(t) = ToSet(s) \cup ToSet(batch)
      <4>1. /\ s \o batch \in Seq(Node) /\ Len(s \o batch) = Len(s) + Len(batch)
            /\ \A i \in 1..Len(s) : (s \o batch)[i] = s[i]
            /\ \A i \in 1..Len(batch) : (s \o batch)[Len(s) + i] = batch[i]
            /\ ToSet(s \o batch) = ToSet(s) \cup ToSet(batch)
        BY <1>2, ConcatShape
      <4> QED
        BY <3>1, <4>1 DEF k
    <3>3. Ordered(t)
      BY <3>1, <1>2, <1>5, OrderedConcat
    <3>4. Before(taken, t)
      BY <3>2, <1>2 DEF Before
    <3>5. \A n \in ToSet(t) : n[2] <= read[n[1]]
      BY <3>2, <1>1 DEF OrderInv
    <3>6. list.tail # Nil /\ Len(s) \in 1..Len(s) /\ list.tail \in Node
      BY <2>2, <1>3, NilIsNoNode
    <3>10. Len(s) \in Nat /\ k \in Nat /\ k >= 1 /\ Len(t) = Len(s) + k
      BY <3>2, <1>3 DEF k
    <3>7. ASSUME NEW i \in 1..Len(t)
          PROVE  list'.next[t[i]] = IF i = Len(t) THEN Nil ELSE t[i+1]
      <4>1. CASE i \in 1..Len(s)-1
        <5>1. i \in 1..Len(s) /\ i + 1 \in 1..Len(s) /\ i # Len(s) /\ i # Len(t)
          BY <4>1, <3>10
        <5>2. t[i] = s[i] /\ t[i+1] = s[i+1]
          BY <5>1, <3>2
        <5>3. s[i] # list.tail /\ s[i] \in Node
          BY <5>1, <3>6, <2>2, <1>2, <1>3 DEF Distinct
        <5> QED
          BY <5>1, <5>2, <5>3, <1>6, <1>8
      <4>2. CASE i = Len(s)
        <5>1. t[i] = list.tail /\ i # Len(t) /\ t[i+1] = batch[1]
          BY <4>2, <3>2, <3>6, <2>2, <1>3
        <5> QED
          BY <5>1, <3>6, <1>8
      <4>3. CASE i \notin 1..Len(s)
        <5> DEFINE j == i - Len(s)
        <5>1. j \in 1..k /\ i = Len(s) + j
          BY <4>3, <3>2, <1>3
        <5> HIDE DEF j
        <5>2. t[i] = batch[j] /\ (i = Len(t) <=> j = k)
          <6>1. t[i] = batch[j]
            BY <5>1, <3>2
          <6>2. i = Len(t) <=> j = k
            BY <5>1, <3>10
          <6> QED
            BY <6>1, <6>2
        <5>3. j # k => t[i+1] = batch[j+1]
          <6> SUFFICES ASSUME j # k PROVE t[i+1] = batch[j+1]
            OBVIOUS
          <6>1. j + 1 \in 1..k /\ i + 1 = Len(s) + (j + 1)
            BY <5>1, <1>3
          <6> QED
            BY <6>1, <3>2
        <5> QED
          BY <5>1, <5>2, <5>3, <1>10
      <4>4. i \in 1..Len(s)-1 \/ i = Len(s) \/ i \notin 1..Len(s)
        BY <3>10
      <4> QED
        BY <4>1, <4>2, <4>3, <4>4
    <3>8. Linked(list', t)
      <4>1. t # <<>> /\ t[1] = s[1]
        BY <3>2, <2>2, <1>3
      <4> QED
        BY <4>1, <3>7, <2>2, <1>7 DEF Linked
    <3>9. t # <<>> /\ t[Len(t)] = batch[k]
      BY <3>2, <1>3
    <3> QED
      BY <3>2, <3>3, <3>4, <3>5, <3>8, <3>9, <1>4 DEF k
  <2>3. CASE s # <<>> /\ list.tail # s[Len(s)]
    <3>1. t = s
      BY <2>3 DEF HandedOver
    <3>2. \A i \in 1..Len(s) : s[i] # list.tail
      BY <2>3, <1>3, <1>6, NilIsNoNode
    <3>3. Linked(list', s)
      BY <3>2, <2>3, <1>3, <1>6, <1>7, <1>8 DEF Linked
    <3>4. \A n \in ToSet(s) : n[2] <= read[n[1]]
      BY <1>1 DEF OrderInv
    <3>5. last # Nil => last \notin ToSet(s)
      BY <1>3, <1>4, <1>9 DEF k
    <3> QED
      BY <3>1, <3>3, <3>4, <3>5, <2>3, <1>2
  <2> QED
    BY <2>1, <2>2, <2>3
<1>12. TableInv'
  <2>1. pc' \in {"running", "waiting", "woken"}
    BY <1>1 DEF Signalled, TableInv
  <2> QED
    BY <2>1, <1>1 DEF TableInv
<1>13. ToSet(<<>>) = {} /\ <<>> \in Seq(Node) /\ Len(<<>>) = 0
  BY DEF ToSet
<1>14. BatchInv'
  BY <1>1, <1>13 DEF BatchInv
<1>15. OrderInv(t)'
  <2>1. \A n \in ToSet(taken) : n[2] <= read[n[1]]
    BY <1>1 DEF OrderInv
  <2> QED
    <3>1. Before(taken, <<>>) /\ Before(t, <<>>)
      BY <1>13 DEF Before
    <3>2. \A n \in ToSet(taken) \cup ToSet(t) \cup ToSet(<<>>) : n[2] <= read[n[1]]
      BY <2>1, <1>11, <1>13
    <3> QED
      BY <3>1, <3>2, <1>1, <1>2, <1>11 DEF OrderInv
<1>16. PointerInv(t)'
  <2>1. ASSUME NEW n \in Node, n[2] > read[n[1]] PROVE list'.next[n] = Nil
    <3>1. n[1] \in Conn /\ n[2] \in Nat /\ read[n[1]] \in Nat
      BY <1>1, NodeShape DEF TableInv
    <3>2. n # list.tail
      BY <3>1, <2>1, <1>6, NilIsNoNode
    <3> QED
      BY <3>2, <2>1, <1>6, <1>8
  <2>2. ASSUME last # Nil
        PROVE  /\ list'.next[last] = Nil /\ last[2] <= read[last[1]]
               /\ last \notin ToSet(taken)
    <3>1. last = batch[k] /\ last \in ToSet(batch)
      BY <2>2, <1>3, <1>4 DEF k
    <3>2. last[2] <= read[last[1]]
      BY <3>1, <1>1 DEF OrderInv
    <3> QED
      BY <3>1, <3>2, <1>3, <1>9, <1>10
  <2> QED
    BY <2>1, <2>2, <1>1, <1>7, <1>11, <1>13 DEF PointerInv, Linked
<1> QED
  BY <1>12, <1>14, <1>15, <1>16 DEF Holds

(* The dispatcher takes the head.                                          *)
LEMMA RecvHolds ==
  ASSUME NEW s, Holds(s), Recv
  PROVE  s # <<>> /\ taken' = Append(taken, Head(s)) /\ Holds(Tail(s))'
<1>1. /\ TableInv /\ BatchInv /\ OrderInv(s) /\ PointerInv(s)
      /\ list.head # Nil /\ taken' = Append(taken, list.head) /\ list' = Shortened(list)
      /\ pc' = "running" /\ UNCHANGED <<table, read, batch, last, refused>>
  BY DEF Holds, Recv
<1>2. /\ s \in Seq(Node) /\ taken \in Seq(Node) /\ batch \in Seq(Node)
      /\ Ordered(s) /\ Distinct(s) /\ Ordered(taken)
      /\ Before(taken, s) /\ Before(taken, batch) /\ Before(s, batch)
      /\ \A n \in ToSet(taken) \cup ToSet(s) \cup ToSet(batch) : n[2] <= read[n[1]]
  BY <1>1, OrderedDistinct DEF OrderInv, BatchInv
<1>3. s # <<>> /\ list.head = s[1]
  BY <1>1 DEF PointerInv, Linked
<1> DEFINE t == Tail(s)
           h == Head(s)
<1>4. /\ Len(s) \in Nat /\ Len(s) >= 1 /\ h = s[1] /\ h \in Node
      /\ t \in Seq(Node) /\ Len(t) = Len(s) - 1
      /\ \A i \in 1..Len(s)-1 : t[i] = s[i+1]
      /\ ToSet(s) = ToSet(t) \cup {h}
      /\ h \notin ToSet(t)
  BY <1>2, <1>3, TailShape
<1>5. Ordered(t) /\ \A n \in ToSet(t) : h[1] = n[1] => h[2] < n[2]
  BY <1>2, <1>3, OrderedTail
<1> HIDE DEF t, h
<1>6. /\ taken' = Append(taken, h) /\ taken' \in Seq(Node)
      /\ ToSet(taken') = ToSet(taken) \cup {h}
  BY <1>1, <1>2, <1>3, <1>4, AppendShape
<1>7. Ordered(taken')
  <2>1. \A m \in ToSet(taken) : m[1] = h[1] => m[2] < h[2]
    BY <1>2, <1>4 DEF Before
  <2> QED
    BY <2>1, <1>2, <1>4, <1>6, OrderedAppend
<1>8. Before(taken', t) /\ Before(taken', batch) /\ Before(t, batch)
  BY <1>2, <1>4, <1>5, <1>6 DEF Before
<1>9. /\ list \in [head : Node \cup {Nil}, tail : Node \cup {Nil},
                   next : [Node -> Node \cup {Nil}]]
      /\ \A i \in 1..Len(s) : list.next[s[i]] = IF i = Len(s) THEN Nil ELSE s[i+1]
      /\ \A n \in Node : n[2] > read[n[1]] => list.next[n] = Nil
      /\ list.tail # Nil =>
           /\ list.next[list.tail] = Nil /\ list.tail[2] <= read[list.tail[1]]
           /\ list.tail \notin ToSet(taken) \cup ToSet(batch)
           /\ list.tail \in ToSet(s) => list.tail = s[Len(s)]
  BY <1>1 DEF PointerInv, Linked
<1>10. list.next[h] = IF Len(s) = 1 THEN Nil ELSE t[1]
  BY <1>4, <1>9
<1>11. /\ list'.head = list.next[h] /\ list'.next = list.next
       /\ list'.tail = IF list.next[h] = Nil THEN Nil ELSE list.tail
       /\ list' \in [head : Node \cup {Nil}, tail : Node \cup {Nil},
                     next : [Node -> Node \cup {Nil}]]
  BY <1>1, <1>3, <1>4, <1>9 DEF Shortened
<1>12. t = <<>> <=> Len(s) = 1
  BY <1>4, SeqShape
<1>13. t # <<>> => /\ t[1] \in Node /\ Len(t) \in 1..Len(t) /\ t[Len(t)] = s[Len(s)]
                   /\ t[Len(t)] \in ToSet(t)
  <2> SUFFICES ASSUME t # <<>>
               PROVE  /\ t[1] \in Node /\ Len(t) \in 1..Len(t) /\ t[Len(t)] = s[Len(s)]
                      /\ t[Len(t)] \in ToSet(t)
    OBVIOUS
  <2>1. Len(t) \in Nat /\ Len(t) >= 1 /\ \A i \in 1..Len(t) : t[i] \in Node /\ t[i] \in ToSet(t)
    BY <1>4, <1>12, SeqShape, HasPlace
  <2>2. Len(t) \in 1..Len(s)-1 /\ Len(t) + 1 = Len(s)
    BY <2>1, <1>4
  <2> QED
    BY <2>1, <2>2, <1>4
<1>14. Linked(list', t)
  <2>1. ASSUME NEW i \in 1..Len(t)
        PROVE  list'.next[t[i]] = IF i = Len(t) THEN Nil ELSE t[i+1]
    <3>1. i \in 1..Len(s)-1 /\ i + 1 \in 1..Len(s) /\ t[i] = s[i+1]
      BY <1>4
    <3>2. i # Len(t) => i + 1 \in 1..Len(s)-1 /\ t[i+1] = s[i+1+1]
      BY <3>1, <1>4
    <3>3. i = Len(t) <=> i + 1 = Len(s)
      BY <3>1, <1>4
    <3> QED
      BY <3>1, <3>2, <3>3, <1>9, <1>11
  <2>2. list'.head = IF t = <<>> THEN Nil ELSE t[1]
    BY <1>10, <1>11, <1>12
  <2> QED
    BY <2>1, <2>2 DEF Linked
<1>15. ASSUME list'.tail # Nil
       PROVE  /\ list.tail = list'.tail /\ t # <<>>
              /\ list.tail \notin ToSet(taken') \cup ToSet(batch)
              /\ list.tail \in ToSet(t) => list.tail = t[Len(t)]
  <2>1. list.tail = list'.tail /\ list.next[h] # Nil /\ t # <<>>
    BY <1>10, <1>11, <1>12, <1>15
  <2>2. list.tail # h
    <3>1. s[Len(s)] # h
      BY <2>1, <1>4, <1>13
    <3> QED
      BY <3>1, <2>1, <1>4, <1>9, <1>15
  <2> QED
    BY <2>1, <2>2, <1>4, <1>6, <1>9, <1>13, <1>15
<1>16. t = <<>> => list'.tail = Nil
  BY <1>10, <1>11, <1>12
<1>17. OrderInv(t)'
  <2>1. \A n \in ToSet(taken') \cup ToSet(t) \cup ToSet(batch) : n[2] <= read[n[1]]
    BY <1>2, <1>4, <1>6
  <2> QED
    BY <2>1, <1>1, <1>4, <1>5, <1>6, <1>7, <1>8 DEF OrderInv, Ordered, Before
<1>18. PointerInv(t)'
  BY <1>1, <1>9, <1>11, <1>14, <1>15, <1>16 DEF PointerInv, Linked
<1>19. TableInv' /\ BatchInv'
  BY <1>1, <1>11 DEF TableInv, BatchInv
<1>20. Holds(t)'
  BY <1>17, <1>18, <1>19 DEF Holds
<1> QED
  BY <1>3, <1>6, <1>20 DEF t, h

(* What happens elsewhere.                                                 *)
LEMMA ElsewhereHolds ==
  ASSUME NEW s, Holds(s), UNCHANGED <<table, read, batch, last, list, taken>>,
         pc' \in {"running", "waiting", "woken"}, refused' \in 0..MaxRefused
  PROVE  Holds(s)'
<1>1. TableInv' /\ BatchInv'
  BY DEF Holds, TableInv, BatchInv
<1>2. OrderInv(s)'
  BY DEF Holds, OrderInv, Ordered, Before
<1>3. PointerInv(s)'
  BY DEF Holds, PointerInv, Linked
<1> QED
  BY <1>1, <1>2, <1>3 DEF Holds

-----------------------------------------------------------------------------
(* The theorems.                                                           *)

(* A batch is a lone CLEANUP_CONN when it is the sequence of one.          *)
LEMMA LoneShape ==
  ASSUME NEW s \in Seq(Node)
  PROVE  Lone(s) <=> \E n \in Cleanups : s = <<n>>
<1>1. ASSUME Len(s) = 1 PROVE s = <<s[1]>>
  BY <1>1
<1>2. \A n : Len(<<n>>) = 1 /\ <<n>>[1] = n
  OBVIOUS
<1> QED
  BY <1>1, <1>2 DEF Lone

(* Each step keeps the invariant, and does with the list what Fifo says.   *)
LEMMA StepHolds ==
  ASSUME IInv, [Next]_vars
  PROVE  IInv' /\ [Abstract!Next]_(Abstract!vars)
<1>1. PICK s \in Seq(Node) : Holds(s) /\ Listed = s
  BY ListedIs DEF IInv
<1>2. /\ pc \in {"running", "waiting", "woken"} /\ refused \in 0..MaxRefused
      /\ batch \in Seq(Node)
  BY <1>1 DEF Holds, TableInv, BatchInv
<1>3. TailLost <=> s # <<>> /\ list.tail # s[Len(s)]
  BY <1>1 DEF TailLost, Last
<1>4. ASSUME NEW t, Holds(t)'
      PROVE  IInv' /\ t \in Seq(Node) /\ Listed' = t
             /\ (TailLost' <=> t # <<>> /\ list'.tail # t[Len(t)])
  <2>1. t \in Seq(Node) /\ Listed' = t
    BY <1>4, ListedIs
  <2> QED
    BY <2>1, <1>4 DEF IInv, TailLost, Last
<1>5. CASE Grab
  <2>1. IInv' /\ Listed' = s /\ UNCHANGED taken
    BY <1>1, <1>4, <1>5, GrabHolds DEF Grab
  <2>2. PICK w : Reads(w)
    BY <1>1, <1>5, GrabReads DEF Holds
  <2>3. list'.tail = list.tail
    BY <2>2 DEF Reads
  <2>4. batch = <<>> /\ batch' # <<>>
    <3>1. Len(w) \in Nat /\ Len(w) # 0
      BY <2>2, SeqShape DEF Reads
    <3>2. Len(batch') # 0
      BY <3>1, <2>2 DEF Reads
    <3> QED
      BY <3>2, <1>5 DEF Grab
  <2>5. TailLost' = TailLost
    BY <2>3, <1>1, <1>3, <1>4, <1>5, GrabHolds DEF TailLost
  <2>6. Abstract!Fetch
    BY <2>1, <2>4, <2>5, <1>1 DEF Abstract!Fetch
  <2> QED
    BY <2>1, <2>6 DEF Abstract!Next
<1>6. CASE Fill
  <2> DEFINE t == IF TailLost THEN s ELSE s \o batch
  <2>1. PICK u : u = t
    OBVIOUS
  <2>2. HandedOver(s, u)
    BY <2>1, <1>3 DEF HandedOver
  <2>3. Holds(u)'
    BY <2>2, <1>1, <1>6, FillHolds
  <2>4. IInv' /\ Listed' = u
    BY <2>3, <1>4
  <2>5. batch # <<>> /\ batch' = <<>> /\ UNCHANGED taken /\ list'.tail = last
    BY <1>6 DEF Fill, Added
  <2>6. CASE TailLost
    <3>1. u = s /\ s # <<>>
      BY <2>1, <2>6, <1>3
    <3>2. last # s[Len(s)]
      <4>1. s[Len(s)] \in ToSet(s) /\ s[Len(s)] \in Node /\ \A n \in ToSet(batch) : n # s[Len(s)]
        <5>1. Before(s, batch)
          BY <1>1 DEF Holds, OrderInv
        <5>2. Len(s) \in 1..Len(s)
          BY <3>1, <1>1, SeqShape
        <5>3. s[Len(s)] \in ToSet(s) /\ s[Len(s)] \in Node
          BY <5>2, <1>1, HasPlace
        <5>4. s[Len(s)][2] \in Nat
          BY <5>3, NodeShape
        <5> QED
          BY <5>1, <5>3, <5>4 DEF Before
      <4>2. last = Nil \/ last = batch[Len(batch)]
        BY <2>5, <1>1 DEF Holds, BatchInv
      <4>3. batch[Len(batch)] \in ToSet(batch)
        <5>1. Len(batch) \in 1..Len(batch)
          BY <2>5, <1>2, SeqShape
        <5> QED
          BY <5>1, <1>2, HasPlace
      <4> QED
        BY <4>1, <4>2, <4>3, NilIsNoNode
    <3>3. TailLost'
      BY <3>1, <3>2, <2>3, <2>5, <1>4
    <3>4. TailLost' = TailLost
      BY <3>3, <2>6 DEF TailLost
    <3> QED
      BY <3>1, <3>4, <2>4, <2>5, <2>6, <1>1 DEF Abstract!Next, Abstract!Lose
  <2>7. CASE ~ TailLost
    <3>1. Listed' = Listed \o batch
      BY <2>1, <2>4, <2>7, <1>1
    <3>2. TailLost' <=> Lone(batch)
      <4>1. u = s \o batch
        BY <2>1, <2>7
      <4>2. /\ Len(batch) \in Nat /\ Len(batch) >= 1 /\ Len(s) \in Nat
            /\ Len(u) = Len(s) + Len(batch) /\ u[Len(s) + Len(batch)] = batch[Len(batch)]
        <5>1. Len(batch) \in Nat /\ Len(batch) # 0 /\ Len(s) \in Nat
          BY <2>5, <1>1, <1>2, SeqShape
        <5>2. /\ Len(s \o batch) = Len(s) + Len(batch)
              /\ \A i \in 1..Len(batch) : (s \o batch)[Len(s) + i] = batch[i]
          BY <1>1, <1>2, ConcatShape
        <5>3. Len(batch) \in 1..Len(batch)
          BY <5>1
        <5> QED
          BY <5>1, <5>2, <5>3, <4>1
      <4>3. u # <<>>
        BY <4>2, <2>3, <1>4, SeqShape
      <4>4. TailLost' <=> last # batch[Len(batch)]
        BY <4>2, <4>3, <2>3, <2>5, <1>4
      <4>5. batch[Len(batch)] # Nil
        <5>1. batch[Len(batch)] \in Node
          BY <4>2, <1>2
        <5> QED
          BY <5>1, NilIsNoNode
      <4> QED
        BY <4>4, <4>5, <2>5, <1>1 DEF Holds, BatchInv
    <3>3. Lone(batch) <=> \E n \in Cleanups : batch = <<n>>
      BY <1>2, LoneShape
    <3>4. TailLost' = (\E n \in Cleanups : batch = <<n>>)
      BY <3>2, <3>3 DEF TailLost
    <3> QED
      BY <3>1, <3>4, <2>4, <2>5, <2>7 DEF Abstract!Next, Abstract!HandOver
  <2> QED
    BY <2>6, <2>7
<1>7. CASE Recv
  <2>1. s # <<>> /\ taken' = Append(taken, Head(s)) /\ Holds(Tail(s))'
    BY <1>1, <1>7, RecvHolds
  <2> DEFINE t == Tail(s)
  <2>2. IInv' /\ Listed' = t /\ (TailLost' <=> t # <<>> /\ list'.tail # t[Len(t)])
    BY <2>1, <1>4
  <2>3. ASSUME TailLost' PROVE TailLost /\ t # <<>>
    <3>1. t # <<>> /\ list'.tail # t[Len(t)]
      BY <2>2, <2>3
    <3>2. t[Len(t)] = s[Len(s)] /\ t[1] \in Node /\ list.next[s[1]] = t[1]
      <4>1. /\ Len(s) \in Nat /\ Len(s) >= 1 /\ t \in Seq(Node) /\ Len(t) = Len(s) - 1
            /\ \A i \in 1..Len(s)-1 : t[i] = s[i+1]
        BY <2>1, <1>1, TailShape
      <4>2. Len(t) # 0 /\ \A i \in 1..Len(t) : t[i] \in Node
        BY <4>1, <3>1, SeqShape
      <4> HIDE DEF t
      <4>3. Len(t) \in 1..Len(s)-1 /\ Len(t) + 1 = Len(s) /\ 1 \in 1..Len(s) /\ 1 \in 1..Len(t)
            /\ 1 \in 1..Len(s)-1 /\ Len(s) # 1
        BY <4>1, <4>2
      <4>4. \A i \in 1..Len(s) : list.next[s[i]] = IF i = Len(s) THEN Nil ELSE s[i+1]
        BY <1>1 DEF Holds, PointerInv, Linked
      <4> QED
        BY <4>1, <4>2, <4>3, <4>4
    <3>3. list.head = s[1]
      BY <2>1, <1>1 DEF Holds, PointerInv, Linked
    <3>4. list'.tail = IF list.next[list.head] = Nil THEN Nil ELSE list.tail
      <4>1. list \in [head : Node \cup {Nil}, tail : Node \cup {Nil},
                      next : [Node -> Node \cup {Nil}]]
        BY <1>1 DEF Holds, PointerInv
      <4> QED
        BY <4>1, <1>7 DEF Recv, Shortened
    <3>5. list'.tail = list.tail
      BY <3>2, <3>3, <3>4, NilIsNoNode
    <3> QED
      BY <3>1, <3>2, <3>5, <2>1, <1>3
  <2>4. ASSUME TailLost, t # <<>> PROVE TailLost'
    <3>1. s # <<>> /\ list.tail # s[Len(s)]
      BY <2>4, <1>3
    <3>2. t[Len(t)] = s[Len(s)] /\ t[Len(t)] \in Node
      <4>1. /\ Len(s) \in Nat /\ Len(s) >= 1 /\ t \in Seq(Node) /\ Len(t) = Len(s) - 1
            /\ \A i \in 1..Len(s)-1 : t[i] = s[i+1]
        BY <2>1, <1>1, TailShape
      <4>2. Len(t) \in Nat /\ Len(t) # 0 /\ \A i \in 1..Len(t) : t[i] \in Node
        BY <4>1, <2>4, SeqShape
      <4> HIDE DEF t
      <4>3. Len(t) \in 1..Len(s)-1 /\ Len(t) + 1 = Len(s) /\ Len(t) \in 1..Len(t)
        BY <4>1, <4>2
      <4> QED
        BY <4>1, <4>2, <4>3
    <3>3. list'.tail = Nil \/ list'.tail = list.tail
      <4>1. list \in [head : Node \cup {Nil}, tail : Node \cup {Nil},
                      next : [Node -> Node \cup {Nil}]]
        BY <1>1 DEF Holds, PointerInv
      <4> QED
        BY <4>1, <1>7 DEF Recv, Shortened
    <3>4. list'.tail # t[Len(t)]
      BY <3>1, <3>2, <3>3, NilIsNoNode
    <3> QED
      BY <3>4, <2>2, <2>4
  <2>5. TailLost' = (TailLost /\ t # <<>>)
    BY <2>3, <2>4 DEF TailLost
  <2>6. Abstract!Take
    BY <2>1, <2>2, <2>5, <1>1, <1>7 DEF Abstract!Take, Recv
  <2> QED
    BY <2>2, <2>6 DEF Abstract!Next
<1>8. ASSUME UNCHANGED <<table, read, batch, last, list, taken>>,
             pc' \in {"running", "waiting", "woken"}, refused' \in 0..MaxRefused
      PROVE  IInv' /\ UNCHANGED Abstract!vars
  <2>1. Holds(s)'
    BY <1>1, <1>8, ElsewhereHolds
  <2>2. IInv'
    BY <2>1, <1>4
  <2>3. Listed' = Listed /\ TailLost' = TailLost
    BY <1>8 DEF Listed, TailLost, Last
  <2> QED
    BY <2>2, <2>3, <1>8 DEF Abstract!vars
<1>9. CASE FillNothing
  <2>1. pc' \in {"running", "waiting", "woken"} /\ refused' \in 0..MaxRefused
    BY <1>2, <1>9, ConnType DEF FillNothing, Signalled
  <2> QED
    BY <2>1, <1>8, <1>9 DEF FillNothing
<1>10. CASE RecvNothing
  BY <1>2, <1>8, <1>10 DEF RecvNothing
<1>11. CASE SpuriousWakeup
  BY <1>2, <1>8, <1>11 DEF SpuriousWakeup
<1>12. CASE UNCHANGED vars
  BY <1>2, <1>8, <1>12 DEF vars
<1> QED
  BY <1>5, <1>6, <1>7, <1>9, <1>10, <1>11, <1>12 DEF Next, Reader, Dispatcher

(* The invariant holds at first, when the list is a FIFO queue as well.    *)
LEMMA InitIInv == Init => IInv /\ Abstract!Init
<1> SUFFICES ASSUME Init PROVE IInv /\ Abstract!Init
  OBVIOUS
<1>1. Holds(<<>>) /\ Listed = <<>>
  BY InitHolds, ListedIs
<1>2. TailLost = FALSE
  BY <1>1 DEF TailLost
<1> QED
  BY <1>1, <1>2 DEF IInv, Init, Abstract!Init

(* The invariant that all of the following rests on.                       *)
THEOREM Invariance == Spec => []IInv
<1>1. IInv /\ [Next]_vars => IInv'
  BY StepHolds
<1> QED
  BY <1>1, InitIInv, PTL DEF Spec

(* The state keeps its type.                                               *)
THEOREM TypeCorrect == Spec => []TypeOK
<1>1. IInv => TypeOK
  <2> SUFFICES ASSUME IInv PROVE TypeOK
    OBVIOUS
  <2>1. TableInv /\ BatchInv /\ OrderInv(Listed) /\ PointerInv(Listed)
    BY DEF IInv, Holds
  <2>2. ToSet(table) \subseteq Conn /\ ToSet(batch) \subseteq Node /\ ToSet(taken) \subseteq Node
    BY <2>1, SeqShape DEF TableInv, BatchInv, OrderInv
  <2>3. last \in Node \cup {Nil}
    <3>1. batch # <<>> => batch[Len(batch)] \in Node
      <4>1. batch \in Seq(Node)
        BY <2>1 DEF BatchInv
      <4> QED
        BY <4>1
    <3> QED
      BY <3>1, <2>1 DEF BatchInv
  <2> QED
    BY <2>1, <2>2, <2>3 DEF TypeOK, TableInv, PointerInv
<1> QED
  BY <1>1, Invariance, PTL

(* The reader never writes to a node that FTBM_Recv has freed, and         *)
(* FTBM_Recv never returns one again, also when a lone CLEANUP_CONN made   *)
(* the tail pointer null (ftb_manager_lib.c:1110).                         *)
THEOREM NothingFreedIsUsed == Spec => []PointersAreLive
<1>1. IInv => PointersAreLive
  <2> SUFFICES ASSUME IInv PROVE PointersAreLive
    OBVIOUS
  <2>1. OrderInv(Listed) /\ PointerInv(Listed)
    BY DEF IInv, Holds
  <2>2. \A n \in ToSet(taken) : n \in Node /\ n[2] \in Nat /\ n # Nil
    <3>1. ToSet(taken) \subseteq Node
      BY <2>1, SeqShape DEF OrderInv
    <3> QED
      BY <3>1, NodeShape, NilIsNoNode
  <2>3. list.tail \notin ToSet(taken)
    BY <2>1, <2>2 DEF PointerInv
  <2>4. list.head \notin ToSet(taken)
    <3>1. CASE Listed = <<>>
      BY <3>1, <2>1, <2>2 DEF PointerInv, Linked
    <3>2. CASE Listed # <<>>
      <4>1. list.head = Listed[1]
        BY <3>2, <2>1 DEF PointerInv, Linked
      <4>2. Listed[1] \in ToSet(Listed)
        <5>1. Listed \in Seq(Node) /\ 1 \in 1..Len(Listed)
          BY <3>2, <2>1, TailShape DEF OrderInv
        <5> QED
          BY <5>1, HasPlace
      <4> QED
        BY <4>1, <4>2, <2>1, <2>2 DEF OrderInv, Before
    <3> QED
      BY <3>1, <3>2
  <2> QED
    BY <2>3, <2>4 DEF PointersAreLive
<1> QED
  BY <1>1, Invariance, PTL

(* The messages of a connection come out in the order they were written,   *)
(* each once, and its CLEANUP_CONN last, although it is put in front of    *)
(* the batch it is found in (ftb_manager_lib.c:1100).                      *)
THEOREM TakenInOrder == Spec => []InOrder
<1>1. IInv => InOrder
  BY DEF IInv, Holds, OrderInv, Ordered, InOrder
<1> QED
  BY <1>1, Invariance, PTL

(* The linked list is the FIFO queue that module Backplane takes it for,   *)
(* except while its tail pointer is lost (ftb_manager_lib.c:1111).         *)
THEOREM ListImplementsFifo == Spec => ListIsFifo
<1>1. IInv /\ [Next]_vars => [Abstract!Next]_(Abstract!vars)
  BY StepHolds
<1>2. Init => Abstract!Init
  BY InitIInv
<1> QED
  BY <1>1, <1>2, Invariance, PTL DEF Spec, ListIsFifo, Abstract!Spec
=============================================================================
