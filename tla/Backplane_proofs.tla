-------------------------- MODULE Backplane_proofs --------------------------
(* Theorems about Backplane, for every set of agents, processes, handles,  *)
(* masks and events, every initial tree and every bound: the type of the   *)
(* state, the agreement of the routing tables of every agent, the parent   *)
(* being a peer, and, once nothing is in flight, the peers being the right *)
(* ones and every subscription being routed to its holder from everywhere. *)
EXTENDS Backplane, Lists_proofs

(* An open handle belongs to a process that runs, and a client process     *)
(* that runs is attached to an agent.                                      *)
Attached ==
  /\ \A c \in handles : HostOf[c] \in up
  /\ \A p \in up \cap Process : attach[p] \in Agent

(* The inductive invariant.  RemoveComps takes a component out of the      *)
(* catch map of the masks in its own catch set: that it is then in none    *)
(* needs TablesAgreeEverywhere before the step.  ParentIsPeer needs it     *)
(* that whoever removes the parent reconnects.                             *)
IInv ==
  /\ TypeOK
  /\ Attached
  /\ TablesAgreeEverywhere
  /\ ParentIsPeer

-----------------------------------------------------------------------------
(* What the routines of Manager preserve: the shape of the tables, their   *)
(* agreement, and the parent being a peer.                                 *)

(* The empty tables of an agent that starts are in order.                  *)
LEMMA EmptyInfoOK ==
  EmptyInfo \in Info /\ TablesAgree(EmptyInfo) /\ ParentInPeers(EmptyInfo)
BY DEF EmptyInfo, Info, TablesAgree, ParentInPeers

(* Adding a peer that is not there yet, with an empty catch set.           *)
LEMMA AddPeerOK ==
  ASSUME NEW I \in Info, NEW id \in Comp, id \notin I.peers
  PROVE  /\ AddPeer(I, id) \in Info
         /\ AddPeer(I, id).parent = I.parent
         /\ TablesAgree(I) => TablesAgree(AddPeer(I, id))
         /\ ParentInPeers(I) => ParentInPeers(AddPeer(I, id))
BY DEF AddPeer, Info, TablesAgree, ParentInPeers

(* After FTBMI_util_reconnect the new parent is a peer, whatever the old   *)
(* one was: here ParentInPeers is established, not just preserved.         *)
LEMMA AddParentOK ==
  ASSUME NEW I \in Info, NEW p \in Agent
  PROVE  /\ AddParent(I, p) \in Info
         /\ AddParent(I, p).parent = p
         /\ TablesAgree(I) => TablesAgree(AddParent(I, p))
         /\ ParentInPeers(AddParent(I, p))
<1>1. p \in Comp
  BY DEF Comp
<1>2. CASE p \in I.peers
  BY <1>2 DEF AddParent, Info, TablesAgree, ParentInPeers
<1>3. CASE p \notin I.peers
  <2>1. AddParent(I, p) = [AddPeer(I, p) EXCEPT !.parent = p]
    BY <1>3 DEF AddParent
  <2>2. AddPeer(I, p) \in Info /\ (TablesAgree(I) => TablesAgree(AddPeer(I, p)))
    BY <1>1, <1>3, AddPeerOK
  <2>3. p \in AddPeer(I, p).peers
    BY <1>1 DEF AddPeer, Info
  <2> QED
    BY <2>1, <2>2, <2>3 DEF Info, TablesAgree, ParentInPeers
<1> QED
  BY <1>2, <1>3

(* A root gives its old parent up.                                         *)
LEMMA NoParentOK ==
  ASSUME NEW I \in Info
  PROVE  LET J == [I EXCEPT !.parent = NoAgent]
         IN /\ J \in Info
            /\ J.parent = NoAgent
            /\ TablesAgree(I) => TablesAgree(J)
            /\ ParentInPeers(J)
BY DEF Info, TablesAgree, ParentInPeers

(* A subscription enters both tables, for a peer.                          *)
LEMMA AddCatchOK ==
  ASSUME NEW I \in Info, NEW id \in Comp, NEW m \in Mask, id \in I.peers
  PROVE  /\ AddCatch(I, id, m) \in Info
         /\ AddCatch(I, id, m).parent = I.parent
         /\ TablesAgree(I) => TablesAgree(AddCatch(I, id, m))
         /\ ParentInPeers(I) => ParentInPeers(AddCatch(I, id, m))
BY DEF AddCatch, Info, TablesAgree, ParentInPeers

(* A subscription leaves both tables.                                      *)
LEMMA DropCatchOK ==
  ASSUME NEW I \in Info, NEW id \in Comp, NEW m \in Mask
  PROVE  /\ DropCatch(I, id, m) \in Info
         /\ DropCatch(I, id, m).parent = I.parent
         /\ TablesAgree(I) => TablesAgree(DropCatch(I, id, m))
         /\ ParentInPeers(I) => ParentInPeers(DropCatch(I, id, m))
BY DEF DropCatch, Info, TablesAgree, ParentInPeers

(* Components leave peers and both tables.  That the catch map loses each  *)
(* of them altogether needs the tables to agree before; the parent must    *)
(* not be among them, or be replaced afterwards.                           *)
LEMMA RemoveCompsOK ==
  ASSUME NEW I \in Info, NEW C \in SUBSET Comp
  PROVE  /\ RemoveComps(I, C) \in Info
         /\ RemoveComps(I, C).parent = I.parent
         /\ TablesAgree(I) => TablesAgree(RemoveComps(I, C))
         /\ ParentInPeers(I) /\ I.parent \notin C => ParentInPeers(RemoveComps(I, C))
<1> DEFINE J == RemoveComps(I, C)
<1>1. /\ J.peers = I.peers \ C
      /\ J.catchSet = [c \in Comp |-> IF c \in C THEN {} ELSE I.catchSet[c]]
      /\ J.catchMap = [m \in Mask |-> {c \in I.catchMap[m] : ~ (c \in C /\ m \in I.catchSet[c])}]
      /\ J.parent = I.parent
      /\ J \in Info
  BY DEF RemoveComps, Info
<1>2. ASSUME TablesAgree(I) PROVE TablesAgree(J)
  <2>1. \A m \in Mask, c \in Comp : c \in J.catchMap[m] <=> c \in I.catchMap[m] /\ c \notin C
    BY <1>1, <1>2 DEF TablesAgree
  <2>2. \A m \in Mask, c \in Comp : m \in J.catchSet[c] <=> m \in I.catchSet[c] /\ c \notin C
    BY <1>1
  <2>3. \A m \in Mask : J.catchMap[m] \subseteq Comp
    BY <1>1 DEF Info
  <2> QED
    BY <1>1, <1>2, <2>1, <2>2, <2>3 DEF TablesAgree
<1> QED
  BY <1>1, <1>2 DEF ParentInPeers

-----------------------------------------------------------------------------
(* Sets that are finite, and what an enumeration of one is.                *)

(* Every set of components or of masks is finite: it can be enumerated.    *)
LEMMA FiniteSubsets ==
  /\ \A S \in SUBSET Mask : IsFiniteSet(S)
  /\ \A S \in SUBSET Comp : IsFiniteSet(S)
  /\ \A S \in SUBSET Location : IsFiniteSet(S)
<1>1. Location \subseteq Comp
  BY DEF Location, Comp
<1> QED
  BY <1>1, Finiteness, FS_Subset DEF Comp

(* SetToSeqs and SetToSeq enumerate the members of a finite set.           *)
LEMMA Enumerations ==
  ASSUME NEW S, IsFiniteSet(S)
  PROVE  SetToSeqs(S) \subseteq Seq(S) /\ SetToSeq(S) \in Seq(S)
<1> DEFINE n == Cardinality(S)
<1>1. n \in Nat /\ ExistsBijection(1..n, S)
  BY FS_CardinalityType
<1>2. \A f \in [1..n -> S] : f \in Seq(S)
  BY <1>1
<1>3. \E f \in [1..n -> S] : IsInjective(f)
  <2>1. PICK f \in [1..n -> S] : f \in Bijection(1..n, S)
    BY <1>1 DEF ExistsBijection, Bijection, Injection
  <2> QED
    BY <2>1 DEF Bijection, Injection, IsInjective
<1> QED
  BY <1>2, <1>3 DEF SetToSeqs, SetToSeq

(* An enumeration lists every member.                                      *)
LEMMA Listed ==
  ASSUME NEW S, IsFiniteSet(S), NEW q \in SetToSeqs(S)
  PROVE  /\ \A i \in DOMAIN q : q[i] \in S
         /\ \A m \in S : \E i \in DOMAIN q : q[i] = m
<1> DEFINE D == 1..Cardinality(S)
<1>1. q \in [D -> S] /\ \A i, j \in D : i # j => q[i] # q[j]
  BY DEF SetToSeqs
<1>2. Cardinality(S) \in Nat
  BY FS_CardinalityType
<1>3. IsFiniteSet(D) /\ Cardinality(D) = Cardinality(S)
  <2>1. IsFiniteSet(D) /\ Cardinality(D) = IF 1 > Cardinality(S) THEN 0 ELSE Cardinality(S) - 1 + 1
    BY <1>2, FS_Interval
  <2> QED
    BY <1>2, <2>1
<1> HIDE DEF D
<1>4. q \in Injection(D, S)
  BY <1>1 DEF Injection, IsInjective
<1>5. q \in Surjection(D, S)
  BY <1>3, <1>4, FS_Injection
<1> QED
  BY <1>1, <1>5 DEF Surjection

-----------------------------------------------------------------------------
(* Messages and what is sent.                                              *)

(* Agents, processes and clients are components; where a component is.     *)
LEMMA Ids ==
  /\ Agent \subseteq Location /\ Process \subseteq Location /\ Location \subseteq Comp
  /\ NoAgent \notin Comp /\ NoAgent \notin Location /\ NoAgent \notin Agent
  /\ \A id \in Comp : LocationOf(id) \in Location
  /\ \A loc \in Location : LocationOf(loc) = loc
BY IdsAreDistinct, HostOfType DEF Location, Comp, LocationOf

(* The constructors of messages build messages.                            *)
LEMMA MessageTypes ==
  /\ \A id \in Comp : Reg(id) \in Message /\ Dereg(id) \in Message
  /\ \A id \in Comp, m \in Mask : RegSub(id, m) \in Message /\ CancelSub(id, m) \in Message
  /\ \A id \in Comp, e \in Event : Notify(e, id) \in Message
  /\ EOF \in Message
BY DEF Message, Reg, Dereg, RegSub, CancelSub, Notify, EOF

(* A batch of registrations, cancels or events is a sequence of messages.  *)
LEMMA SequenceTypes ==
  /\ \A id \in Comp, q \in Seq(Mask) :
       RegSubs(id, q) \in Seq(Message) /\ CancelSubs(id, q) \in Seq(Message)
  /\ \A e \in Event, q \in Seq(Comp) : Notifies(e, q) \in Seq(Message)
BY MessageTypes DEF RegSubs, CancelSubs, Notifies

(* The orders in which masks are sent are sequences of masks.              *)
LEMMA MaskOrders ==
  ASSUME NEW S \in SUBSET Mask
  PROVE  SetToSeqs(S) \subseteq Seq(Mask) /\ SetToSeq(S) \in Seq(Mask)
<1>1. SetToSeqs(S) \subseteq Seq(S) /\ SetToSeq(S) \in Seq(S)
  BY FiniteSubsets, Enumerations
<1>2. Seq(S) \subseteq Seq(Mask)
  OBVIOUS
<1> QED
  BY <1>1, <1>2

(* A handler that sends nothing sends a sequence to each location.         *)
LEMMA SilenceType == Silence \in [Location -> Seq(Message)]
BY DEF Silence

(* Sending the same messages to some locations is well-typed.              *)
LEMMA CastType ==
  ASSUME NEW dsts, NEW ms \in Seq(Message)
  PROVE  Cast(dsts, ms) \in [Location -> Seq(Message)]
BY DEF Cast

(* The connections and the streams stay well-formed.                       *)
LEMMA NetStepType ==
  ASSUME conn \in [Location -> SUBSET Location],
         net \in [Location -> [Location -> Seq(Message)]],
         NEW x \in Location, NEW out \in [Location -> Seq(Message)],
         NEW closed, NEW p, NetStep(x, out, closed, p)
  PROVE  /\ conn' \in [Location -> SUBSET Location]
         /\ net' \in [Location -> [Location -> Seq(Message)]]
<1>1. conn' \in [Location -> SUBSET Location]
  BY DEF NetStep
<1>2. <<EOF>> \in Seq(Message)
  BY MessageTypes
<1>3. \A l, k \in Location :
        /\ net[l][k] \in Seq(Message)
        /\ net[x][k] \o out[k] \o (IF k \in closed THEN <<EOF>> ELSE <<>>) \in Seq(Message)
        /\ (IF k = p THEN out[k] ELSE net[x][k]) \in Seq(Message)
        /\ <<>> \in Seq(Message)
  BY <1>2
<1>4. net' \in [Location -> [Location -> Seq(Message)]]
  BY <1>3, Zenon DEF NetStep
<1> QED
  BY <1>1, <1>4

-----------------------------------------------------------------------------
(* The end of every handler, and joining the tree.                         *)

(* FTBN_Connect names another agent, or nobody.                            *)
LEMMA OffersType ==
  ASSUME NEW a \in Agent, NEW p \in Offers(a)
  PROVE  p \in Agent \cup {NoAgent} /\ p # a
BY Ids DEF Offers

(* An agent that joins with tables that agree has tables that agree, and   *)
(* its parent among its peers.                                             *)
LEMMA JoinOK ==
  ASSUME TypeOK, TablesAgreeEverywhere, ParentIsPeer,
         NEW a \in Agent, NEW J \in Info, TablesAgree(J),
         NEW out \in [Location -> Seq(Message)], NEW closed,
         Join(a, J, out, closed)
  PROVE  /\ info' \in [Agent -> Info] /\ \A b \in Agent : info'[b].parent # b
         /\ conn' \in [Location -> SUBSET Location]
         /\ net' \in [Location -> [Location -> Seq(Message)]]
         /\ TablesAgreeEverywhere' /\ ParentIsPeer'
<1>1. PICK p \in Offers(a), q \in SetToSeqs(CaughtMasks(J)) :
        LET greeting == IF p \in J.peers THEN <<Reg(a)>> ELSE <<Reg(a)>> \o RegSubs(a, q)
        IN /\ info' = [info EXCEPT ![a] = IF p = NoAgent
                                          THEN [J EXCEPT !.parent = NoAgent]
                                          ELSE AddParent(J, p)]
           /\ NetStep(a, [l \in Location |-> IF l = p THEN out[l] \o greeting ELSE out[l]],
                      closed, p)
  BY DEF Join
<1> DEFINE K == IF p = NoAgent THEN [J EXCEPT !.parent = NoAgent] ELSE AddParent(J, p)
           greeting == IF p \in J.peers THEN <<Reg(a)>> ELSE <<Reg(a)>> \o RegSubs(a, q)
           sent == [l \in Location |-> IF l = p THEN out[l] \o greeting ELSE out[l]]
<1>2. p \in Agent \cup {NoAgent} /\ p # a
  BY OffersType
<1>3. K \in Info /\ K.parent = p /\ TablesAgree(K) /\ ParentInPeers(K)
  BY <1>2, NoParentOK, AddParentOK
<1>4. sent \in [Location -> Seq(Message)]
  <2>1. q \in Seq(Mask)
    BY MaskOrders DEF CaughtMasks
  <2>2. <<Reg(a)>> \in Seq(Message) /\ RegSubs(a, q) \in Seq(Message)
    BY <2>1, Ids, MessageTypes, SequenceTypes
  <2>3. greeting \in Seq(Message)
    BY <2>2
  <2> HIDE DEF greeting
  <2> QED
    BY <2>3
<1>5. conn' \in [Location -> SUBSET Location] /\ net' \in [Location -> [Location -> Seq(Message)]]
  <2>1. NetStep(a, sent, closed, p)
    BY <1>1
  <2> HIDE DEF sent
  <2> QED
    BY <2>1, <1>4, Ids, NetStepType DEF TypeOK
<1>6. info' = [info EXCEPT ![a] = K]
  BY <1>1
<1> HIDE DEF K
<1>7. info' \in [Agent -> Info] /\ \A b \in Agent : info'[b].parent # b
  BY <1>2, <1>3, <1>6 DEF TypeOK
<1>8. TablesAgreeEverywhere' /\ ParentIsPeer'
  BY <1>3, <1>6 DEF TypeOK, TablesAgreeEverywhere, ParentIsPeer
<1> QED
  BY <1>5, <1>7, <1>8

(* A handler of a keeps the invariant when the tables it leaves behind     *)
(* agree, and hold the parent unless the parent is replaced.               *)
LEMMA FinishOK ==
  ASSUME IInv, NEW a \in Agent, queue[a] # <<>>,
         NEW J \in Info, TablesAgree(J),
         NEW out \in [Location -> Seq(Message)],
         NEW closed, NEW errors \in SUBSET conn[a],
         NEW lostParent \in BOOLEAN,
         ~ lostParent => ParentInPeers(J) /\ J.parent = info[a].parent,
         Finish(a, J, out, closed, errors, lostParent)
  PROVE  IInv'
<1>1. PICK failed \in SUBSET (Broken(a, out) \ closed) :
        LET ended == closed \cup errors \cup failed
            total == writeErrors + Cardinality(errors \cup failed)
        IN /\ writeErrors' = total
           /\ IF lostParent
              THEN Join(a, J, out, ended)
              ELSE /\ info' = [info EXCEPT ![a] = J]
                   /\ NetStep(a, out, ended, NoAgent)
  BY DEF Finish
<1>2. writeErrors' \in Nat
  <2>1. conn[a] \in SUBSET Location
    BY Ids DEF IInv, TypeOK
  <2>2. errors \cup failed \in SUBSET Location
    BY <2>1 DEF Broken
  <2>3. Cardinality(errors \cup failed) \in Nat
    BY <2>2, FiniteSubsets, FS_CardinalityType
  <2> QED
    BY <1>1, <2>3 DEF IInv, TypeOK
<1>3. queue' \in [Agent -> Seq(QueueEntry)]
  BY DEF IInv, TypeOK, Finish
<1>4. /\ info' \in [Agent -> Info] /\ \A b \in Agent : info'[b].parent # b
      /\ conn' \in [Location -> SUBSET Location]
      /\ net' \in [Location -> [Location -> Seq(Message)]]
      /\ TablesAgreeEverywhere' /\ ParentIsPeer'
  <2>1. CASE lostParent
    BY <1>1, <2>1, JoinOK DEF IInv
  <2>2. CASE ~ lostParent
    <3>1. info' = [info EXCEPT ![a] = J]
      BY <1>1, <2>2
    <3>2. /\ conn' \in [Location -> SUBSET Location]
          /\ net' \in [Location -> [Location -> Seq(Message)]]
      BY <1>1, <2>2, Ids, NetStepType DEF IInv, TypeOK
    <3>3. info' \in [Agent -> Info] /\ \A b \in Agent : info'[b].parent # b
      BY <3>1, <2>2 DEF IInv, TypeOK
    <3>4. TablesAgreeEverywhere' /\ ParentIsPeer'
      BY <3>1, <2>2 DEF IInv, TypeOK, TablesAgreeEverywhere, ParentIsPeer
    <3> QED
      BY <3>2, <3>3, <3>4
  <2> QED
    BY <2>1, <2>2
<1> QED
  BY <1>2, <1>3, <1>4 DEF IInv, TypeOK, Attached, Finish, app

-----------------------------------------------------------------------------
(* The handlers of the dispatcher, one lemma each.                         *)

(* What the dispatcher takes from the queue.                               *)
LEMMA Taken ==
  ASSUME TypeOK, NEW a \in Agent, NEW type, Takes(a, type)
  PROVE  LET msg == Head(queue[a]).msg IN
         /\ queue[a] # <<>>
         /\ Head(queue[a]).from \in Location
         /\ type \in {"CLIENT_REG", "CLIENT_DEREG"} => msg.src \in Comp
         /\ type \in {"REG_SUBSCRIPTION", "SUBSCRIPTION_CANCEL"}
              => msg.src \in Comp /\ msg.mask \in Mask
         /\ type = "NOTIFY" => msg.event \in Event
<1>1. queue[a] \in Seq(QueueEntry) /\ queue[a] # <<>>
  BY DEF TypeOK, Takes
<1>2. Head(queue[a]) \in QueueEntry
  BY <1>1
<1>3. Head(queue[a]).from \in Location /\ Head(queue[a]).msg \in Message
  BY <1>2 DEF QueueEntry
<1> QED
  BY <1>1, <1>3 DEF Takes, Message

(* Most handlers only answer.                                              *)
LEMMA AnswerOK ==
  ASSUME IInv, NEW a \in Agent, queue[a] # <<>>,
         NEW J \in Info, TablesAgree(J), ParentInPeers(J), J.parent = info[a].parent,
         NEW out \in [Location -> Seq(Message)],
         Answer(a, J, out)
  PROVE  IInv'
<1>1. Finish(a, J, out, {}, {}, FALSE)
  BY DEF Answer
<1>2. {} \in SUBSET conn[a] /\ FALSE \in BOOLEAN
  OBVIOUS
<1> QED
  BY <1>1, <1>2, FinishOK

(* The tables of an agent, under the invariant.                            *)
LEMMA TablesOK ==
  ASSUME IInv, NEW a \in Agent
  PROVE  info[a] \in Info /\ TablesAgree(info[a]) /\ ParentInPeers(info[a])
BY DEF IInv, TypeOK, TablesAgreeEverywhere, ParentIsPeer

(* FTBM_Client_register preserves the invariant: the new peer catches      *)
(* nothing.                                                                *)
LEMMA ClientRegOK ==
  ASSUME IInv, NEW a \in Agent, HandleClientReg(a)
  PROVE  IInv'
<1> DEFINE I == info[a]
           id == Head(queue[a]).msg.src
<1>1. queue[a] # <<>> /\ id \in Comp
  BY Taken DEF HandleClientReg, IInv
<1>2. CASE id \in I.peers /\ Answer(a, I, Silence)
  BY <1>1, <1>2, TablesOK, SilenceType, AnswerOK
<1>3. ASSUME id \notin I.peers,
             NEW q \in SetToSeqs(CaughtMasks(I)),
             Answer(a, AddPeer(I, id), Cast({id} \cap Agent, RegSubs(a, q)))
      PROVE  IInv'
  <2>1. q \in Seq(Mask)
    BY MaskOrders DEF CaughtMasks
  <2>2. RegSubs(a, q) \in Seq(Message)
    BY <2>1, Ids, SequenceTypes
  <2>3. Cast({id} \cap Agent, RegSubs(a, q)) \in [Location -> Seq(Message)]
    BY <2>2, CastType
  <2>4. /\ AddPeer(I, id) \in Info /\ AddPeer(I, id).parent = I.parent
        /\ TablesAgree(AddPeer(I, id)) /\ ParentInPeers(AddPeer(I, id))
    BY <1>1, <1>3, TablesOK, AddPeerOK
  <2> QED
    BY <1>1, <1>3, <2>3, <2>4, AnswerOK
<1> QED
  BY <1>2, <1>3 DEF HandleClientReg

(* FTBM_Register_subscription preserves the invariant: the mask enters     *)
(* both tables, or neither changes when the component has it already.      *)
LEMMA RegSubscriptionOK ==
  ASSUME IInv, NEW a \in Agent, HandleRegSubscription(a)
  PROVE  IInv'
<1> DEFINE I == info[a]
           id == Head(queue[a]).msg.src
           m == Head(queue[a]).msg.mask
           news == Cast(PropagateTo(I, LocationOf(id)), <<RegSub(a, m)>>)
<1>1. queue[a] # <<>> /\ id \in Comp /\ m \in Mask
  BY Taken DEF HandleRegSubscription, IInv
<1>2. news \in [Location -> Seq(Message)]
  <2>1. <<RegSub(a, m)>> \in Seq(Message)
    BY <1>1, Ids, MessageTypes
  <2> QED
    BY <2>1, CastType
<1>3. ASSUME NEW out \in {Silence, news}, Answer(a, I, out)
      PROVE  IInv'
  <2>1. out \in [Location -> Seq(Message)]
    BY <1>2, SilenceType
  <2> QED
    BY <1>1, <1>3, <2>1, TablesOK, AnswerOK
<1>4. CASE id \in I.peers /\ Answer(a, AddCatch(I, id, m), news)
  <2>1. /\ AddCatch(I, id, m) \in Info /\ AddCatch(I, id, m).parent = I.parent
        /\ TablesAgree(AddCatch(I, id, m)) /\ ParentInPeers(AddCatch(I, id, m))
    BY <1>1, <1>4, TablesOK, AddCatchOK
  <2> HIDE DEF news
  <2> QED
    BY <1>1, <1>2, <1>4, <2>1, AnswerOK
<1> QED
  BY <1>3, <1>4 DEF HandleRegSubscription

(* FTBM_Cancel_subscription preserves the invariant: the mask leaves both  *)
(* tables.                                                                 *)
LEMMA CancelOK ==
  ASSUME IInv, NEW a \in Agent, HandleCancel(a)
  PROVE  IInv'
<1> DEFINE I == info[a]
           id == Head(queue[a]).msg.src
           m == Head(queue[a]).msg.mask
           J == DropCatch(I, id, m)
           told == IF Emptied(I, J) = {} THEN {} ELSE PropagateTo(I, LocationOf(id))
           news == Cast(told, <<CancelSub(a, m)>>)
<1>1. queue[a] # <<>> /\ id \in Comp /\ m \in Mask
  BY Taken DEF HandleCancel, IInv
<1>2. news \in [Location -> Seq(Message)]
  <2>1. <<CancelSub(a, m)>> \in Seq(Message)
    BY <1>1, Ids, MessageTypes
  <2> QED
    BY <2>1, CastType
<1>3. CASE Answer(a, I, Silence)
  BY <1>1, <1>3, TablesOK, SilenceType, AnswerOK
<1>4. CASE Answer(a, J, news)
  <2>1. J \in Info /\ J.parent = I.parent /\ TablesAgree(J) /\ ParentInPeers(J)
    BY <1>1, TablesOK, DropCatchOK
  <2> HIDE DEF J, news
  <2> QED
    BY <1>1, <1>2, <1>4, <2>1, AnswerOK
<1> QED
  BY <1>3, <1>4 DEF HandleCancel

(* The cancels that follow the removal of components.                      *)
LEMMA CancelsType ==
  ASSUME NEW a \in Agent, NEW I, NEW J, NEW q \in SetToSeqs(Emptied(I, J)), NEW dsts
  PROVE  Cast(dsts, CancelSubs(a, q)) \in [Location -> Seq(Message)]
<1>1. q \in Seq(Mask)
  BY MaskOrders DEF Emptied, CaughtMasks
<1>2. CancelSubs(a, q) \in Seq(Message)
  BY <1>1, Ids, SequenceTypes
<1> QED
  BY <1>2, CastType

(* FTBM_Client_deregister preserves the invariant: a parent that           *)
(* deregisters is replaced in the same step.                               *)
LEMMA ClientDeregOK ==
  ASSUME IInv, NEW a \in Agent, HandleClientDereg(a)
  PROVE  IInv'
<1> DEFINE I == info[a]
           id == Head(queue[a]).msg.src
           J == RemoveComps(I, {id})
<1>1. queue[a] # <<>> /\ id \in Comp
  BY Taken DEF HandleClientDereg, IInv
<1>2. CASE Answer(a, I, Silence)
  BY <1>1, <1>2, TablesOK, SilenceType, AnswerOK
<1>3. ASSUME NEW q \in SetToSeqs(Emptied(I, J)),
             Finish(a, J, Cast(PropagateTo(I, LocationOf(id)), CancelSubs(a, q)),
                    {id} \cap ManagerId \cap conn[a], {}, id = I.parent)
      PROVE  IInv'
  <2>1. /\ J \in Info /\ J.parent = I.parent /\ TablesAgree(J)
        /\ id # I.parent => ParentInPeers(J)
    BY <1>1, TablesOK, RemoveCompsOK
  <2>2. Cast(PropagateTo(I, LocationOf(id)), CancelSubs(a, q)) \in [Location -> Seq(Message)]
    BY CancelsType
  <2>3. {} \in SUBSET conn[a] /\ (id = I.parent) \in BOOLEAN
    OBVIOUS
  <2> HIDE DEF J
  <2> QED
    BY <1>1, <1>3, <2>1, <2>2, <2>3, FinishOK
<1> QED
  BY <1>2, <1>3 DEF HandleClientDereg

(* FTBM_Cleanup_connection preserves the invariant: if the location was    *)
(* the parent's, the agent reconnects in the same step.                    *)
LEMMA CleanupOK ==
  ASSUME IInv, NEW a \in Agent, HandleCleanup(a)
  PROVE  IInv'
<1> DEFINE I == info[a]
           loc == Head(queue[a]).from
           C == I.peers \cap CompsAt(loc)
           J == RemoveComps(I, C)
<1>1. queue[a] # <<>> /\ loc \in Location
  BY Taken DEF HandleCleanup, IInv
<1>2. PICK q \in SetToSeqs(Emptied(I, J)) :
        Finish(a, J, Cast(PropagateTo(I, loc), CancelSubs(a, q)), {}, {}, loc = I.parent)
  BY DEF HandleCleanup
<1>3. C \in SUBSET Comp
  BY DEF CompsAt
<1>4. loc # I.parent => I.parent \notin C
  <2>1. I.parent \in Agent \cup {NoAgent}
    BY TablesOK DEF Info
  <2> QED
    BY <2>1, Ids DEF CompsAt
<1>5. /\ J \in Info /\ J.parent = I.parent /\ TablesAgree(J)
      /\ loc # I.parent => ParentInPeers(J)
  BY <1>3, <1>4, TablesOK, RemoveCompsOK
<1>6. Cast(PropagateTo(I, loc), CancelSubs(a, q)) \in [Location -> Seq(Message)]
  BY CancelsType
<1>7. {} \in SUBSET conn[a] /\ (loc = I.parent) \in BOOLEAN
  OBVIOUS
<1> HIDE DEF J
<1> QED
  BY <1>1, <1>2, <1>5, <1>6, <1>7, FinishOK

(* The catchers of an event are components.                                *)
LEMMA CatchersType ==
  ASSUME NEW I \in Info, NEW e \in Event
  PROVE  Catchers(I, e) \in SUBSET Comp
BY MatchedByType DEF Catchers, Info

(* A parent that could not be told is removed, and then replaced.          *)
LEMMA NotifyOK ==
  ASSUME IInv, NEW a \in Agent, HandleNotify(a)
  PROVE  IInv'
<1> DEFINE I == info[a]
           e == Head(queue[a]).msg.event
           catchers == Catchers(I, e) \ Echoes(Head(queue[a]).from)
           doubtful == {c \in catchers : ~ Linked(a, LocationOf(c))}
<1>1. queue[a] # <<>> /\ e \in Event
  BY Taken DEF HandleNotify, IInv
<1>2. catchers \in SUBSET Comp
  BY <1>1, TablesOK, CatchersType
<1> HIDE DEF catchers
<1>3. ASSUME NEW failed \in SUBSET doubtful,
             NEW q \in SetToSeqs(Emptied(I, RemoveComps(I, failed))),
             LET J == RemoveComps(I, failed)
                 lost == {LocationOf(c) : c \in failed}
                 told(l) == Notifies(e, SetToSeq((catchers \ failed) \cap CompsAt(l)))
             IN Finish(a, J,
                       [l \in Location |->
                          told(l) \o Cast(PropagateTo(J, NoAgent), CancelSubs(a, q))[l]],
                       {}, lost \cap conn[a], I.parent \in lost)
      PROVE  IInv'
  <2> DEFINE J == RemoveComps(I, failed)
             lost == {LocationOf(c) : c \in failed}
             told(l) == Notifies(e, SetToSeq((catchers \ failed) \cap CompsAt(l)))
             cancels == Cast(PropagateTo(J, NoAgent), CancelSubs(a, q))
             out == [l \in Location |-> told(l) \o cancels[l]]
  <2>1. Finish(a, J, out, {}, lost \cap conn[a], I.parent \in lost)
    BY <1>3
  <2>2. failed \in SUBSET Comp
    BY <1>2
  <2>3. I.parent \notin lost => I.parent \notin failed
    <3>1. I.parent \in Agent \cup {NoAgent}
      BY TablesOK DEF Info
    <3>2. I.parent \in failed => I.parent \in Location /\ LocationOf(I.parent) = I.parent
      BY <2>2, <3>1, Ids
    <3> QED
      BY <3>2
  <2>4. /\ J \in Info /\ J.parent = I.parent /\ TablesAgree(J)
        /\ I.parent \notin lost => ParentInPeers(J)
    BY <2>2, <2>3, TablesOK, RemoveCompsOK
  <2>5. out \in [Location -> Seq(Message)]
    <3>1. cancels \in [Location -> Seq(Message)]
      BY CancelsType
    <3>2. ASSUME NEW l \in Location PROVE told(l) \in Seq(Message)
      <4> DEFINE S == (catchers \ failed) \cap CompsAt(l)
      <4>1. S \in SUBSET Comp
        BY <1>2
      <4> HIDE DEF S
      <4>2. SetToSeq(S) \in Seq(S)
        BY <4>1, FiniteSubsets, Enumerations
      <4>3. SetToSeq(S) \in Seq(Comp)
        BY <4>1, <4>2
      <4> QED
        BY <1>1, <4>3, SequenceTypes DEF S
    <3> HIDE DEF cancels, told
    <3> QED
      BY <3>1, <3>2
  <2>6. lost \cap conn[a] \in SUBSET conn[a] /\ (I.parent \in lost) \in BOOLEAN
    OBVIOUS
  <2> HIDE DEF J, lost, out
  <2> QED
    BY <1>1, <2>1, <2>4, <2>5, <2>6, FinishOK
<1>4. \E failed \in SUBSET doubtful :
        \E q \in SetToSeqs(Emptied(I, RemoveComps(I, failed))) :
          LET J == RemoveComps(I, failed)
              lost == {LocationOf(c) : c \in failed}
              told(l) == Notifies(e, SetToSeq((catchers \ failed) \cap CompsAt(l)))
          IN Finish(a, J,
                    [l \in Location |->
                       told(l) \o Cast(PropagateTo(J, NoAgent), CancelSubs(a, q))[l]],
                    {}, lost \cap conn[a], I.parent \in lost)
  BY DEF HandleNotify, catchers
<1> HIDE DEF I, e, doubtful
<1> QED
  BY <1>3, <1>4

(* The reader only moves messages.                                         *)
LEMMA GrabOK ==
  ASSUME IInv, NEW a \in Agent, NEW x \in Location, Grab(a, x)
  PROVE  IInv'
<1>1. net[x][a] \in Seq(Message) /\ net[x][a] # <<>> /\ a \in Location
  BY Ids DEF IInv, TypeOK, Grab
<1>2. Head(net[x][a]) \in Message /\ Tail(net[x][a]) \in Seq(Message)
  BY <1>1
<1>3. [from |-> x, msg |-> Head(net[x][a])] \in QueueEntry
  BY <1>2 DEF QueueEntry
<1>4. queue' \in [Agent -> Seq(QueueEntry)]
  BY <1>3 DEF IInv, TypeOK, Grab
<1>5. net' \in [Location -> [Location -> Seq(Message)]]
  BY <1>1, <1>2 DEF IInv, TypeOK, Grab
<1>6. conn' \in [Location -> SUBSET Location]
  BY DEF IInv, TypeOK, Grab
<1> QED
  BY <1>4, <1>5, <1>6 DEF IInv, TypeOK, Attached, TablesAgreeEverywhere, ParentIsPeer,
     Grab, app

(* Whatever either thread of an agent does, the invariant is preserved.    *)
LEMMA DispatchOK ==
  ASSUME IInv, NEW a \in Agent, AgentStep(a)
  PROVE  IInv'
BY NotifyOK, ClientRegOK, ClientDeregOK, CleanupOK, RegSubscriptionOK, CancelOK, GrabOK
   DEF AgentStep, Dispatch

-----------------------------------------------------------------------------
(* The client processes.                                                   *)

(* A step that leaves the tables of the agents alone keeps the parts of    *)
(* the invariant about them.                                               *)
LEMMA TablesKept ==
  ASSUME IInv, UNCHANGED info
  PROVE  TablesAgreeEverywhere' /\ ParentIsPeer'
BY DEF IInv, TablesAgreeEverywhere, ParentIsPeer

(* The process of an open handle runs.                                     *)
LEMMA HostRuns ==
  ASSUME IInv, NEW c \in handles
  PROVE  /\ c \in Client /\ HostOf[c] \in Process /\ HostOf[c] \in Location
         /\ HostOf[c] \in up /\ attach[HostOf[c]] \in Agent
BY HostOfType, Ids DEF IInv, TypeOK, Attached

(* A client process connects to an agent that runs.                        *)
LEMMA AgentsForType ==
  ASSUME NEW p \in Process, NEW a \in AgentsFor(p), up \subseteq Location
  PROVE  a \in Agent
BY LocalType, Ids DEF AgentsFor

(* What a client process sends, and the connections it opens and closes.   *)
LEMMA ClientNet ==
  ASSUME TypeOK, NEW p \in Process, NEW dst, NEW ms \in Seq(Message), NEW closed, NEW a,
         NetStep(p, Cast({dst}, ms), closed, a)
  PROVE  /\ conn' \in [Location -> SUBSET Location]
         /\ net' \in [Location -> [Location -> Seq(Message)]]
BY CastType, NetStepType, Ids DEF TypeOK

(* FTBC_Connect preserves the invariant.                                   *)
LEMMA ConnectOK ==
  ASSUME IInv, NEW c \in Client, Connect(c)
  PROVE  IInv'
<1> DEFINE p == HostOf[c]
<1>1. p \in Process /\ p \in Location /\ c \in Comp
  BY HostOfType, Ids DEF Comp
<1>2. ops' \in Nat /\ handles' \in SUBSET Client
  BY DEF IInv, TypeOK, Connect, Called
<1>3. TablesAgreeEverywhere' /\ ParentIsPeer'
  BY TablesKept DEF Connect, SendUp
<1>4. CASE p \in up /\ SendUp(p, <<Reg(c)>>)
  <2>1. <<Reg(c)>> \in Seq(Message)
    BY <1>1, MessageTypes
  <2>2. conn' \in [Location -> SUBSET Location] /\ net' \in [Location -> [Location -> Seq(Message)]]
    BY <1>1, <1>4, <2>1, ClientNet DEF SendUp, IInv
  <2> QED
    BY <1>2, <1>3, <1>4, <2>2 DEF IInv, TypeOK, Attached, Connect, SendUp
<1>5. ASSUME NEW a \in AgentsFor(p), p \notin up,
             attach' = [attach EXCEPT ![p] = a],
             NetStep(p, Cast({a}, <<Reg(p), Reg(c)>>), {}, a),
             up' = up \cup {p},
             UNCHANGED <<gone, info, queue, faults, writeErrors>>
      PROVE  IInv'
  <2>1. <<Reg(p), Reg(c)>> \in Seq(Message)
    BY <1>1, Ids, MessageTypes
  <2>2. conn' \in [Location -> SUBSET Location] /\ net' \in [Location -> [Location -> Seq(Message)]]
    BY <1>1, <1>5, <2>1, ClientNet DEF IInv
  <2>3. a \in Agent
    BY <1>1, AgentsForType DEF IInv, TypeOK
  <2>4. TypeOK'
    BY <1>1, <1>2, <1>5, <2>2, <2>3 DEF IInv, TypeOK, Connect
  <2>5. Attached'
    BY <1>1, <1>5, <2>3 DEF IInv, TypeOK, Attached, Connect
  <2> QED
    BY <1>3, <2>4, <2>5 DEF IInv
<1> QED
  BY <1>4, <1>5 DEF Connect

(* FTBC_Subscribe preserves the invariant.                                 *)
LEMMA SubscribeOK ==
  ASSUME IInv, NEW c \in Client, NEW m \in Mask, Subscribe(c, m)
  PROVE  IInv'
<1>1. c \in handles /\ HostOf[c] \in Process /\ c \in Comp
  BY HostRuns DEF Subscribe, Comp
<1>2. <<RegSub(c, m)>> \in Seq(Message)
  BY <1>1, MessageTypes
<1>3. conn' \in [Location -> SUBSET Location] /\ net' \in [Location -> [Location -> Seq(Message)]]
  BY <1>1, <1>2, ClientNet DEF Subscribe, SendUp, IInv
<1>4. TablesAgreeEverywhere' /\ ParentIsPeer'
  BY TablesKept DEF Subscribe, SendUp
<1> QED
  BY <1>3, <1>4 DEF IInv, TypeOK, Attached, Subscribe, SendUp, Called

(* FTBC_Unsubscribe preserves the invariant.                               *)
LEMMA UnsubscribeOK ==
  ASSUME IInv, NEW c \in Client, NEW m \in Mask, Unsubscribe(c, m)
  PROVE  IInv'
<1>1. c \in handles /\ HostOf[c] \in Process /\ c \in Comp
  BY HostRuns DEF Unsubscribe, Comp
<1>2. <<CancelSub(c, m)>> \in Seq(Message)
  BY <1>1, MessageTypes
<1>3. conn' \in [Location -> SUBSET Location] /\ net' \in [Location -> [Location -> Seq(Message)]]
  BY <1>1, <1>2, ClientNet DEF Unsubscribe, SendUp, IInv
<1>4. TablesAgreeEverywhere' /\ ParentIsPeer'
  BY TablesKept DEF Unsubscribe, SendUp
<1> QED
  BY <1>3, <1>4 DEF IInv, TypeOK, Attached, Unsubscribe, SendUp, Called

(* FTBC_Publish preserves the invariant.                                   *)
LEMMA PublishOK ==
  ASSUME IInv, NEW c \in Client, NEW e \in Event, Publish(c, e)
  PROVE  IInv'
<1> DEFINE p == HostOf[c]
<1>1. c \in handles /\ p \in Process /\ attach[p] \in Comp
  BY HostRuns, Ids DEF Publish
<1>2. <<Notify(e, attach[p])>> \in Seq(Message)
  BY <1>1, MessageTypes
<1>3. SendUp(p, <<Notify(e, attach[p])>>)
  BY DEF Publish
<1>4. conn' \in [Location -> SUBSET Location] /\ net' \in [Location -> [Location -> Seq(Message)]]
  BY <1>1, <1>2, <1>3, ClientNet DEF SendUp, IInv
<1>5. TablesAgreeEverywhere' /\ ParentIsPeer'
  BY <1>3, TablesKept DEF SendUp
<1>6. published' \in SUBSET Event /\ owed' \in SUBSET (Client \X Event)
  <2>1. handles \X {e} \in SUBSET (Client \X Event)
    BY DEF IInv, TypeOK
  <2> QED
    BY <2>1 DEF IInv, TypeOK, Publish
<1> QED
  BY <1>3, <1>4, <1>5, <1>6 DEF IInv, TypeOK, Attached, Publish, SendUp, Called

(* FTBC_Disconnect preserves the invariant, the last handle of a process   *)
(* included.                                                               *)
LEMMA DisconnectOK ==
  ASSUME IInv, NEW c \in Client, Disconnect(c)
  PROVE  IInv'
<1> DEFINE p == HostOf[c]
<1>1. c \in handles /\ p \in Process /\ p \in Comp /\ c \in Comp
  BY HostRuns, Ids DEF Disconnect, Comp
<1>2. /\ ops' \in Nat /\ handles' \in SUBSET Client
      /\ subs' \in [Client -> SUBSET Mask] /\ owed' \in SUBSET (Client \X Event)
  BY DEF IInv, TypeOK, Disconnect, Called
<1>3. TablesAgreeEverywhere' /\ ParentIsPeer'
  BY TablesKept DEF Disconnect, SendUp
<1>4. CASE SendUp(p, <<Dereg(c)>>)
  <2>1. <<Dereg(c)>> \in Seq(Message)
    BY <1>1, MessageTypes
  <2>2. conn' \in [Location -> SUBSET Location] /\ net' \in [Location -> [Location -> Seq(Message)]]
    BY <1>1, <1>4, <2>1, ClientNet DEF SendUp, IInv
  <2> QED
    BY <1>2, <1>3, <1>4, <2>2 DEF IInv, TypeOK, Attached, Disconnect, SendUp
<1>5. CASE /\ OpenAt(p) = {c}
           /\ NetStep(p, Cast({attach[p]}, <<Dereg(c), Dereg(p)>>), conn[p], NoAgent)
           /\ up' = up \ {p} /\ gone' = gone \cup {p}
           /\ attach' = [attach EXCEPT ![p] = NoAgent]
           /\ UNCHANGED <<info, queue, faults, writeErrors>>
  <2>1. <<Dereg(c), Dereg(p)>> \in Seq(Message)
    BY <1>1, MessageTypes
  <2>2. conn' \in [Location -> SUBSET Location] /\ net' \in [Location -> [Location -> Seq(Message)]]
    BY <1>1, <1>5, <2>1, ClientNet DEF IInv
  <2>3. TypeOK'
    BY <1>1, <1>2, <1>5, <2>2, Ids DEF IInv, TypeOK, Disconnect
  <2>4. Attached'
    BY <1>1, <1>5 DEF IInv, TypeOK, Attached, Disconnect, OpenAt
  <2> QED
    BY <1>3, <2>3, <2>4 DEF IInv
<1> QED
  BY <1>4, <1>5 DEF Disconnect

(* A client process that reconnects is attached to an agent again.         *)
LEMMA ReattachOK ==
  ASSUME IInv, NEW p \in Process, NEW ms \in Seq(Message), Reattach(p, ms)
  PROVE  /\ attach' \in [Process -> Agent \cup {NoAgent}]
         /\ \A k \in Process : attach[k] \in Agent => attach'[k] \in Agent
         /\ conn' \in [Location -> SUBSET Location]
         /\ net' \in [Location -> [Location -> Seq(Message)]]
<1>1. PICK a \in AgentsFor(p) :
        /\ attach' = [attach EXCEPT ![p] = a]
        /\ NetStep(p, Cast({a}, <<Reg(p)>> \o ms), {attach[p]}, a)
  BY DEF Reattach
<1>2. a \in Agent
  BY AgentsForType DEF IInv, TypeOK
<1>3. <<Reg(p)>> \o ms \in Seq(Message)
  <2>1. <<Reg(p)>> \in Seq(Message)
    BY Ids, MessageTypes
  <2> QED
    BY <2>1
<1>4. conn' \in [Location -> SUBSET Location] /\ net' \in [Location -> [Location -> Seq(Message)]]
  BY <1>1, <1>3, ClientNet DEF IInv
<1> QED
  BY <1>1, <1>2, <1>4 DEF IInv, TypeOK

(* A call that fails to write, and reconnects, preserves the invariant.    *)
LEMMA SendUpFailsOK ==
  ASSUME IInv, NEW p \in Process, SendUpFails(p)
  PROVE  IInv'
<1>1. <<>> \in Seq(Message) /\ Reattach(p, <<>>)
  BY DEF SendUpFails
<1>2. /\ attach' \in [Process -> Agent \cup {NoAgent}]
      /\ \A k \in Process : attach[k] \in Agent => attach'[k] \in Agent
      /\ conn' \in [Location -> SUBSET Location]
      /\ net' \in [Location -> [Location -> Seq(Message)]]
  BY <1>1, ReattachOK
<1>3. subs' \in [Client -> SUBSET Mask]
  <2>1. subs \in [Client -> SUBSET Mask]
    BY DEF IInv, TypeOK
  <2>2. CASE UNCHANGED subs
    BY <2>1, <2>2
  <2>3. ASSUME NEW c \in OpenAt(p), NEW m \in Mask, subs' = [subs EXCEPT ![c] = @ \cup {m}]
        PROVE  subs' \in [Client -> SUBSET Mask]
    BY <2>1, <2>3
  <2> QED
    BY <2>2, <2>3 DEF SendUpFails
<1>4. TablesAgreeEverywhere' /\ ParentIsPeer'
  BY TablesKept DEF SendUpFails
<1> QED
  BY <1>2, <1>3, <1>4 DEF IInv, TypeOK, Attached, SendUpFails, Called

(* Reading a message in a client process preserves the invariant.          *)
LEMMA ReceiveOK ==
  ASSUME IInv, NEW p \in Process, Receive(p)
  PROVE  IInv'
<1> DEFINE a == attach[p]
<1>1. a \in Location /\ p \in Location
  BY Ids DEF IInv, TypeOK, Attached, Receive
<1>2. Tail(net[a][p]) \in Seq(Message)
  BY <1>1 DEF IInv, TypeOK, Receive
<1>3. net' \in [Location -> [Location -> Seq(Message)]]
  BY <1>1, <1>2 DEF IInv, TypeOK, Receive
<1>4. got' \in [Client -> [Event -> Nat]]
  <2> DEFINE msg == Head(net[a][p])
  <2>1. got \in [Client -> [Event -> Nat]]
    BY DEF IInv, TypeOK
  <2>2. got' = IF msg.dst \in handles
               THEN [got EXCEPT ![msg.dst][msg.event] = @ + 1] ELSE got
    BY DEF Receive
  <2> HIDE DEF msg
  <2>3. \A c, e : [got EXCEPT ![c][e] = @ + 1] \in [Client -> [Event -> Nat]]
    <3> SUFFICES ASSUME NEW c, NEW e
                 PROVE  [got EXCEPT ![c][e] = @ + 1] \in [Client -> [Event -> Nat]]
      OBVIOUS
    <3>1. ASSUME c \in Client
          PROVE  [got[c] EXCEPT ![e] = got[c][e] + 1] \in [Event -> Nat]
      <4>1. got[c] \in [Event -> Nat]
        BY <2>1, <3>1
      <4>2. \A x \in Event : got[c][x] \in Nat /\ (x = e => got[c][e] + 1 \in Nat)
        BY <4>1
      <4> QED
        BY <4>1, <4>2
    <3>2. [got EXCEPT ![c][e] = @ + 1]
            = [got EXCEPT ![c] = [got[c] EXCEPT ![e] = got[c][e] + 1]]
      OBVIOUS
    <3>3. CASE c \in Client
      BY <2>1, <3>1, <3>2, <3>3
    <3>4. CASE c \notin Client
      BY <2>1, <3>2, <3>4
    <3> QED
      BY <3>3, <3>4
  <2> QED
    BY <2>1, <2>2, <2>3
<1>5. TablesAgreeEverywhere' /\ ParentIsPeer'
  BY TablesKept DEF Receive
<1> QED
  BY <1>3, <1>4, <1>5 DEF IInv, TypeOK, Attached, Receive

(* FS_Image for a function.                                                *)
LEMMA ImageFinite ==
  ASSUME NEW S, IsFiniteSet(S), NEW f, f = [x \in S |-> f[x]]
  PROVE  IsFiniteSet({f[x] : x \in S})
<1> DEFINE T == {f[x] : x \in S}
<1>1. f \in Surjection(S, T)
  BY DEF Surjection
<1> QED
  BY <1>1, FS_Surjection

(* What a process that reconnects tells its new agent is about its handles *)
(* and their subscriptions.                                                *)
Again(p) ==
  {Reg(c) : c \in OpenAt(p)} \cup UNION {{RegSub(c, m) : m \in subs[c]} : c \in OpenAt(p)}

(* It is a finite set of messages.                                         *)
LEMMA AgainType ==
  ASSUME IInv, NEW p \in Process
  PROVE  Again(p) \in SUBSET Message /\ IsFiniteSet(Again(p))
<1> DEFINE regs == {Reg(c) : c \in OpenAt(p)}
           regSubs(c) == {RegSub(c, m) : m \in subs[c]}
           again == regs \cup UNION {regSubs(c) : c \in OpenAt(p)}
<1>1. OpenAt(p) \in SUBSET Client /\ OpenAt(p) \in SUBSET Comp
  BY DEF OpenAt, IInv, TypeOK, Comp
<1>2. again \in SUBSET Message
  <2>1. \A c \in OpenAt(p) : subs[c] \in SUBSET Mask
    BY <1>1 DEF IInv, TypeOK
  <2> QED
    BY <1>1, <2>1, MessageTypes
<1>3. IsFiniteSet(again)
  <2> DEFINE f == [c \in OpenAt(p) |-> Reg(c)]
             all == OpenAt(p) \X Mask
             g == [s \in all |-> RegSub(s[1], s[2])]
  <2>1. IsFiniteSet(OpenAt(p)) /\ IsFiniteSet(all)
    BY <1>1, FiniteSubsets, Finiteness, FS_Product
  <2>2. IsFiniteSet(regs)
    <3>1. IsFiniteSet({f[c] : c \in OpenAt(p)})
      <4> HIDE DEF f
      <4>1. f = [c \in OpenAt(p) |-> f[c]]
        BY DEF f
      <4> QED
        BY <2>1, <4>1, ImageFinite
    <3>2. {f[c] : c \in OpenAt(p)} = regs
      OBVIOUS
    <3> QED
      BY <3>1, <3>2
  <2>3. IsFiniteSet({g[s] : s \in all})
    <3>1. g = [s \in all |-> g[s]]
      OBVIOUS
    <3> HIDE DEF g, all
    <3> QED
      BY <2>1, <3>1, ImageFinite
  <2>4. UNION {regSubs(c) : c \in OpenAt(p)} \subseteq {g[s] : s \in all}
    <3> SUFFICES ASSUME NEW c \in OpenAt(p), NEW m \in subs[c]
                 PROVE  RegSub(c, m) \in {g[s] : s \in all}
      OBVIOUS
    <3>1. m \in Mask
      BY <1>1 DEF IInv, TypeOK
    <3>2. <<c, m>> \in all /\ g[<<c, m>>] = RegSub(c, m)
      BY <3>1
    <3> QED
      BY <3>2
  <2>5. IsFiniteSet(UNION {regSubs(c) : c \in OpenAt(p)})
    BY <2>3, <2>4, FS_Subset
  <2> HIDE DEF regs, regSubs
  <2> QED
    BY <2>2, <2>5, FS_Union
<1> QED
  BY <1>2, <1>3 DEF Again

(* A client process that loses its agent, and registers again at another   *)
(* one, preserves the invariant.                                           *)
LEMMA ReceiveEOFOK ==
  ASSUME IInv, NEW p \in Process, ReceiveEOF(p)
  PROVE  IInv'
<1>1. PICK q \in SetToSeqs(Again(p)) : Reattach(p, q)
  BY DEF ReceiveEOF, Again
<1>2. q \in Seq(Message)
  <2>1. Again(p) \in SUBSET Message /\ IsFiniteSet(Again(p))
    BY AgainType
  <2>2. q \in Seq(Again(p))
    BY <1>1, <2>1, Enumerations
  <2> QED
    BY <2>1, <2>2
<1>3. /\ attach' \in [Process -> Agent \cup {NoAgent}]
      /\ \A k \in Process : attach[k] \in Agent => attach'[k] \in Agent
      /\ conn' \in [Location -> SUBSET Location]
      /\ net' \in [Location -> [Location -> Seq(Message)]]
  BY <1>1, <1>2, ReattachOK
<1>4. TablesAgreeEverywhere' /\ ParentIsPeer'
  BY TablesKept DEF ReceiveEOF
<1> QED
  BY <1>3, <1>4 DEF IInv, TypeOK, Attached, ReceiveEOF, app

-----------------------------------------------------------------------------
(* Processes that come and go.                                             *)

(* FTBM_Init of an agent preserves the invariant.                          *)
LEMMA StartAgentOK ==
  ASSUME IInv, NEW a \in Agent, StartAgent(a)
  PROVE  IInv'
<1>1. EmptyInfo \in Info /\ TablesAgree(EmptyInfo) /\ Silence \in [Location -> Seq(Message)]
  BY EmptyInfoOK, SilenceType
<1>2. Join(a, EmptyInfo, Silence, {})
  BY DEF StartAgent
<1>3. /\ info' \in [Agent -> Info] /\ \A b \in Agent : info'[b].parent # b
      /\ conn' \in [Location -> SUBSET Location]
      /\ net' \in [Location -> [Location -> Seq(Message)]]
      /\ TablesAgreeEverywhere' /\ ParentIsPeer'
  BY <1>1, <1>2, JoinOK DEF IInv
<1>4. a \notin Process /\ a \in Location
  BY IdsAreDistinct, Ids
<1> QED
  BY <1>3, <1>4 DEF IInv, TypeOK, Attached, StartAgent, app

(* An agent that ends leaves empty tables.                                 *)
LEMMA BuryAgentOK ==
  ASSUME IInv, NEW a \in Agent, BuryAgent(a), Fault,
         conn' \in [Location -> SUBSET Location],
         net' \in [Location -> [Location -> Seq(Message)]]
  PROVE  IInv'
<1>1. \A b \in Agent : info'[b] = IF b = a THEN EmptyInfo ELSE info[b]
  BY DEF IInv, TypeOK, BuryAgent
<1>2. info' \in [Agent -> Info] /\ \A b \in Agent : info'[b].parent # b
  BY <1>1, EmptyInfoOK, Ids DEF IInv, TypeOK, BuryAgent, EmptyInfo
<1>3. TablesAgreeEverywhere' /\ ParentIsPeer'
  BY <1>1, EmptyInfoOK DEF IInv, TablesAgreeEverywhere, ParentIsPeer
<1>5. TypeOK'
  BY <1>2, Ids DEF IInv, TypeOK, BuryAgent, Fault
<1>6. Attached'
  <2>1. a \notin Process
    BY IdsAreDistinct
  <2>2. \A c \in handles : HostOf[c] # a
    BY <2>1, HostRuns
  <2> QED
    BY <2>1, <2>2 DEF IInv, Attached, BuryAgent
<1> QED
  BY <1>3, <1>5, <1>6 DEF IInv

(* The crash of an agent preserves the invariant.                          *)
LEMMA CrashAgentOK ==
  ASSUME IInv, NEW a \in Agent, CrashAgent(a)
  PROVE  IInv'
<1>1. conn' \in [Location -> SUBSET Location] /\ net' \in [Location -> [Location -> Seq(Message)]]
  BY SilenceType, NetStepType, Ids DEF CrashAgent, IInv, TypeOK
<1> QED
  BY <1>1, BuryAgentOK DEF CrashAgent

(* FTBM_Finalize preserves the invariant.                                  *)
LEMMA FinalizeAgentOK ==
  ASSUME IInv, NEW a \in Agent, FinalizeAgent(a)
  PROVE  IInv'
<1> DEFINE I == info[a]
<1>1. PICK ord \in SetToSeqs(I.peers) :
        LET before(b) == {ord[i] : i \in 1..(CHOOSE k \in DOMAIN ord : ord[k] = b) - 1}
            dropped(b) == {m \in CaughtMasks(I) : I.catchMap[m] \subseteq before(b)}
            told(b) == CancelSubs(a, SetToSeq(dropped(b))) \o <<Dereg(a)>>
        IN NetStep(a,
                   [l \in Location |-> IF l \in I.peers \cap Agent THEN told(l) ELSE <<>>],
                   conn[a], NoAgent)
  BY DEF FinalizeAgent
<1> DEFINE before(b) == {ord[i] : i \in 1..(CHOOSE k \in DOMAIN ord : ord[k] = b) - 1}
           dropped(b) == {m \in CaughtMasks(I) : I.catchMap[m] \subseteq before(b)}
           told(b) == CancelSubs(a, SetToSeq(dropped(b))) \o <<Dereg(a)>>
           out == [l \in Location |-> IF l \in I.peers \cap Agent THEN told(l) ELSE <<>>]
<1>2. ASSUME NEW b PROVE told(b) \in Seq(Message)
  <2>1. dropped(b) \in SUBSET Mask
    BY DEF CaughtMasks
  <2> HIDE DEF dropped
  <2>2. SetToSeq(dropped(b)) \in Seq(Mask)
    BY <2>1, MaskOrders
  <2>3. CancelSubs(a, SetToSeq(dropped(b))) \in Seq(Message)
    BY <2>2, Ids, SequenceTypes
  <2>4. <<Dereg(a)>> \in Seq(Message)
    BY Ids, MessageTypes
  <2> QED
    BY <2>3, <2>4
<1>3. NetStep(a, out, conn[a], NoAgent)
  BY <1>1
<1> HIDE DEF told
<1>4. out \in [Location -> Seq(Message)]
  BY <1>2
<1> HIDE DEF out
<1>5. conn' \in [Location -> SUBSET Location] /\ net' \in [Location -> [Location -> Seq(Message)]]
  BY <1>3, <1>4, NetStepType, Ids DEF IInv, TypeOK
<1> QED
  BY <1>5, BuryAgentOK DEF FinalizeAgent

(* The crash of a client process preserves the invariant.                  *)
LEMMA CrashProcessOK ==
  ASSUME IInv, NEW p \in Process, CrashProcess(p)
  PROVE  IInv'
<1>1. conn' \in [Location -> SUBSET Location] /\ net' \in [Location -> [Location -> Seq(Message)]]
  BY SilenceType, NetStepType, Ids DEF CrashProcess, IInv, TypeOK
<1>2. TablesAgreeEverywhere' /\ ParentIsPeer'
  BY TablesKept DEF CrashProcess
<1>3. TypeOK'
  BY <1>1, Ids DEF IInv, TypeOK, CrashProcess, Fault
<1>4. Attached'
  BY DEF IInv, TypeOK, Attached, CrashProcess, OpenAt
<1> QED
  BY <1>2, <1>3, <1>4 DEF IInv

-----------------------------------------------------------------------------
(* The invariant.                                                          *)

(* The level of an agent that has not connected is a number.               *)
LEMMA NoLevelType == NoLevel \in Nat /\ NoLevel >= 1
BY SMT DEF NoLevel

(* In the initial tree a parent runs, and is somebody else.                *)
LEMMA BootTree ==
  ASSUME NEW a \in Agent
  PROVE  /\ Boot[a].parent \in Agent \cup {NoAgent}
         /\ Boot[a].parent \in Agent =>
              a \in Running /\ Boot[a].parent \in Running /\ Boot[a].parent # a
<1>1. Boot[a].parent \in Agent \cup {NoAgent} /\ Boot[a].level \in 1..NoLevel
  BY BootType
<1>2. ASSUME Boot[a].parent \in Agent
      PROVE  a \in Running /\ Boot[a].parent \in Running /\ Boot[a].parent # a
  <2> DEFINE b == Boot[a].parent
  <2>1. Boot[a].level = Boot[b].level + 1 /\ Boot[a].level < NoLevel
    BY <1>2, Ids, BootType
  <2>2. Boot[b].level \in 1..NoLevel
    BY <1>2, BootType
  <2>3. Boot[a].level \in Nat /\ Boot[b].level \in Nat
    BY <1>1, <2>2, NoLevelType
  <2>4. Boot[b].level < NoLevel /\ Boot[b].level # Boot[a].level
    BY <2>1, <2>3, NoLevelType
  <2> QED
    BY <1>2, <2>1, <2>4 DEF Running
<1> QED
  BY <1>1, <1>2

(* The initial tree: every agent that runs is connected to its parent.     *)
LEMMA InitOK ==
  ASSUME Init
  PROVE  IInv
<1>1. \A a \in Agent : Boot[a].parent \in Agent \cup {NoAgent}
  BY BootType
<1>2. \A a \in Agent : Boot[a].parent \in Agent => a \in Running /\ Boot[a].parent \in Running
  BY BootTree
<1>3. \A a \in Agent : BootPeers(a) \subseteq Agent
  BY DEF BootPeers, Running
<1>4. \A a \in Agent :
        /\ info[a].peers = BootPeers(a) /\ info[a].parent = Boot[a].parent
        /\ info[a].catchSet = [c \in Comp |-> {}] /\ info[a].catchMap = [m \in Mask |-> {}]
        /\ info[a] \in Info
  BY <1>1, <1>3, Ids DEF Init, EmptyInfo, Info, Comp
<1>5. TypeOK
  <2>1. info \in [Agent -> Info]
    BY <1>4 DEF Init
  <2>2. \A a \in Agent : info[a].parent # a
    BY <1>1, <1>4, BootTree, Ids
  <2>3. conn \in [Location -> SUBSET Location]
    BY <1>3, Ids DEF Init
  <2>4. Running \subseteq Location
    BY Ids DEF Running
  <2>5. net \in [Location -> [Location -> Seq(Message)]] /\ queue \in [Agent -> Seq(QueueEntry)]
    <3>1. <<>> \in Seq(Message) /\ <<>> \in Seq(QueueEntry)
      OBVIOUS
    <3>2. net = [l \in Location |-> [k \in Location |-> <<>>]] /\ queue = [a \in Agent |-> <<>>]
      BY DEF Init
    <3> QED
      BY <3>1, <3>2, Zenon
  <2>6. got \in [Client -> [Event -> Nat]] /\ subs \in [Client -> SUBSET Mask]
    BY DEF Init
  <2>7. attach \in [Process -> Agent \cup {NoAgent}]
    BY DEF Init
  <2> QED
    BY <2>1, <2>2, <2>3, <2>4, <2>5, <2>6, <2>7 DEF Init, TypeOK
<1>6. Attached
  BY IdsAreDistinct DEF Init, Attached, Running
<1>7. TablesAgreeEverywhere
  BY <1>4 DEF TablesAgreeEverywhere, TablesAgree
<1>8. ParentIsPeer
  <2> SUFFICES ASSUME NEW a \in Agent, Boot[a].parent # NoAgent
               PROVE  Boot[a].parent \in BootPeers(a)
    BY <1>4 DEF ParentIsPeer, ParentInPeers
  <2>1. Boot[a].parent \in Agent
    BY <1>1
  <2> QED
    BY <1>2, <2>1 DEF BootPeers
<1> QED
  BY <1>5, <1>6, <1>7, <1>8 DEF IInv

(* Every call of an application preserves the invariant.                   *)
LEMMA CallOK ==
  ASSUME IInv, Call
  PROVE  IInv'
BY ConnectOK, DisconnectOK, SubscribeOK, UnsubscribeOK, PublishOK, SendUpFailsOK DEF Call

(* Processes that come and go preserve the invariant.                      *)
LEMMA ComeAndGoOK ==
  ASSUME IInv, ComeAndGo
  PROVE  IInv'
BY StartAgentOK, CrashAgentOK, FinalizeAgentOK, CrashProcessOK DEF ComeAndGo

(* Every step preserves the invariant.                                     *)
LEMMA StepOK ==
  ASSUME IInv, [Next]_vars
  PROVE  IInv'
<1>1. CASE \E a \in Agent : AgentStep(a)
  BY <1>1, DispatchOK
<1>2. CASE \E p \in Process : ProcessStep(p)
  BY <1>2, ReceiveOK, ReceiveEOFOK DEF ProcessStep
<1>3. CASE Call
  BY <1>3, CallOK
<1>4. CASE ComeAndGo
  BY <1>4, ComeAndGoOK
<1>5. CASE UNCHANGED vars
  BY <1>5 DEF vars, app, IInv, TypeOK, Attached, TablesAgreeEverywhere, ParentIsPeer
<1> QED
  BY <1>1, <1>2, <1>3, <1>4, <1>5 DEF Next

(* Whatever is sent, lost, crashed and reconnected, the invariant holds.   *)
THEOREM Invariance == Spec => []IInv
<1>1. Init => IInv
  BY InitOK
<1>2. IInv /\ [Next]_vars => IInv'
  BY StepOK
<1> QED
  BY <1>1, <1>2, PTL DEF Spec

(* The state keeps its type; no agent becomes its own parent.              *)
THEOREM TypeCorrect == Spec => []TypeOK
<1>1. IInv => TypeOK
  BY DEF IInv
<1> QED
  BY <1>1, Invariance, PTL

(* No agent's catch_event_map disagrees with the catch_event_sets of its   *)
(* components, or points to a component that was freed.                    *)
THEOREM TablesNeverDisagree == Spec => []TablesAgreeEverywhere
<1>1. IInv => TablesAgreeEverywhere
  BY DEF IInv
<1> QED
  BY <1>1, Invariance, PTL

(* The parent of an agent is always one of its peers.                      *)
THEOREM ParentAlwaysPeer == Spec => []ParentIsPeer
<1>1. IInv => ParentIsPeer
  BY DEF IInv
<1> QED
  BY <1>1, Invariance, PTL

-----------------------------------------------------------------------------
(***************************************************************************)
(* The peers settle.  Who is a peer changes one message at a time, long    *)
(* after who should be one changed; the invariant says what becomes of the *)
(* peers once everything on its way was handled, at any moment.            *)
(***************************************************************************)

(* What a sequence of words leaves behind.  A word of yes turns something  *)
(* on, one of no turns it off, b says whether it was on before.            *)
Turned(s, yes, no, b) ==
  \/ \E j \in DOMAIN s : s[j] \in yes /\ \A k \in DOMAIN s : k > j => s[k] \notin no
  \/ b /\ \A k \in DOMAIN s : s[k] \notin no

(* No word, no change.                                                     *)
LEMMA TurnedEmpty ==
  ASSUME NEW yes, NEW no, NEW b \in BOOLEAN
  PROVE  Turned(<<>>, yes, no, b) <=> b
<1>1. DOMAIN <<>> = {}
  OBVIOUS
<1> QED
  BY <1>1 DEF Turned

(* Neither do words that are in neither set.                               *)
LEMMA TurnedInert ==
  ASSUME NEW s, NEW yes, NEW no, NEW b \in BOOLEAN,
         \A k \in DOMAIN s : s[k] \notin yes /\ s[k] \notin no
  PROVE  Turned(s, yes, no, b) <=> b
BY DEF Turned

(* The words of one sequence, then those of another.                       *)
LEMMA TurnedConcat ==
  ASSUME NEW S, NEW s \in Seq(S), NEW t \in Seq(S), NEW yes, NEW no, NEW b \in BOOLEAN
  PROVE  Turned(s \o t, yes, no, b) <=> Turned(t, yes, no, Turned(s, yes, no, b))
<1> DEFINE u == s \o t
<1>1. /\ u \in Seq(S) /\ Len(u) = Len(s) + Len(t)
      /\ DOMAIN u = 1..Len(u) /\ DOMAIN s = 1..Len(s) /\ DOMAIN t = 1..Len(t)
      /\ Len(s) \in Nat /\ Len(t) \in Nat
  OBVIOUS
<1>2. \A i \in 1..Len(s) : i \in 1..Len(u) /\ u[i] = s[i]
  BY <1>1
<1>3. \A i \in 1..Len(t) : Len(s) + i \in 1..Len(u) /\ u[Len(s) + i] = t[i]
  BY <1>1
<1>4. \A i \in 1..Len(u) : i \in 1..Len(s) \/ i - Len(s) \in 1..Len(t)
  BY <1>1
<1>5. \A i \in 1..Len(u) : i > Len(s) => i - Len(s) \in 1..Len(t) /\ u[i] = t[i - Len(s)]
  BY <1>1
<1> HIDE DEF u
<1>6. (\A k \in 1..Len(u) : u[k] \notin no)
        <=> (\A k \in 1..Len(s) : s[k] \notin no) /\ (\A k \in 1..Len(t) : t[k] \notin no)
  <2>1. ASSUME \A k \in 1..Len(s) : s[k] \notin no, \A k \in 1..Len(t) : t[k] \notin no,
               NEW k \in 1..Len(u)
        PROVE  u[k] \notin no
    <3>1. CASE k > Len(s)
      BY <1>5, <2>1, <3>1
    <3>2. CASE ~ (k > Len(s))
      <4>1. k \in 1..Len(s)
        BY <1>1, <3>2
      <4> QED
        BY <1>2, <2>1, <4>1
    <3> QED
      BY <3>1, <3>2
  <2>2. ASSUME \A k \in 1..Len(u) : u[k] \notin no
        PROVE  (\A k \in 1..Len(s) : s[k] \notin no) /\ (\A k \in 1..Len(t) : t[k] \notin no)
    BY <1>2, <1>3, <2>2
  <2> QED
    BY <2>1, <2>2
<1>7. ASSUME NEW j \in 1..Len(t), t[j] \in yes, \A k \in 1..Len(t) : k > j => t[k] \notin no
      PROVE  \E i \in 1..Len(u) : u[i] \in yes /\ \A k \in 1..Len(u) : k > i => u[k] \notin no
  <2>1. Len(s) + j \in 1..Len(u) /\ u[Len(s) + j] \in yes
    BY <1>3, <1>7
  <2>2. ASSUME NEW k \in 1..Len(u), k > Len(s) + j PROVE u[k] \notin no
    <3>1. k > Len(s) /\ k - Len(s) > j
      BY <1>1, <2>2
    <3> QED
      BY <1>5, <1>7, <3>1
  <2> QED
    BY <2>1, <2>2
<1>8. ASSUME NEW j \in 1..Len(s), s[j] \in yes, \A k \in 1..Len(s) : k > j => s[k] \notin no,
             \A k \in 1..Len(t) : t[k] \notin no
      PROVE  \E i \in 1..Len(u) : u[i] \in yes /\ \A k \in 1..Len(u) : k > i => u[k] \notin no
  <2>1. j \in 1..Len(u) /\ u[j] \in yes
    BY <1>2, <1>8
  <2>2. ASSUME NEW k \in 1..Len(u), k > j PROVE u[k] \notin no
    BY <1>1, <1>2, <1>5, <1>8, <2>2
  <2> QED
    BY <2>1, <2>2
<1>9. ASSUME NEW i \in 1..Len(u), u[i] \in yes, \A k \in 1..Len(u) : k > i => u[k] \notin no
      PROVE  \/ \E j \in 1..Len(t) : t[j] \in yes /\ \A k \in 1..Len(t) : k > j => t[k] \notin no
             \/ /\ \E j \in 1..Len(s) : s[j] \in yes /\ \A k \in 1..Len(s) : k > j => s[k] \notin no
                /\ \A k \in 1..Len(t) : t[k] \notin no
  <2>1. CASE i > Len(s)
    <3>1. i - Len(s) \in 1..Len(t) /\ t[i - Len(s)] \in yes
      BY <1>5, <1>9, <2>1
    <3>2. ASSUME NEW k \in 1..Len(t), k > i - Len(s) PROVE t[k] \notin no
      <4>1. Len(s) + k \in 1..Len(u) /\ Len(s) + k > i
        BY <1>1, <1>3, <3>2
      <4> QED
        BY <1>3, <1>9, <4>1
    <3> QED
      BY <3>1, <3>2
  <2>2. CASE ~ (i > Len(s))
    <3>1. i \in 1..Len(s) /\ s[i] \in yes
      BY <1>1, <1>2, <1>9, <2>2
    <3>2. \A k \in 1..Len(s) : k > i => s[k] \notin no
      BY <1>2, <1>9
    <3>3. ASSUME NEW k \in 1..Len(t) PROVE t[k] \notin no
      <4>1. Len(s) + k \in 1..Len(u) /\ Len(s) + k > i
        BY <1>1, <1>3, <2>2
      <4> QED
        BY <1>3, <1>9, <4>1
    <3> QED
      BY <3>1, <3>2, <3>3
  <2> QED
    BY <2>1, <2>2
<1>10. Turned(u, yes, no, b)
         <=> \/ \E i \in 1..Len(u) : u[i] \in yes /\ \A k \in 1..Len(u) : k > i => u[k] \notin no
             \/ b /\ \A k \in 1..Len(u) : u[k] \notin no
  BY <1>1 DEF Turned
<1>11. Turned(s, yes, no, b)
         <=> \/ \E i \in 1..Len(s) : s[i] \in yes /\ \A k \in 1..Len(s) : k > i => s[k] \notin no
             \/ b /\ \A k \in 1..Len(s) : s[k] \notin no
  BY <1>1 DEF Turned
<1>12. Turned(t, yes, no, Turned(s, yes, no, b))
         <=> \/ \E i \in 1..Len(t) : t[i] \in yes /\ \A k \in 1..Len(t) : k > i => t[k] \notin no
             \/ Turned(s, yes, no, b) /\ \A k \in 1..Len(t) : t[k] \notin no
  BY <1>1 DEF Turned
<1>13. Turned(t, yes, no, Turned(s, yes, no, b)) => Turned(u, yes, no, b)
  BY <1>6, <1>7, <1>8, <1>10, <1>11, <1>12
<1>14. Turned(u, yes, no, b) => Turned(t, yes, no, Turned(s, yes, no, b))
  BY <1>6, <1>9, <1>10, <1>11, <1>12
<1>15. Turned(u, yes, no, b) <=> Turned(t, yes, no, Turned(s, yes, no, b))
  BY <1>13, <1>14
<1> QED
  BY <1>15 DEF u

(* One word.                                                               *)
LEMMA TurnedOne ==
  ASSUME NEW e, NEW yes, NEW no, NEW b \in BOOLEAN
  PROVE  Turned(<<e>>, yes, no, b) <=> e \in yes \/ (b /\ e \notin no)
<1>1. DOMAIN <<e>> = {1} /\ <<e>>[1] = e
  OBVIOUS
<1> QED
  BY <1>1 DEF Turned

(* What was on before can only make more be on; so can fewer words of no.  *)
LEMMA TurnedMonotone ==
  ASSUME NEW s, NEW yes, NEW no, NEW ko \in SUBSET no,
         NEW b \in BOOLEAN, NEW c \in BOOLEAN, c => b
  PROVE  Turned(s, yes, no, c) => Turned(s, yes, ko, b)
BY DEF Turned

(* It is a truth value.                                                    *)
LEMMA TurnedType ==
  ASSUME NEW s, NEW yes, NEW no, NEW b
  PROVE  Turned(s, yes, no, b) \in BOOLEAN
BY DEF Turned

(* The first word, then the others.                                        *)
LEMMA TurnedTail ==
  ASSUME NEW S, NEW s \in Seq(S), s # <<>>, NEW yes, NEW no, NEW b \in BOOLEAN
  PROVE  Turned(s, yes, no, b)
           <=> Turned(Tail(s), yes, no, Head(s) \in yes \/ (b /\ Head(s) \notin no))
<1> DEFINE h == Head(s)
           r == Tail(s)
           c == h \in yes \/ (b /\ h \notin no)
<1>1. <<h>> \in Seq(S) /\ r \in Seq(S) /\ s = <<h>> \o r
  OBVIOUS
<1>2. Turned(<<h>>, yes, no, b) <=> c
  BY TurnedOne
<1> HIDE DEF h, r, c
<1>3. Turned(<<h>> \o r, yes, no, b) <=> Turned(r, yes, no, Turned(<<h>>, yes, no, b))
  BY <1>1, TurnedConcat
<1>4. Turned(r, yes, no, Turned(<<h>>, yes, no, b)) <=> Turned(r, yes, no, c)
  BY <1>2 DEF Turned
<1> QED
  BY <1>1, <1>3, <1>4 DEF h, r, c

-----------------------------------------------------------------------------
(* What is on its way from a location to an agent: first the entries of    *)
(* the queue that come from there, then what is still to be read.          *)
Entry(l, m) == [from |-> l, msg |-> m]
Entries(l, M) == {Entry(l, m) : m \in M}

(* Whether word w of location l will be the last to count, once the agent  *)
(* has handled what is on its way in n and q: if it counts now, as b says, *)
(* or comes, and no word of ends comes after it.                           *)
Heard(w, l, n, q, b, ends) ==
  Turned(n, {w}, ends, Turned(q, {Entry(l, w)}, Entries(l, ends), b))

(* Whether id will be a peer then, if b says whether it is one now, and    *)
(* ends are the messages that end it.                                      *)
Expected(id, n, q, b, ends) == Heard(Reg(id), LocationOf(id), n, q, b, ends)

(* An entry is known by where it comes from and by its message.            *)
LEMMA EntriesDiffer ==
  /\ \A l, k, m, w : Entry(l, m) = Entry(k, w) <=> l = k /\ m = w
  /\ \A l, k, m, ends : Entry(l, m) \in Entries(k, ends) <=> l = k /\ m \in ends
<1>1. \A l, k, m, w : Entry(l, m) = Entry(k, w) <=> l = k /\ m = w
  <2> SUFFICES ASSUME NEW l, NEW k, NEW m, NEW w, Entry(l, m) = Entry(k, w)
               PROVE  l = k /\ m = w
    OBVIOUS
  <2>1. Entry(l, m).from = l /\ Entry(l, m).msg = m /\ Entry(k, w).from = k /\ Entry(k, w).msg = w
    BY DEF Entry
  <2> QED
    BY <2>1
<1> QED
  BY <1>1 DEF Entries

(* So is a message by its type and its members.                            *)
LEMMA MessagesDiffer ==
  /\ \A i, j : Reg(i) = Reg(j) <=> i = j
  /\ \A i, j : Dereg(i) = Dereg(j) <=> i = j
  /\ \A i, j : Reg(i) # Dereg(j) /\ Reg(i) # EOF /\ Dereg(i) # EOF
<1>1. \A i : Reg(i).src = i /\ Dereg(i).src = i /\ Reg(i).type = "CLIENT_REG"
             /\ Dereg(i).type = "CLIENT_DEREG" /\ EOF.type = "EOF"
  BY DEF Reg, Dereg, EOF
<1>2. \A i, j : Reg(i) = Reg(j) <=> i = j
  BY <1>1
<1>3. \A i, j : Dereg(i) = Dereg(j) <=> i = j
  BY <1>1
<1>4. \A i, j : Reg(i) # Dereg(j) /\ Reg(i) # EOF /\ Dereg(i) # EOF
  BY <1>1
<1> QED
  BY <1>2, <1>3, <1>4

(* Whether a word will count is a truth value.                             *)
LEMMA HeardType ==
  ASSUME NEW w, NEW l, NEW n, NEW q, NEW b, NEW ends
  PROVE  Heard(w, l, n, q, b, ends) \in BOOLEAN
BY TurnedType DEF Heard

(* More messages are sent.                                                 *)
LEMMA HeardSend ==
  ASSUME NEW w, NEW l, NEW n \in Seq(Message), NEW s \in Seq(Message), NEW q,
         NEW b \in BOOLEAN, NEW ends
  PROVE  Heard(w, l, n \o s, q, b, ends)
           <=> Turned(s, {w}, ends, Heard(w, l, n, q, b, ends))
<1> DEFINE c == Turned(q, {Entry(l, w)}, Entries(l, ends), b)
<1>1. c \in BOOLEAN
  BY TurnedType
<1> HIDE DEF c
<1>2. Turned(n \o s, {w}, ends, c) <=> Turned(s, {w}, ends, Turned(n, {w}, ends, c))
  BY <1>1, TurnedConcat
<1> QED
  BY <1>2 DEF c, Heard

(* Messages that are neither the word nor an end make no difference.       *)
LEMMA HeardSendInert ==
  ASSUME NEW w, NEW l, NEW n \in Seq(Message), NEW s \in Seq(Message), NEW q,
         NEW b \in BOOLEAN, NEW ends,
         \A k \in DOMAIN s : s[k] # w /\ s[k] \notin ends
  PROVE  Heard(w, l, n \o s, q, b, ends) <=> Heard(w, l, n, q, b, ends)
<1>1. Heard(w, l, n, q, b, ends) \in BOOLEAN
  BY HeardType
<1>2. \A k \in DOMAIN s : s[k] \notin {w} /\ s[k] \notin ends
  OBVIOUS
<1>3. Turned(s, {w}, ends, Heard(w, l, n, q, b, ends)) <=> Heard(w, l, n, q, b, ends)
  BY <1>1, <1>2, TurnedInert
<1> QED
  BY <1>3, HeardSend

(* The reader moves a message into the queue.                              *)
LEMMA HeardGrab ==
  ASSUME NEW w, NEW l \in Location, NEW n \in Seq(Message), n # <<>>, NEW q \in Seq(QueueEntry),
         NEW b \in BOOLEAN, NEW ends
  PROVE  Heard(w, l, Tail(n), Append(q, Entry(l, Head(n))), b, ends)
           <=> Heard(w, l, n, q, b, ends)
<1> DEFINE e == Entry(l, Head(n))
           yes == {Entry(l, w)}
           no == Entries(l, ends)
           c == Turned(q, yes, no, b)
           d == Turned(Append(q, e), yes, no, b)
<1>1. e \in QueueEntry /\ Append(q, e) = q \o <<e>> /\ <<e>> \in Seq(QueueEntry)
  <2>1. Head(n) \in Message
    OBVIOUS
  <2>2. e \in QueueEntry
    BY <2>1 DEF Entry, QueueEntry
  <2> HIDE DEF e
  <2> QED
    BY <2>2
<1>2. c \in BOOLEAN /\ d \in BOOLEAN
  BY TurnedType
<1>3. e \in yes <=> Head(n) \in {w}
  BY EntriesDiffer
<1>4. e \in no <=> Head(n) \in ends
  BY EntriesDiffer
<1> HIDE DEF e, yes, no
<1>5. d <=> Turned(<<e>>, yes, no, c)
  <2> DEFINE f == <<e>>
  <2>1. f \in Seq(QueueEntry) /\ Append(q, e) = q \o f
    BY <1>1
  <2> HIDE DEF f
  <2>2. Turned(q \o f, yes, no, b) <=> Turned(f, yes, no, Turned(q, yes, no, b))
    BY <2>1, TurnedConcat
  <2> QED
    BY <2>1, <2>2 DEF f
<1>6. d <=> e \in yes \/ (c /\ e \notin no)
  BY <1>2, <1>5, TurnedOne
<1> HIDE DEF c, d
<1>7. Turned(n, {w}, ends, c)
        <=> Turned(Tail(n), {w}, ends, Head(n) \in {w} \/ (c /\ Head(n) \notin ends))
  BY <1>2, TurnedTail
<1>8. Turned(n, {w}, ends, c) <=> Turned(Tail(n), {w}, ends, d)
  BY <1>3, <1>4, <1>6, <1>7 DEF Turned
<1> QED
  BY <1>8 DEF Heard, c, d, yes, no, e

(* What comes in from elsewhere makes no difference.                       *)
LEMMA HeardGrabOther ==
  ASSUME NEW w, NEW l, NEW n, NEW q \in Seq(QueueEntry), NEW b \in BOOLEAN, NEW ends,
         NEW x \in Location, NEW m \in Message, x # l
  PROVE  Heard(w, l, n, Append(q, Entry(x, m)), b, ends) <=> Heard(w, l, n, q, b, ends)
<1> DEFINE e == Entry(x, m)
           yes == {Entry(l, w)}
           no == Entries(l, ends)
           c == Turned(q, yes, no, b)
           d == Turned(Append(q, e), yes, no, b)
<1>1. Append(q, e) = q \o <<e>> /\ <<e>> \in Seq(QueueEntry)
  <2>1. e \in QueueEntry
    BY DEF Entry, QueueEntry
  <2> HIDE DEF e
  <2> QED
    BY <2>1
<1>2. c \in BOOLEAN /\ d \in BOOLEAN
  BY TurnedType
<1>3. e \notin yes /\ e \notin no
  BY EntriesDiffer
<1> HIDE DEF e, yes, no
<1>4. d <=> Turned(<<e>>, yes, no, c)
  <2> DEFINE f == <<e>>
  <2>1. f \in Seq(QueueEntry) /\ Append(q, e) = q \o f
    BY <1>1
  <2> HIDE DEF f
  <2>2. Turned(q \o f, yes, no, b) <=> Turned(f, yes, no, Turned(q, yes, no, b))
    BY <2>1, TurnedConcat
  <2> QED
    BY <2>1, <2>2 DEF f
<1>5. d <=> c
  BY <1>2, <1>3, <1>4, TurnedOne
<1> HIDE DEF c, d
<1>6. Turned(n, {w}, ends, c) <=> Turned(n, {w}, ends, d)
  BY <1>5 DEF Turned
<1> QED
  BY <1>6 DEF Heard, c, d, yes, no, e

(* The dispatcher takes a message: what will count stays the same if what  *)
(* counts changes as the message says,                                     *)
LEMMA HeardTake ==
  ASSUME NEW w, NEW l, NEW n, NEW q \in Seq(QueueEntry), q # <<>>, NEW ends,
         NEW b \in BOOLEAN, NEW c \in BOOLEAN,
         c <=> \/ Head(q) = Entry(l, w)
               \/ b /\ Head(q) \notin Entries(l, ends)
  PROVE  Heard(w, l, n, Tail(q), c, ends) <=> Heard(w, l, n, q, b, ends)
<1> DEFINE yes == {Entry(l, w)}
           no == Entries(l, ends)
<1>1. c <=> Head(q) \in yes \/ (b /\ Head(q) \notin no)
  OBVIOUS
<1> HIDE DEF yes, no
<1>2. Turned(q, yes, no, b) <=> Turned(Tail(q), yes, no, Head(q) \in yes \/ (b /\ Head(q) \notin no))
  BY TurnedTail
<1>3. Turned(q, yes, no, b) <=> Turned(Tail(q), yes, no, c)
  BY <1>1, <1>2 DEF Turned
<1>4. Turned(n, {w}, ends, Turned(q, yes, no, b))
        <=> Turned(n, {w}, ends, Turned(Tail(q), yes, no, c))
  BY <1>3 DEF Turned
<1> QED
  BY <1>4 DEF Heard, yes, no

(* and no more will count if less does, or if there are more ends.         *)
LEMMA HeardMonotone ==
  ASSUME NEW w, NEW l, NEW n, NEW q, NEW b \in BOOLEAN, NEW c \in BOOLEAN, c => b,
         NEW ends, NEW less \in SUBSET ends, Heard(w, l, n, q, c, ends)
  PROVE  Heard(w, l, n, q, b, less)
<1> DEFINE yes == {Entry(l, w)}
           t == Turned(q, yes, Entries(l, ends), c)
           u == Turned(q, yes, Entries(l, less), b)
<1>1. Entries(l, less) \in SUBSET Entries(l, ends)
  BY DEF Entries
<1>2. t \in BOOLEAN /\ u \in BOOLEAN
  BY TurnedType
<1> HIDE DEF yes
<1>3. t => u
  BY <1>1, TurnedMonotone
<1>4. Turned(n, {w}, ends, t)
  BY DEF Heard, yes
<1> HIDE DEF t, u
<1>5. Turned(n, {w}, less, u)
  BY <1>2, <1>3, <1>4, TurnedMonotone
<1> QED
  BY <1>5 DEF Heard, t, u, yes

(* The same of the peers that are expected.                                *)
LEMMA ExpectedType ==
  ASSUME NEW id, NEW n, NEW q, NEW b, NEW ends
  PROVE  Expected(id, n, q, b, ends) \in BOOLEAN
BY HeardType DEF Expected

LEMMA ExpectedSend ==
  ASSUME NEW id, NEW n \in Seq(Message), NEW w \in Seq(Message), NEW q,
         NEW b \in BOOLEAN, NEW ends
  PROVE  Expected(id, n \o w, q, b, ends)
           <=> Turned(w, {Reg(id)}, ends, Expected(id, n, q, b, ends))
BY HeardSend DEF Expected

LEMMA ExpectedSendInert ==
  ASSUME NEW id, NEW n \in Seq(Message), NEW w \in Seq(Message), NEW q,
         NEW b \in BOOLEAN, NEW ends,
         \A k \in DOMAIN w : w[k] # Reg(id) /\ w[k] \notin ends
  PROVE  Expected(id, n \o w, q, b, ends) <=> Expected(id, n, q, b, ends)
BY HeardSendInert DEF Expected

LEMMA ExpectedGrab ==
  ASSUME NEW id, NEW n \in Seq(Message), n # <<>>, NEW q \in Seq(QueueEntry),
         LocationOf(id) \in Location, NEW b \in BOOLEAN, NEW ends
  PROVE  Expected(id, Tail(n), Append(q, Entry(LocationOf(id), Head(n))), b, ends)
           <=> Expected(id, n, q, b, ends)
BY HeardGrab DEF Expected

LEMMA ExpectedGrabOther ==
  ASSUME NEW id, NEW n, NEW q \in Seq(QueueEntry), NEW b \in BOOLEAN, NEW ends,
         NEW x \in Location, NEW m \in Message, x # LocationOf(id)
  PROVE  Expected(id, n, Append(q, Entry(x, m)), b, ends) <=> Expected(id, n, q, b, ends)
BY HeardGrabOther DEF Expected

LEMMA ExpectedTake ==
  ASSUME NEW id, NEW n, NEW q \in Seq(QueueEntry), q # <<>>, NEW ends,
         NEW b \in BOOLEAN, NEW c \in BOOLEAN,
         c <=> \/ Head(q) = Entry(LocationOf(id), Reg(id))
               \/ b /\ Head(q) \notin Entries(LocationOf(id), ends)
  PROVE  Expected(id, n, Tail(q), c, ends) <=> Expected(id, n, q, b, ends)
BY HeardTake DEF Expected

LEMMA ExpectedMonotone ==
  ASSUME NEW id, NEW n, NEW q, NEW b \in BOOLEAN, NEW c \in BOOLEAN, c => b,
         NEW ends, NEW less \in SUBSET ends, Expected(id, n, q, c, ends)
  PROVE  Expected(id, n, q, b, less)
BY HeardMonotone DEF Expected

(* With nothing on its way the peers are what they will be.                *)
LEMMA ExpectedNow ==
  ASSUME NEW id, NEW n, NEW q, NEW b \in BOOLEAN, NEW ends,
         \A k \in DOMAIN n : n[k] # Reg(id) /\ n[k] \notin ends,
         \A k \in DOMAIN q : /\ q[k] # Entry(LocationOf(id), Reg(id))
                             /\ q[k] \notin Entries(LocationOf(id), ends)
  PROVE  Expected(id, n, q, b, ends) <=> b
BY DEF Expected, Heard, Turned

(* If nothing on its way ends it, a peer stays one.                        *)
LEMMA ExpectedStays ==
  ASSUME NEW id, NEW n, NEW q, NEW ends,
         \A k \in DOMAIN n : n[k] \notin ends,
         \A k \in DOMAIN q : q[k] \notin Entries(LocationOf(id), ends)
  PROVE  Expected(id, n, q, TRUE, ends)
BY DEF Expected, Heard, Turned

(* An end that does not occur does not matter.                             *)
LEMMA ExpectedFewerEnds ==
  ASSUME NEW id, NEW n, NEW q, NEW b \in BOOLEAN, NEW m, NEW w,
         \A k \in DOMAIN n : n[k] # w,
         \A k \in DOMAIN q : q[k] # Entry(LocationOf(id), w)
  PROVE  Expected(id, n, q, b, {m, w}) <=> Expected(id, n, q, b, {m})
<1> DEFINE l == LocationOf(id)
           yes == {Entry(l, Reg(id))}
           t == Turned(q, yes, Entries(l, {m, w}), b)
           u == Turned(q, yes, Entries(l, {m}), b)
<1>1. \A k \in DOMAIN q : q[k] \in Entries(l, {m, w}) <=> q[k] \in Entries(l, {m})
  BY DEF Entries
<1> HIDE DEF yes
<1>2. t <=> u
  BY <1>1 DEF Turned
<1>3. \A k \in DOMAIN n : n[k] \in {m, w} <=> n[k] \in {m}
  OBVIOUS
<1> HIDE DEF t, u
<1>4. Turned(n, {Reg(id)}, {m, w}, t) <=> Turned(n, {Reg(id)}, {m}, u)
  BY <1>2, <1>3 DEF Turned
<1> QED
  BY <1>4 DEF Expected, Heard, t, u, yes

(* If nothing to be read matters, what does is in the queue.               *)
LEMMA ExpectedQueued ==
  ASSUME NEW id, NEW n, NEW q, NEW b \in BOOLEAN, NEW ends,
         \A k \in DOMAIN n : n[k] # Reg(id) /\ n[k] \notin ends
  PROVE  Expected(id, n, q, b, ends) <=> Expected(id, <<>>, q, b, ends)
<1>1. DOMAIN <<>> = {}
  OBVIOUS
<1> QED
  BY <1>1 DEF Expected, Heard, Turned

-----------------------------------------------------------------------------
(* The invariant.                                                          *)

(* The same of agent a in this state; and what was written and not read    *)
(* yet, or read and not handled yet.                                       *)
ExpectedAt(id, a, ends) ==
  Expected(id, net[LocationOf(id)][a], queue[a], id \in info[a].peers, ends)

Written(l, k, m) == \E i \in DOMAIN net[l][k] : net[l][k][i] = m
Queued(l, a, m) == \E i \in DOMAIN queue[a] : queue[a][i] = Entry(l, m)

(* What PeersSettle asks the peers to be.                                  *)
Belongs(id, a) ==
  \/ id \in up \cap Agent /\ (info[a].parent = id \/ info[id].parent = a)
  \/ id \in up \cap Process /\ attach[id] = a
  \/ id \in handles /\ attach[HostOf[id]] = a

(* Nobody is connected to itself.                                          *)
NoSelf == \A x \in Location : x \notin conn[x]

(* Nothing is known of a process that has not started,                     *)
Fresh ==
  \A x \in Location : x \notin up /\ x \notin gone =>
    /\ conn[x] = {}
    /\ \A y \in Location : net[x][y] = <<>> /\ net[y][x] = <<>>
    /\ \A a \in Agent : \A i \in DOMAIN queue[a] : queue[a][i].from # x
    /\ x \in Agent => queue[x] = <<>>
    /\ \A a \in up \cap Agent : info[a].parent # x
    /\ \A p \in up \cap Process : attach[p] # x

(* a location registers and deregisters its own components only,           *)
Own ==
  \A l \in Location : \A id \in Comp : LocationOf(id) # l =>
    /\ \A k \in Location : ~ Written(l, k, Reg(id)) /\ ~ Written(l, k, Dereg(id))
    /\ \A a \in Agent : ~ Queued(l, a, Reg(id)) /\ ~ Queued(l, a, Dereg(id))

(* between two processes that run no connection ends,                      *)
Open ==
  \A x, y \in up :
    /\ ~ Written(x, y, EOF) /\ ~ Written(x, y, Dereg(x))
    /\ y \in Agent => ~ Queued(x, y, EOF) /\ ~ Queued(x, y, Dereg(x))

(* an agent is connected to whoever belongs to it,                         *)
Joined == \A a \in up \cap Agent, l \in up : Belongs(l, a) => Linked(a, l)

(* and a client process has written to no other agent that still runs.     *)
OnlyAttached ==
  \A p \in up \cap Process, a \in up \cap Agent : attach[p] # a => net[p][a] = <<>>

(* What is known of the connections and of what is on its way in them.     *)
Links ==
  /\ up \cap gone = {} /\ NoSelf /\ Fresh /\ Own /\ Open /\ Joined /\ OnlyAttached

(* Who will be a peer, once what is on its way was handled, belongs.       *)
Accounted ==
  \A a \in up \cap Agent, id \in Comp :
     ExpectedAt(id, a, {Dereg(id), EOF}) <=> Belongs(id, a)

(* A manager deregisters last: only the end of the connection follows, and *)
(* all its handles have deregistered before.                               *)
LastWords ==
  \A a \in up \cap Agent, l \in Location :
    /\ \A i, j \in DOMAIN net[l][a] :
         i < j /\ net[l][a][i] = Dereg(l) => net[l][a][j] = EOF
    /\ Queued(l, a, Dereg(l)) => \A j \in DOMAIN net[l][a] : net[l][a][j] = EOF
    /\ Written(l, a, Dereg(l)) \/ Queued(l, a, Dereg(l)) =>
         \A id \in CompsAt(l) : ~ ExpectedAt(id, a, {Dereg(id)})

(* The invariant: as long as no write reported an error.                   *)
PeersInv == writeErrors = 0 => Links /\ Accounted /\ LastWords

-----------------------------------------------------------------------------
(* The members of two sequences, one after the other.                      *)
LEMMA ConcatMembers ==
  ASSUME NEW S, NEW s \in Seq(S), NEW t \in Seq(S), NEW i \in DOMAIN (s \o t)
  PROVE  \/ \E j \in DOMAIN s : (s \o t)[i] = s[j] /\ i = j
         \/ \E j \in DOMAIN t : (s \o t)[i] = t[j] /\ i = Len(s) + j
<1>1. CASE i <= Len(s)
  BY <1>1
<1>2. CASE i > Len(s)
  <2>1. i - Len(s) \in DOMAIN t /\ (s \o t)[i] = t[i - Len(s)] /\ i = Len(s) + (i - Len(s))
    BY <1>2
  <2> QED
    BY <2>1
<1> QED
  BY <1>1, <1>2

(* What a step on the network does to each connection and stream.          *)
NetEffect(x, out, closed, p) ==
  /\ conn'[x] = (conn[x] \ closed) \cup ({p} \cap Location)
  /\ \A l \in Location : l # x =>
       conn'[l] = IF l = p THEN conn[l] \cup {x} ELSE conn[l]
  /\ \A k \in Location : Linked(x, k) =>
       net'[x][k] = net[x][k] \o out[k] \o (IF k \in closed THEN <<EOF>> ELSE <<>>)
  /\ \A k \in Location : Linked(x, k) /\ k \notin closed =>
       net'[x][k] = net[x][k] \o out[k]
  /\ \A k \in Location : ~ Linked(x, k) =>
       net'[x][k] = IF k = p THEN out[k] ELSE net[x][k]
  /\ \A l \in Location : l # x =>
       net'[l][x] = IF l \in closed THEN <<>> ELSE net[l][x]
  /\ \A l, k \in Location : l # x /\ k # x => net'[l][k] = net[l][k]

(* NetStep does that.                                                      *)
LEMMA NetFacts ==
  ASSUME TypeOK, NEW x \in Location, NEW out \in [Location -> Seq(Message)],
         NEW closed, NEW p, NetStep(x, out, closed, p)
  PROVE  NetEffect(x, out, closed, p)
<1>1. conn'[x] = (conn[x] \ closed) \cup ({p} \cap Location)
  BY DEF NetStep
<1>2. \A l \in Location : l # x =>
        conn'[l] = IF l = p THEN conn[l] \cup {x} ELSE conn[l]
  BY DEF NetStep
<1> DEFINE f(l, k) == CASE l = x /\ Linked(x, k) ->
                      net[x][k] \o out[k] \o (IF k \in closed THEN <<EOF>> ELSE <<>>)
                 [] l = x /\ ~ Linked(x, k) -> IF k = p THEN out[k] ELSE net[x][k]
                 [] l # x /\ k = x /\ l \in closed -> <<>>
                 [] OTHER -> net[l][k]
<1>3. \A l, k \in Location : net'[l][k] = f(l, k)
  <2>1. net' = [l \in Location |-> [k \in Location |-> f(l, k)]]
    BY DEF NetStep
  <2> HIDE DEF f
  <2> QED
    BY <2>1
<1>4. \A k \in Location : Linked(x, k) => f(x, k) = net[x][k] \o out[k] \o (IF k \in closed THEN <<EOF>> ELSE <<>>)
  OBVIOUS
<1>5. \A k \in Location : ~ Linked(x, k) => f(x, k) = IF k = p THEN out[k] ELSE net[x][k]
  OBVIOUS
<1>6. \A l \in Location : l # x => f(l, x) = IF l \in closed THEN <<>> ELSE net[l][x]
  OBVIOUS
<1>7. \A l, k \in Location : l # x /\ k # x => f(l, k) = net[l][k]
  OBVIOUS
<1>8. \A k \in Location : net[x][k] \o out[k] \o <<>> = net[x][k] \o out[k]
  <2>1. \A k \in Location : net[x][k] \in Seq(Message) /\ out[k] \in Seq(Message)
    BY DEF TypeOK
  <2> QED
    BY <2>1
<1> HIDE DEF f
<1> QED
  BY <1>1, <1>2, <1>3, <1>4, <1>5, <1>6, <1>7, <1>8 DEF NetEffect

(* Nothing is written but what was before, what is sent, and the end.      *)
NetOrigin(x, out, closed) ==
  \A l, k \in Location : \A i \in DOMAIN net'[l][k] :
     \/ \E j \in DOMAIN net[l][k] : net'[l][k][i] = net[l][k][j]
     \/ l = x /\ \E j \in DOMAIN out[k] : net'[l][k][i] = out[k][j]
     \/ l = x /\ k \in closed /\ Linked(x, k) /\ net'[l][k][i] = EOF

(* NetStep writes nothing else.                                            *)
LEMMA WrittenFacts ==
  ASSUME TypeOK, NEW x \in Location, NEW out \in [Location -> Seq(Message)],
         NEW closed, NEW p, NetStep(x, out, closed, p)
  PROVE  NetOrigin(x, out, closed)
<1> SUFFICES ASSUME NEW l \in Location, NEW k \in Location, NEW i \in DOMAIN net'[l][k]
             PROVE  \/ \E j \in DOMAIN net[l][k] : net'[l][k][i] = net[l][k][j]
                    \/ l = x /\ \E j \in DOMAIN out[k] : net'[l][k][i] = out[k][j]
                    \/ l = x /\ k \in closed /\ Linked(x, k) /\ net'[l][k][i] = EOF
  BY DEF NetOrigin
<1> DEFINE n == net[x][k]
           o == out[k]
<1>1. n \in Seq(Message) /\ o \in Seq(Message) /\ <<EOF>> \in Seq(Message)
  BY MessageTypes DEF TypeOK
<1>0. /\ Linked(x, k) => net'[x][k] = net[x][k] \o out[k] \o (IF k \in closed THEN <<EOF>> ELSE <<>>)
      /\ Linked(x, k) /\ k \notin closed => net'[x][k] = net[x][k] \o out[k]
      /\ ~ Linked(x, k) => net'[x][k] = IF k = p THEN out[k] ELSE net[x][k]
      /\ l # x /\ k = x => net'[l][k] = IF l \in closed THEN <<>> ELSE net[l][k]
      /\ l # x /\ k # x => net'[l][k] = net[l][k]
  <2>1. NetEffect(x, out, closed, p)
    BY NetFacts
  <2> QED
    BY <2>1 DEF NetEffect
<1>2. CASE l # x
  <2>1. DOMAIN <<>> = {}
    OBVIOUS
  <2> QED
    BY <1>0, <1>2, <2>1
<1>3. CASE l = x /\ ~ Linked(x, k)
  BY <1>0, <1>3
<1>4. CASE l = x /\ Linked(x, k) /\ k \notin closed
  <2>1. net'[l][k] = n \o o
    BY <1>0, <1>4
  <2> HIDE DEF n, o
  <2>2. (\E j \in DOMAIN n : net'[l][k][i] = n[j]) \/ (\E j \in DOMAIN o : net'[l][k][i] = o[j])
    BY <1>1, <2>1, ConcatMembers
  <2> QED
    BY <1>4, <2>2 DEF n, o
<1>5. CASE l = x /\ Linked(x, k) /\ k \in closed
  <2>1. net'[l][k] = (n \o o) \o <<EOF>> /\ n \o o \in Seq(Message)
    <3>1. net'[l][k] = n \o o \o <<EOF>>
      BY <1>0, <1>5
    <3> HIDE DEF n, o
    <3> QED
      BY <1>1, <3>1
  <2> HIDE DEF n, o
  <2> DEFINE no == n \o o
             e == <<EOF>>
  <2>2. \/ \E j \in DOMAIN no : net'[l][k][i] = no[j]
        \/ \E j \in DOMAIN e : net'[l][k][i] = e[j]
    <3> HIDE DEF no, e
    <3>1. no \in Seq(Message) /\ e \in Seq(Message) /\ net'[l][k] = no \o e
      BY <1>1, <2>1 DEF no, e
    <3> QED
      BY <3>1, ConcatMembers
  <2>3. ASSUME NEW j \in DOMAIN no, net'[l][k][i] = no[j]
        PROVE  (\E h \in DOMAIN n : net'[l][k][i] = n[h]) \/ (\E h \in DOMAIN o : net'[l][k][i] = o[h])
    BY <1>1, <2>3, ConcatMembers
  <2>4. \A j \in DOMAIN e : e[j] = EOF
    OBVIOUS
  <2> QED
    BY <1>5, <2>2, <2>3, <2>4 DEF n, o
<1> QED
  BY <1>2, <1>3, <1>4, <1>5

-----------------------------------------------------------------------------
(* A step of a process that runs, or starts: it writes, closes connections *)
(* to processes that ended, and may open one to an agent, p.               *)

(* No queue holds an entry it did not hold before.                         *)
QueuesShrink ==
  \A a \in Agent : \A i \in DOMAIN queue'[a] : \E j \in DOMAIN queue[a] : queue'[a][i] = queue[a][j]

(* x registers and deregisters its own components only, and goes on        *)
(* itself.                                                                 *)
Sends(x, sent) ==
  /\ sent \in [Location -> Seq(Message)]
  /\ \A k \in Location : \A i \in DOMAIN sent[k] :
       /\ sent[k][i] # EOF /\ sent[k][i] # Dereg(x)
       /\ \A id \in Comp : sent[k][i] \in {Reg(id), Dereg(id)} => LocationOf(id) = x

(* Everything such a step changes, but the peers of x.                     *)
Move(x, sent, closed, p) ==
  /\ x \in Location /\ x \notin gone
  /\ p = NoAgent \/ (p \in up \cap Agent /\ p # x)
  /\ closed \cap up = {}
  /\ Sends(x, sent) /\ NetStep(x, sent, closed, p)
  /\ up' = up \cup {x} /\ gone' = gone
  /\ QueuesShrink
  /\ \A b \in Agent \ {x} : info'[b] = info[b] /\ queue'[b] = queue[b]
  /\ \A c \in Client : HostOf[c] # x => (c \in handles' <=> c \in handles)
  /\ x \in Agent =>
       \/ info'[x].parent = p
       \/ p = NoAgent /\ x \in up /\ info'[x].parent = info[x].parent
  /\ \A q \in Process \ {x} : attach'[q] = attach[q]
  /\ x \in Process =>
       /\ \/ p # NoAgent /\ attach'[x] = p /\ (x \in up => attach[x] \notin up)
          \/ p = NoAgent /\ x \in up /\ attach'[x] = attach[x]
       /\ \A b \in Location \ {attach'[x]} : sent[b] = <<>>

(* Nobody has heard from a process that has not started, and it from       *)
(* nobody: to the streams it is as if it were open.                        *)
LEMMA OpenToStart ==
  ASSUME IInv, Links, NEW x \in Location, x \notin gone
  PROVE  /\ \A y, z \in up \cup {x} :
              /\ ~ Written(y, z, EOF) /\ ~ Written(y, z, Dereg(y))
              /\ z \in Agent => ~ Queued(y, z, EOF) /\ ~ Queued(y, z, Dereg(y))
         /\ up \subseteq Location
<1>1. up \subseteq Location
  BY DEF IInv, TypeOK
<1>2. CASE x \in up
  BY <1>1, <1>2 DEF Links, Open
<1>3. CASE x \notin up
  <2>1. /\ \A y \in Location : net[x][y] = <<>> /\ net[y][x] = <<>>
        /\ \A a \in Agent : \A i \in DOMAIN queue[a] : queue[a][i].from # x
        /\ x \in Agent => queue[x] = <<>>
    BY <1>3 DEF Links, Fresh
  <2>2. DOMAIN <<>> = {}
    OBVIOUS
  <2>3. \A l, m : Entry(l, m).from = l
    BY DEF Entry
  <2>4. \A y \in Location : \A m : ~ Written(x, y, m) /\ ~ Written(y, x, m)
    BY <2>1, <2>2 DEF Written
  <2>5. \A a \in Agent : \A m : ~ Queued(x, a, m)
    BY <2>1, <2>3 DEF Queued
  <2>6. x \in Agent => \A y, m : ~ Queued(y, x, m)
    BY <2>1, <2>2 DEF Queued
  <2>7. \A y, z \in up : /\ ~ Written(y, z, EOF) /\ ~ Written(y, z, Dereg(y))
                         /\ z \in Agent => ~ Queued(y, z, EOF) /\ ~ Queued(y, z, Dereg(y))
    BY DEF Links, Open
  <2> QED
    BY <1>1, <2>4, <2>5, <2>6, <2>7
<1> QED
  BY <1>2, <1>3

(* After the step nothing is on its way but what was, and what is sent.    *)
LEMMA MoveWritten ==
  ASSUME IInv, Links, NEW x, NEW sent, NEW closed, NEW p, Move(x, sent, closed, p)
  PROVE  /\ \A l, k \in Location : \A m : Written(l, k, m)' =>
              \/ Written(l, k, m)
              \/ l = x /\ \E i \in DOMAIN sent[k] : sent[k][i] = m
              \/ l = x /\ m = EOF /\ k \in closed /\ k # x
         /\ \A l, m : \A a \in Agent : Queued(l, a, m)' => Queued(l, a, m)
<1>1. /\ TypeOK /\ x \in Location /\ sent \in [Location -> Seq(Message)]
      /\ NetStep(x, sent, closed, p) /\ x \notin conn[x]
  BY DEF IInv, Links, NoSelf, Move, Sends
<1>2. ASSUME NEW l \in Location, NEW k \in Location, NEW m, Written(l, k, m)'
      PROVE  \/ Written(l, k, m)
             \/ l = x /\ \E i \in DOMAIN sent[k] : sent[k][i] = m
             \/ l = x /\ m = EOF /\ k \in closed /\ k # x
  <2>1. PICK i \in DOMAIN net'[l][k] : net'[l][k][i] = m
    BY <1>2 DEF Written
  <2>2. \/ \E j \in DOMAIN net[l][k] : net'[l][k][i] = net[l][k][j]
        \/ l = x /\ \E j \in DOMAIN sent[k] : net'[l][k][i] = sent[k][j]
        \/ l = x /\ k \in closed /\ Linked(x, k) /\ net'[l][k][i] = EOF
    <3>1. NetOrigin(x, sent, closed)
      BY <1>1, WrittenFacts
    <3> QED
      BY <3>1 DEF NetOrigin
  <2> QED
    BY <1>1, <2>1, <2>2 DEF Written, Linked
<1>3. \A l, m : \A a \in Agent : Queued(l, a, m)' => Queued(l, a, m)
  <2>1. QueuesShrink
    BY DEF Move
  <2>2. ASSUME NEW l, NEW m, NEW a \in Agent, NEW i \in DOMAIN queue'[a], queue'[a][i] = Entry(l, m)
        PROVE  \E j \in DOMAIN queue[a] : queue[a][j] = Entry(l, m)
    <3>1. PICK j \in DOMAIN queue[a] : queue'[a][i] = queue[a][j]
      BY <2>1 DEF QueuesShrink
    <3> QED
      BY <2>2, <3>1
  <2> QED
    BY <2>2 DEF Queued
<1> QED
  BY <1>2, <1>3

(* Connections between processes that run stay.                            *)
LEMMA MoveLinked ==
  ASSUME IInv, Links, NEW x, NEW sent, NEW closed, NEW p, Move(x, sent, closed, p)
  PROVE  /\ \A c, d \in up : Linked(c, d) => Linked(c, d)'
         /\ p # NoAgent => Linked(x, p)' /\ Linked(p, x)'
         /\ \A l \in Location : l \notin conn'[l]
         /\ \A y \in Location : y \notin up \cup {x} /\ conn[y] = {} => conn'[y] = {}
<1>1. /\ TypeOK /\ x \in Location /\ sent \in [Location -> Seq(Message)]
      /\ NetStep(x, sent, closed, p)
      /\ p = NoAgent \/ (p \in up \cap Agent /\ p # x)
      /\ closed \cap up = {}
      /\ \A l \in Location : l \notin conn[l]
      /\ up \subseteq Location
  BY DEF IInv, TypeOK, Links, NoSelf, Move, Sends
<1>2. NetEffect(x, sent, closed, p)
  BY <1>1, NetFacts
<1>3. /\ conn'[x] = (conn[x] \ closed) \cup ({p} \cap Location)
      /\ \A l \in Location : l # x =>
           conn'[l] = IF l = p THEN conn[l] \cup {x} ELSE conn[l]
  BY <1>2 DEF NetEffect
<1>4. NoAgent \notin Location
  BY Ids
<1>5. ASSUME NEW c \in up, NEW d \in up, d \in conn[c] PROVE d \in conn'[c]
  BY <1>1, <1>3, <1>5
<1>6. \A c, d \in up : Linked(c, d) => Linked(c, d)'
  BY <1>5 DEF Linked
<1>7. p # NoAgent => p \in conn'[x] /\ x \in conn'[p]
  BY <1>1, <1>3
<1>8. \A l \in Location : l \notin conn'[l]
  <2>1. x \notin conn'[x]
    BY <1>1, <1>3, <1>4
  <2>2. \A l \in Location : l # x => l \notin conn'[l]
    BY <1>1, <1>3
  <2> QED
    BY <2>1, <2>2
<1>9. \A y \in Location : y \notin up \cup {x} /\ conn[y] = {} => conn'[y] = {}
  BY <1>1, <1>3, <1>4
<1> QED
  BY <1>6, <1>7, <1>8, <1>9 DEF Linked

(* A sequence of no members is empty.                                      *)
LEMMA EmptyDomain ==
  ASSUME NEW S, NEW s \in Seq(S), \A i \in DOMAIN s : FALSE
  PROVE  s = <<>>
<1>1. Len(s) \in Nat /\ DOMAIN s = 1..Len(s)
  OBVIOUS
<1>2. Len(s) = 0
  <2>1. Len(s) > 0 => 1 \in DOMAIN s
    BY <1>1
  <2> QED
    BY <1>1, <2>1
<1> QED
  BY <1>2

(* A process that has not started stays unknown.                           *)
LEMMA MoveFresh ==
  ASSUME IInv, IInv', Links, NEW x, NEW sent, NEW closed, NEW p, Move(x, sent, closed, p)
  PROVE  Fresh'
<1>1. /\ TypeOK /\ x \in Location /\ sent \in [Location -> Seq(Message)]
      /\ NetStep(x, sent, closed, p)
      /\ p = NoAgent \/ (p \in up \cap Agent /\ p # x)
      /\ up' = up \cup {x} /\ gone' = gone
  BY DEF IInv, Move, Sends
<1>2. NetEffect(x, sent, closed, p)
  BY <1>1, NetFacts
<1> SUFFICES ASSUME NEW y \in Location, y \notin up', y \notin gone'
             PROVE  /\ conn'[y] = {}
                    /\ \A z \in Location : net'[y][z] = <<>> /\ net'[z][y] = <<>>
                    /\ \A a \in Agent : \A i \in DOMAIN queue'[a] : queue'[a][i].from # y
                    /\ y \in Agent => queue'[y] = <<>>
                    /\ \A a \in up' \cap Agent : info'[a].parent # y
                    /\ \A q \in up' \cap Process : attach'[q] # y
  BY DEF Fresh
<1>3. y # x /\ y \notin up /\ y \notin gone /\ y # p /\ y # NoAgent
  BY <1>1, Ids
<1>4. /\ conn[y] = {}
      /\ \A z \in Location : net[y][z] = <<>> /\ net[z][y] = <<>>
      /\ \A a \in Agent : \A i \in DOMAIN queue[a] : queue[a][i].from # y
      /\ y \in Agent => queue[y] = <<>>
      /\ \A a \in up \cap Agent : info[a].parent # y
      /\ \A q \in up \cap Process : attach[q] # y
  BY <1>3 DEF Links, Fresh
<1>5. conn'[y] = {}
  BY <1>1, <1>3, <1>4, MoveLinked
<1>6. ASSUME NEW z \in Location PROVE net'[y][z] = <<>> /\ net'[z][y] = <<>>
  <2>1. ~ Linked(x, y)
    BY <1>4 DEF Linked
  <2>2. net'[y][z] = <<>>
    BY <1>2, <1>3, <1>4 DEF NetEffect
  <2>3. CASE z = x
    BY <1>2, <1>3, <1>4, <2>1, <2>2, <2>3 DEF NetEffect
  <2>4. CASE z # x
    BY <1>2, <1>3, <1>4, <2>2, <2>4 DEF NetEffect
  <2> QED
    BY <2>3, <2>4
<1>7. \A a \in Agent : \A i \in DOMAIN queue'[a] : queue'[a][i].from # y
  BY <1>4 DEF Move, QueuesShrink
<1>8. ASSUME y \in Agent PROVE queue'[y] = <<>>
  <2>1. queue'[y] \in Seq(QueueEntry)
    BY <1>8 DEF IInv, TypeOK
  <2>2. DOMAIN <<>> = {}
    OBVIOUS
  <2>3. \A i \in DOMAIN queue'[y] : FALSE
    BY <1>4, <1>8, <2>2 DEF Move, QueuesShrink
  <2> QED
    BY <2>1, <2>3, EmptyDomain
<1>9. ASSUME NEW a \in up' \cap Agent PROVE info'[a].parent # y
  <2>1. CASE a # x
    BY <1>1, <1>4, <1>9, <2>1 DEF Move
  <2>2. CASE a = x
    BY <1>3, <1>4, <1>9, <2>2 DEF Move
  <2> QED
    BY <2>1, <2>2
<1>10. ASSUME NEW q \in up' \cap Process PROVE attach'[q] # y
  <2>1. CASE q # x
    BY <1>1, <1>4, <1>10, <2>1 DEF Move
  <2>2. CASE q = x
    BY <1>3, <1>4, <1>10, <2>2 DEF Move
  <2> QED
    BY <2>1, <2>2
<1> QED
  BY <1>5, <1>6, <1>7, <1>8, <1>9, <1>10

(* Locations go on registering their own components only, and nothing ends *)
(* between processes that run.                                             *)
LEMMA MoveOwn ==
  ASSUME IInv, Links, NEW x, NEW sent, NEW closed, NEW p, Move(x, sent, closed, p)
  PROVE  Own' /\ Open'
<1>1. /\ x \in Location /\ x \notin gone /\ Sends(x, sent) /\ closed \cap up = {}
      /\ up' = up \cup {x}
  BY DEF Move
<1>2. /\ \A l, k \in Location : \A m : Written(l, k, m)' =>
           \/ Written(l, k, m)
           \/ l = x /\ \E i \in DOMAIN sent[k] : sent[k][i] = m
           \/ l = x /\ m = EOF /\ k \in closed /\ k # x
      /\ \A l, m : \A a \in Agent : Queued(l, a, m)' => Queued(l, a, m)
  BY MoveWritten
<1>3. \A id : Reg(id) # EOF /\ Dereg(id) # EOF
  BY MessagesDiffer
<1>4. ASSUME NEW l \in Location, NEW id \in Comp, LocationOf(id) # l,
             NEW k \in Location, NEW m \in {Reg(id), Dereg(id)}
      PROVE  ~ Written(l, k, m)'
  <2>1. ~ Written(l, k, m)
    BY <1>4 DEF Links, Own
  <2>2. \A i \in DOMAIN sent[k] : sent[k][i] = m => LocationOf(id) = x
    BY <1>1, <1>4 DEF Sends
  <2> QED
    BY <1>2, <1>3, <1>4, <2>1, <2>2
<1>5. ASSUME NEW l \in Location, NEW id \in Comp, LocationOf(id) # l,
             NEW a \in Agent, NEW m \in {Reg(id), Dereg(id)}
      PROVE  ~ Queued(l, a, m)'
  <2>1. ~ Queued(l, a, m)
    BY <1>5 DEF Links, Own
  <2> QED
    BY <1>2, <2>1
<1>6. Own'
  BY <1>4, <1>5 DEF Own
<1>7. ASSUME NEW y \in up', NEW z \in up', NEW m \in {EOF, Dereg(y)}
      PROVE  ~ Written(y, z, m)' /\ (z \in Agent => ~ Queued(y, z, m)')
  <2>1. y \in up \cup {x} /\ z \in up \cup {x} /\ y \in Location /\ z \in Location
    BY <1>1, OpenToStart
  <2>2. ~ Written(y, z, m) /\ (z \in Agent => ~ Queued(y, z, m))
    BY <1>1, <1>7, <2>1, OpenToStart
  <2>3. y = x => \A i \in DOMAIN sent[z] : sent[z][i] # m
    BY <1>1, <1>7, <2>1 DEF Sends
  <2>4. z \in closed => z = x
    BY <1>1, <2>1
  <2> QED
    BY <1>2, <2>1, <2>2, <2>3, <2>4
<1>8. Open'
  <2> SUFFICES ASSUME NEW y \in up', NEW z \in up'
               PROVE  /\ ~ Written(y, z, EOF)' /\ ~ Written(y, z, Dereg(y))'
                      /\ z \in Agent => ~ Queued(y, z, EOF)' /\ ~ Queued(y, z, Dereg(y))'
    BY DEF Open
  <2> QED
    BY <1>7
<1> QED
  BY <1>6, <1>8

(* Whoever belongs to an agent stays connected to it, and a new one is.    *)
LEMMA MoveJoined ==
  ASSUME IInv, IInv', Links, NEW x, NEW sent, NEW closed, NEW p, Move(x, sent, closed, p)
  PROVE  Joined'
<1>1. /\ x \in Location /\ x \notin gone /\ up' = up \cup {x} /\ up \subseteq Location
      /\ p = NoAgent \/ (p \in up \cap Agent /\ p # x)
  BY DEF Move, IInv, TypeOK
<1>2. /\ \A c, d \in up : Linked(c, d) => Linked(c, d)'
      /\ p # NoAgent => Linked(x, p)' /\ Linked(p, x)'
  BY MoveLinked
<1>3. NoAgent \notin Location
  BY Ids
<1>4. x \notin up => (\A a \in up \cap Agent : info[a].parent # x) /\ (\A q \in up \cap Process : attach[q] # x)
  BY <1>1 DEF Links, Fresh
<1>5. \A c, d : Linked(c, d)' <=> Linked(d, c)'
  BY DEF Linked
<1>6. ASSUME NEW c \in up' \cap Agent, NEW d \in up' \cap Agent, info'[c].parent = d
      PROVE  Linked(c, d)'
  <2>1. CASE c # x
    <3>1. c \in up /\ info[c].parent = d
      BY <1>1, <1>6, <2>1 DEF Move
    <3>2. d \in up
      BY <1>1, <1>4, <3>1
    <3>3. Belongs(d, c)
      BY <3>1, <3>2 DEF Belongs
    <3>4. Linked(c, d)
      BY <3>1, <3>2, <3>3 DEF Links, Joined
    <3> QED
      BY <1>2, <3>1, <3>2, <3>4
  <2>2. CASE c = x /\ info'[x].parent = p
    <3>1. d = p /\ p # NoAgent
      BY <1>3, <1>6, <2>2, Ids
    <3> QED
      BY <1>2, <2>2, <3>1
  <2>3. CASE c = x /\ p = NoAgent /\ x \in up /\ info'[x].parent = info[x].parent
    <3>1. c \in up /\ d \in up /\ info[c].parent = d
      BY <1>1, <1>6, <2>3
    <3>2. Belongs(d, c)
      BY <3>1 DEF Belongs
    <3>3. Linked(c, d)
      BY <3>1, <3>2 DEF Links, Joined
    <3> QED
      BY <1>2, <3>1, <3>3
  <2> QED
    BY <2>1, <2>2, <2>3 DEF Move
<1>7. ASSUME NEW q \in up' \cap Process, NEW a \in up' \cap Agent, attach'[q] = a
      PROVE  Linked(q, a)'
  <2>1. CASE q # x
    <3>1. q \in up /\ attach[q] = a
      BY <1>1, <1>7, <2>1 DEF Move
    <3>2. a \in up
      BY <1>1, <1>4, <3>1
    <3>3. Belongs(q, a)
      BY <3>1 DEF Belongs
    <3>4. Linked(a, q)
      BY <3>1, <3>2, <3>3 DEF Links, Joined
    <3> QED
      BY <1>2, <1>5, <3>1, <3>2, <3>4
  <2>2. CASE q = x /\ p # NoAgent /\ attach'[x] = p
    BY <1>2, <1>7, <2>2
  <2>3. CASE q = x /\ p = NoAgent /\ x \in up /\ attach'[x] = attach[x]
    <3>1. q \in up /\ a \in up /\ attach[q] = a
      BY <1>1, <1>7, <2>3
    <3>2. Belongs(q, a)
      BY <3>1 DEF Belongs
    <3>3. Linked(a, q)
      BY <3>1, <3>2 DEF Links, Joined
    <3> QED
      BY <1>2, <1>5, <3>1, <3>3
  <2> QED
    BY <2>1, <2>2, <2>3 DEF Move
<1> SUFFICES ASSUME NEW a \in up' \cap Agent, NEW l \in up', Belongs(l, a)'
             PROVE  Linked(a, l)'
  BY DEF Joined
<1>8. CASE l \in up' \cap Agent /\ (info'[a].parent = l \/ info'[l].parent = a)
  BY <1>5, <1>6, <1>8
<1>9. CASE l \in up' \cap Process /\ attach'[l] = a
  BY <1>5, <1>7, <1>9
<1>10. CASE l \in handles'
  <2>1. l \in Location
    BY <1>1
  <2>2. l \in Client
    BY <1>10 DEF IInv, TypeOK
  <2> QED
    BY <2>1, <2>2, IdsAreDistinct DEF Location
<1> QED
  BY <1>8, <1>9, <1>10 DEF Belongs

(* An agent hears only from the processes attached to it.                  *)
LEMMA MoveOnlyAttached ==
  ASSUME IInv, Links, NEW x, NEW sent, NEW closed, NEW p, Move(x, sent, closed, p)
  PROVE  OnlyAttached'
<1>1. /\ TypeOK /\ x \in Location /\ sent \in [Location -> Seq(Message)]
      /\ NetStep(x, sent, closed, p) /\ x \notin gone
      /\ up' = up \cup {x} /\ up \subseteq Location
      /\ closed \cap up = {}
  BY DEF IInv, TypeOK, Move, Sends
<1>2. NetEffect(x, sent, closed, p)
  BY <1>1, NetFacts
<1>3. x \notin up => \A y \in Location : net[x][y] = <<>> /\ net[y][x] = <<>>
  BY <1>1 DEF Links, Fresh
<1> SUFFICES ASSUME NEW q \in up' \cap Process, NEW a \in up' \cap Agent, attach'[q] # a
             PROVE  net'[q][a] = <<>>
  BY DEF OnlyAttached
<1>4. q \in Location /\ a \in Location /\ q # a
  BY IdsAreDistinct DEF Location
<1>5. CASE q # x
  <2>1. q \in up /\ attach'[q] = attach[q]
    BY <1>1, <1>5 DEF Move
  <2>2. net[q][a] = <<>>
    <3>1. CASE a \in up
      BY <2>1, <3>1 DEF Links, OnlyAttached
    <3>2. CASE a \notin up
      BY <1>1, <1>3, <1>4, <3>2
    <3> QED
      BY <3>1, <3>2
  <2>3. net'[q][a] = net[q][a] \/ net'[q][a] = <<>>
    BY <1>2, <1>4, <1>5 DEF NetEffect
  <2> QED
    BY <2>2, <2>3
<1>6. CASE q = x
  <2>1. a \in up /\ sent[a] = <<>> /\ a \notin closed
    BY <1>1, <1>4, <1>6 DEF Move
  <2>2. net[x][a] = <<>>
    <3>1. CASE x \notin up
      BY <1>3, <1>4, <3>1
    <3>2. CASE x \in up
      <4>1. attach[x] # a
        BY <1>6, <2>1, <3>2 DEF Move
      <4> QED
        BY <1>6, <2>1, <3>2, <4>1 DEF Links, OnlyAttached
    <3> QED
      BY <3>1, <3>2
  <2>3. net'[x][a] = net[x][a] \o sent[a] \/ net'[x][a] = net[x][a] \/ net'[x][a] = sent[a]
    BY <1>2, <1>4, <2>1 DEF NetEffect
  <2>4. <<>> \o <<>> = <<>>
    OBVIOUS
  <2> QED
    BY <1>6, <2>1, <2>2, <2>3, <2>4
<1> QED
  BY <1>5, <1>6

(* All that is known of the connections holds again.                       *)
LEMMA MoveLinks ==
  ASSUME IInv, IInv', Links, NEW x, NEW sent, NEW closed, NEW p, Move(x, sent, closed, p)
  PROVE  Links'
<1>1. up' \cap gone' = {}
  BY DEF Move, Links
<1>2. NoSelf'
  BY MoveLinked DEF NoSelf
<1>3. Fresh'
  BY MoveFresh
<1>4. Own' /\ Open'
  BY MoveOwn
<1>5. Joined'
  BY MoveJoined
<1>6. OnlyAttached'
  BY MoveOnlyAttached
<1> QED
  BY <1>1, <1>2, <1>3, <1>4, <1>5, <1>6 DEF Links

-----------------------------------------------------------------------------
(* Who will be a peer after the step.                                      *)

(* The step is taken in a state of the invariant, in which no write        *)
(* failed.                                                                 *)
Standing == IInv /\ IInv' /\ Links /\ Accounted /\ LastWords

(* Who belongs to an agent runs.                                           *)
LEMMA BelongsRuns ==
  ASSUME IInv, NEW id \in Comp, NEW a \in Agent, Belongs(id, a)
  PROVE  LocationOf(id) \in up
<1>1. CASE id \in up \cap (Agent \cup Process)
  BY <1>1, IdsAreDistinct DEF LocationOf
<1>2. CASE id \in handles
  BY <1>2 DEF IInv, TypeOK, Attached, LocationOf
<1> QED
  BY <1>1, <1>2 DEF Belongs

(* Between two others nothing changes.                                     *)
LEMMA MoveElsewhere ==
  ASSUME Standing, NEW x, NEW sent, NEW closed, NEW p, Move(x, sent, closed, p),
         NEW b \in up' \cap Agent, b # x
  PROVE  /\ b \in up
         /\ \A l \in Location \ {x} : net'[l][b] = net[l][b]
         /\ info'[b] = info[b] /\ queue'[b] = queue[b]
         /\ \A id \in Comp : LocationOf(id) # x =>
              /\ \A ends : ExpectedAt(id, b, ends)' <=> ExpectedAt(id, b, ends)
              /\ Belongs(id, b)' <=> Belongs(id, b)
<1>1. /\ TypeOK /\ x \in Location /\ sent \in [Location -> Seq(Message)]
      /\ NetStep(x, sent, closed, p) /\ up' = up \cup {x}
      /\ info'[b] = info[b] /\ queue'[b] = queue[b]
  BY DEF Standing, IInv, TypeOK, Move, Sends
<1>2. b \in up /\ b \in Location
  BY <1>1, Ids
<1>3. NetEffect(x, sent, closed, p)
  BY <1>1, NetFacts
<1>4. \A l \in Location \ {x} : net'[l][b] = net[l][b]
  BY <1>2, <1>3 DEF NetEffect
<1>5. ASSUME NEW id \in Comp, LocationOf(id) # x
      PROVE  /\ \A ends : ExpectedAt(id, b, ends)' <=> ExpectedAt(id, b, ends)
             /\ Belongs(id, b)' <=> Belongs(id, b)
  <2>1. LocationOf(id) \in Location \ {x}
    BY <1>5, Ids
  <2>2. net'[LocationOf(id)][b] = net[LocationOf(id)][b]
    BY <1>4, <2>1
  <2>3. \A ends : ExpectedAt(id, b, ends)' <=> ExpectedAt(id, b, ends)
    BY <1>1, <2>2 DEF ExpectedAt
  <2>4. id \in Agent => (id \in up' <=> id \in up) /\ info'[id] = info[id]
    BY <1>1, <1>5, IdsAreDistinct DEF LocationOf, Move
  <2>5. id \in Process => (id \in up' <=> id \in up) /\ attach'[id] = attach[id]
    BY <1>1, <1>5, IdsAreDistinct DEF LocationOf, Move
  <2>6. id \in Client => (id \in handles' <=> id \in handles) /\ attach'[HostOf[id]] = attach[HostOf[id]]
    BY <1>5, HostOfType DEF LocationOf, Move
  <2>7. handles \subseteq Client /\ handles' \subseteq Client
    BY DEF Standing, IInv, TypeOK
  <2>8. Belongs(id, b)' <=> Belongs(id, b)
    BY <1>1, <2>4, <2>5, <2>6, <2>7 DEF Belongs
  <2> QED
    BY <2>3, <2>8
<1> QED
  BY <1>1, <1>2, <1>4, <1>5

(* The last words of a process that runs were not spoken yet; those of     *)
(* others are on their way as before, except at the agent that moves.      *)
LEMMA MoveLastWords ==
  ASSUME Standing, Links', NEW x, NEW sent, NEW closed, NEW p, Move(x, sent, closed, p),
         NEW b \in up' \cap Agent, NEW l \in Location, b # x \/ l \in up'
  PROVE  /\ \A i, j \in DOMAIN net'[l][b] :
              i < j /\ net'[l][b][i] = Dereg(l) => net'[l][b][j] = EOF
         /\ Queued(l, b, Dereg(l))' => \A j \in DOMAIN net'[l][b] : net'[l][b][j] = EOF
         /\ Written(l, b, Dereg(l))' \/ Queued(l, b, Dereg(l))' =>
              \A id \in CompsAt(l) : ~ ExpectedAt(id, b, {Dereg(id)})'
<1>1. CASE l \in up'
  <2>1. ~ Written(l, b, Dereg(l))' /\ ~ Queued(l, b, Dereg(l))'
    BY <1>1 DEF Links, Open
  <2> QED
    BY <2>1 DEF Written
<1>2. CASE l \notin up'
  <2>1. l # x /\ b # x
    BY <1>2 DEF Move
  <2>2. b \in up /\ net'[l][b] = net[l][b] /\ queue'[b] = queue[b]
    BY <2>1, MoveElsewhere
  <2>3. \A id \in CompsAt(l) : ExpectedAt(id, b, {Dereg(id)})' <=> ExpectedAt(id, b, {Dereg(id)})
    BY <2>1, MoveElsewhere DEF CompsAt
  <2>4. /\ \A i, j \in DOMAIN net[l][b] :
             i < j /\ net[l][b][i] = Dereg(l) => net[l][b][j] = EOF
        /\ Queued(l, b, Dereg(l)) => \A j \in DOMAIN net[l][b] : net[l][b][j] = EOF
        /\ Written(l, b, Dereg(l)) \/ Queued(l, b, Dereg(l)) =>
             \A id \in CompsAt(l) : ~ ExpectedAt(id, b, {Dereg(id)})
    BY <2>2 DEF Standing, LastWords
  <2> QED
    BY <2>2, <2>3, <2>4 DEF Written, Queued
<1> QED
  BY <1>1, <1>2

(* What a client process tells its agent makes its components what they    *)
(* are to be.                                                              *)
Tells(x, sent) ==
  \A b \in up \cap Agent : attach'[x] = b =>
    \A id \in CompsAt(x) :
      Turned(sent[b], {Reg(id)}, {Dereg(id), EOF}, Belongs(id, b)) <=> Belongs(id, b)'

(* Another agent hears nothing of it.                                      *)
LEMMA ProcessMoveOthers ==
  ASSUME Standing, NEW x \in Process, NEW sent, NEW closed, NEW p, Move(x, sent, closed, p),
         NEW b \in up \cap Agent, attach'[x] # b, NEW id \in CompsAt(x)
  PROVE  /\ net'[x][b] = net[x][b]
         /\ ~ Belongs(id, b) /\ ~ Belongs(id, b)'
<1>1. /\ TypeOK /\ x \in Location /\ sent \in [Location -> Seq(Message)]
      /\ NetStep(x, sent, closed, p) /\ up' = up \cup {x} /\ b \in Location
      /\ closed \cap up = {} /\ sent[b] = <<>> /\ net[x][b] \in Seq(Message)
  <2>1. x \in Location /\ b \in Location
    BY Ids
  <2>2. sent[b] = <<>> /\ closed \cap up = {} /\ up' = up \cup {x}
    BY <2>1 DEF Move
  <2>3. TypeOK /\ sent \in [Location -> Seq(Message)] /\ NetStep(x, sent, closed, p)
    BY DEF Standing, IInv, Move, Sends
  <2>4. net[x][b] \in Seq(Message)
    BY <2>1, <2>3 DEF TypeOK
  <2> QED
    BY <2>1, <2>2, <2>3, <2>4
<1>2. NetEffect(x, sent, closed, p)
  BY <1>1, NetFacts
<1>3. b # p
  <2>1. p # NoAgent => attach'[x] = p
    BY Ids DEF Move
  <2> QED
    BY <2>1, Ids
<1>4. net'[x][b] = net[x][b]
  <2>1. net[x][b] \o <<>> = net[x][b]
    BY <1>1
  <2> QED
    BY <1>1, <1>2, <1>3, <2>1 DEF NetEffect
<1>5. /\ id \in Comp /\ id \notin Agent /\ (id \in Client => HostOf[id] = x)
      /\ (id \in Process => id = x)
  BY IdsAreDistinct DEF CompsAt, LocationOf
<1>6. handles \subseteq Client /\ handles' \subseteq Client
  BY DEF Standing, IInv, TypeOK
<1>7. ~ Belongs(id, b)'
  BY <1>5, <1>6 DEF Belongs
<1>8. x \in up => attach[x] # b
  BY DEF Move
<1>9. x \notin up => \A c \in handles : HostOf[c] # x
  BY DEF Standing, IInv, Attached
<1>10. ~ Belongs(id, b)
  BY <1>5, <1>6, <1>8, <1>9 DEF Belongs
<1> QED
  BY <1>4, <1>7, <1>10

(* Its own agent receives what was sent, behind what was before.           *)
LEMMA ProcessMoveOwn ==
  ASSUME Standing, NEW x \in Process, NEW sent, NEW closed, NEW p, Move(x, sent, closed, p),
         NEW b \in up \cap Agent, attach'[x] = b
  PROVE  net'[x][b] = net[x][b] \o sent[b]
<1>1. /\ TypeOK /\ x \in Location /\ sent \in [Location -> Seq(Message)]
      /\ NetStep(x, sent, closed, p) /\ up' = up \cup {x} /\ b \in Location
      /\ closed \cap up = {} /\ sent[b] \in Seq(Message) /\ x \notin gone
      /\ p = NoAgent \/ (p \in up \cap Agent /\ p # x)
  BY Ids DEF Standing, IInv, TypeOK, Move, Sends
<1>2. NetEffect(x, sent, closed, p)
  BY <1>1, NetFacts
<1>3. CASE Linked(x, b)
  BY <1>1, <1>2, <1>3 DEF NetEffect
<1>4. CASE ~ Linked(x, b)
  <2>1. CASE p = NoAgent
    <3>1. x \in up /\ attach[x] = b
      BY <2>1, Ids DEF Move
    <3>2. Belongs(x, b)
      BY <3>1 DEF Belongs
    <3>3. Linked(b, x)
      BY <3>1, <3>2 DEF Standing, Links, Joined
    <3> QED
      BY <1>4, <3>3 DEF Linked
  <2>2. CASE p # NoAgent
    <3>1. b = p /\ (x \in up => attach[x] # b)
      BY <2>2, Ids DEF Move
    <3>2. net[x][b] = <<>>
      <4>1. CASE x \in up
        BY <3>1, <4>1 DEF Standing, Links, OnlyAttached
      <4>2. CASE x \notin up
        BY <1>1, <4>2 DEF Standing, Links, Fresh
      <4> QED
        BY <4>1, <4>2
    <3>3. net'[x][b] = sent[b]
      BY <1>1, <1>2, <1>4, <3>1 DEF NetEffect
    <3>4. <<>> \o sent[b] = sent[b]
      BY <1>1
    <3> QED
      BY <3>2, <3>3, <3>4
  <2> QED
    BY <2>1, <2>2
<1> QED
  BY <1>3, <1>4

(* The invariant is kept.                                                  *)
LEMMA ProcessMove ==
  ASSUME Standing, NEW x \in Process, NEW sent, NEW closed, NEW p, Move(x, sent, closed, p),
         Tells(x, sent)
  PROVE  Links' /\ Accounted' /\ LastWords'
<1>1. Links'
  BY MoveLinks DEF Standing
<1>2. x \notin Agent /\ x \in Location
  BY IdsAreDistinct, Ids
<1>3. LastWords'
  <2> SUFFICES ASSUME NEW b \in up' \cap Agent, NEW l \in Location
               PROVE  /\ \A i, j \in DOMAIN net'[l][b] :
                            i < j /\ net'[l][b][i] = Dereg(l) => net'[l][b][j] = EOF
                      /\ Queued(l, b, Dereg(l))' => \A j \in DOMAIN net'[l][b] : net'[l][b][j] = EOF
                      /\ Written(l, b, Dereg(l))' \/ Queued(l, b, Dereg(l))' =>
                           \A id \in CompsAt(l) : ~ ExpectedAt(id, b, {Dereg(id)})'
    BY DEF LastWords
  <2>1. b # x
    BY <1>2
  <2> QED
    BY <1>1, <2>1, MoveLastWords
<1>4. Accounted'
  <2> SUFFICES ASSUME NEW b \in up' \cap Agent, NEW id \in Comp
               PROVE  ExpectedAt(id, b, {Dereg(id), EOF})' <=> Belongs(id, b)'
    BY DEF Accounted
  <2>1. b # x
    BY <1>2
  <2>2. b \in up \cap Agent /\ info'[b] = info[b] /\ queue'[b] = queue[b]
    BY <2>1, MoveElsewhere
  <2>3. ExpectedAt(id, b, {Dereg(id), EOF}) <=> Belongs(id, b)
    BY <2>2 DEF Standing, Accounted
  <2>4. CASE LocationOf(id) # x
    BY <2>1, <2>3, <2>4, MoveElsewhere
  <2>5. CASE LocationOf(id) = x
    <3>1. id \in CompsAt(x)
      BY <2>5 DEF CompsAt
    <3>2. CASE attach'[x] # b
      <4>1. net'[x][b] = net[x][b] /\ ~ Belongs(id, b) /\ ~ Belongs(id, b)'
        BY <2>2, <3>1, <3>2, ProcessMoveOthers
      <4>2. ExpectedAt(id, b, {Dereg(id), EOF})' <=> ExpectedAt(id, b, {Dereg(id), EOF})
        BY <2>2, <2>5, <4>1 DEF ExpectedAt
      <4> QED
        BY <2>3, <4>1, <4>2
    <3>3. CASE attach'[x] = b
      <4> DEFINE n == net[x][b]
                 w == sent[b]
                 q == queue[b]
                 c == id \in info[b].peers
                 ends == {Dereg(id), EOF}
      <4>1. net'[x][b] = n \o w /\ n \in Seq(Message) /\ w \in Seq(Message)
        <5>1. n \in Seq(Message) /\ w \in Seq(Message)
          BY <1>2, <2>2, Ids DEF Standing, IInv, TypeOK, Move, Sends
        <5> QED
          BY <2>2, <3>3, <5>1, ProcessMoveOwn
      <4>2. ExpectedAt(id, b, ends)' <=> Expected(id, n \o w, q, c, ends)
        BY <2>2, <2>5, <4>1 DEF ExpectedAt
      <4>3. ExpectedAt(id, b, ends) <=> Expected(id, n, q, c, ends)
        BY <2>5 DEF ExpectedAt
      <4>4. Turned(w, {Reg(id)}, ends, Belongs(id, b)) <=> Belongs(id, b)'
        BY <2>2, <3>1, <3>3 DEF Tells
      <4> HIDE DEF n, w, q, c, ends
      <4>5. c \in BOOLEAN
        BY DEF c
      <4>6. Expected(id, n \o w, q, c, ends) <=> Turned(w, {Reg(id)}, ends, Expected(id, n, q, c, ends))
        BY <4>1, <4>5, ExpectedSend
      <4>7. Expected(id, n, q, c, ends) <=> Belongs(id, b)
        BY <2>3, <4>3 DEF ends
      <4>8. Turned(w, {Reg(id)}, ends, Expected(id, n, q, c, ends)) <=> Turned(w, {Reg(id)}, ends, Belongs(id, b))
        BY <4>7 DEF Turned
      <4>9. ExpectedAt(id, b, ends)' <=> Belongs(id, b)'
        BY <4>2, <4>4, <4>6, <4>8
      <4> QED
        BY <4>9 DEF ends
    <3> QED
      BY <3>2, <3>3
  <2> QED
    BY <2>4, <2>5
<1> QED
  BY <1>1, <1>3, <1>4

(* An agent registers with a new parent, if it lost the old one, and with  *)
(* nobody else.                                                            *)
AgentTells(x, sent, p) ==
  /\ \A k \in Location : \A i \in DOMAIN sent[k] :
       \A id \in Comp : sent[k][i] # Dereg(id) /\ (sent[k][i] = Reg(id) => k = p)
  /\ p # NoAgent => \E i \in DOMAIN sent[p] : sent[p][i] = Reg(x)
  /\ x \in up => info'[x].parent = info[x].parent \/ info[x].parent \notin up

(* The others account for it.                                              *)
LEMMA AgentMoveOthers ==
  ASSUME Standing, NEW x \in Agent, NEW sent, NEW closed, NEW p, Move(x, sent, closed, p),
         AgentTells(x, sent, p), NEW b \in up \cap Agent, b # x
  PROVE  ExpectedAt(x, b, {Dereg(x), EOF})' <=> Belongs(x, b)'
<1> DEFINE n == net[x][b]
           w == sent[b]
           q == queue[b]
           c == x \in info[b].peers
           ends == {Dereg(x), EOF}
<1>1. /\ TypeOK /\ x \in Location /\ x \in Comp /\ b \in Location /\ x \notin gone
      /\ sent \in [Location -> Seq(Message)]
      /\ NetStep(x, sent, closed, p) /\ up' = up \cup {x} /\ closed \cap up = {}
      /\ LocationOf(x) = x /\ b \in up' \cap Agent
  BY Ids DEF Standing, IInv, Move, Sends
<1>2. NetEffect(x, sent, closed, p)
  BY <1>1, NetFacts
<1>3. n \in Seq(Message) /\ w \in Seq(Message) /\ c \in BOOLEAN
  BY <1>1 DEF TypeOK
<1>4. \/ net'[x][b] = n \o w
      \/ b # p /\ net'[x][b] = n
      \/ b = p /\ net'[x][b] = w
  BY <1>1, <1>2 DEF NetEffect
<1>5. info'[b] = info[b] /\ queue'[b] = queue[b]
  BY <1>1, MoveElsewhere
<1>6. \A k : ExpectedAt(x, b, ends)' <=> Expected(x, net'[x][b], q, c, ends)
  BY <1>1, <1>5 DEF ExpectedAt
<1>7. ExpectedAt(x, b, ends) <=> Expected(x, n, q, c, ends)
  BY <1>1 DEF ExpectedAt
<1>8. ExpectedAt(x, b, ends) <=> Belongs(x, b)
  BY <1>1 DEF Standing, Accounted
<1>9. x \notin Process /\ x \notin Client /\ x \notin handles /\ x \notin handles' /\ NoAgent \notin Agent
  BY IdsAreDistinct DEF Standing, IInv, TypeOK
<1>10. \A i \in DOMAIN w : w[i] \notin ends /\ (w[i] = Reg(x) => b = p)
  BY <1>1 DEF AgentTells, Move, Sends
<1>11. CASE b = p
  <2>1. \E i \in DOMAIN w : w[i] = Reg(x)
    BY <1>9, <1>11 DEF AgentTells
  <2>2. \A d : Turned(w, {Reg(x)}, ends, d)
    BY <1>10, <2>1 DEF Turned
  <2>3. Expected(x, w, q, c, ends)
    BY <2>2 DEF Expected, Heard
  <2>4. Expected(x, n \o w, q, c, ends)
    <3> HIDE DEF n, w, q, c, ends
    <3>1. Expected(x, n \o w, q, c, ends) <=> Turned(w, {Reg(x)}, ends, Expected(x, n, q, c, ends))
      BY <1>3, ExpectedSend
    <3> QED
      BY <2>2, <3>1
  <2>5. info'[x].parent = b
    BY <1>9, <1>11 DEF Move
  <2>6. Belongs(x, b)'
    BY <1>1, <2>5 DEF Belongs
  <2> QED
    BY <1>4, <1>6, <1>11, <2>3, <2>4, <2>6
<1>12. CASE b # p
  <2>1. \A i \in DOMAIN w : w[i] # Reg(x) /\ w[i] \notin ends
    BY <1>10, <1>12
  <2>2. Expected(x, n \o w, q, c, ends) <=> Expected(x, n, q, c, ends)
    <3> HIDE DEF n, w, q, c, ends
    <3> QED
      BY <1>3, <2>1, ExpectedSendInert
  <2>3. ExpectedAt(x, b, ends)' <=> Belongs(x, b)
    BY <1>4, <1>6, <1>7, <1>8, <1>12, <2>2
  <2>4. info'[x].parent = b <=> x \in up /\ info[x].parent = b
    BY <1>9, <1>12 DEF Move, AgentTells
  <2>5. info'[b].parent = x <=> x \in up /\ info[b].parent = x
    BY <1>1, <1>5 DEF Standing, Links, Fresh
  <2>6. Belongs(x, b)' <=> Belongs(x, b)
    BY <1>1, <1>9, <2>4, <2>5 DEF Belongs
  <2> QED
    BY <2>3, <2>6
<1> QED
  BY <1>11, <1>12

(* Whether id is to be a peer of agent a, after the message at the head of *)
(* its queue.                                                              *)
Stays(id, a) ==
  \/ Head(queue[a]) = Entry(LocationOf(id), Reg(id))
  \/ /\ id \in info[a].peers
     /\ Head(queue[a]) \notin Entries(LocationOf(id), {Dereg(id), EOF})

(* A dispatcher takes the message at the head of its queue: the peers it   *)
(* is left with are those the message leaves, up to some that do not       *)
(* belong and went already, and the new parent.  It closes a connection    *)
(* only to whom the message deregisters.                                   *)
Settled(a, closed, p) ==
  /\ queue[a] # <<>> /\ queue'[a] = Tail(queue[a])
  /\ closed \subseteq Location
  /\ \A l \in closed : Head(queue[a]) = Entry(l, Dereg(l))
  /\ p # NoAgent => p \in info'[a].peers
  /\ \A id \in Comp \ {p} :
       /\ id \in info'[a].peers => Stays(id, a)
       /\ Belongs(id, a) /\ Stays(id, a) => id \in info'[a].peers

(* What comes from a location that is not closed stays; of what comes from *)
(* the others nothing is expected.                                         *)
LEMMA SettledNet ==
  ASSUME Standing, NEW a \in up \cap Agent, NEW sent, NEW closed, NEW p,
         Move(a, sent, closed, p), NEW l \in Location
  PROVE  /\ l \in closed => l # a /\ net'[l][a] = <<>>
         /\ l \notin closed => net'[l][a] = net[l][a]
<1>1. /\ TypeOK /\ a \in Location /\ sent \in [Location -> Seq(Message)]
      /\ NetStep(a, sent, closed, p) /\ closed \cap up = {}
      /\ a # p
  BY Ids DEF Standing, IInv, Move, Sends
<1>2. NetEffect(a, sent, closed, p)
  BY <1>1, NetFacts
<1>3. ~ Linked(a, a)
  BY <1>1 DEF Standing, Links, NoSelf, Linked
<1>4. CASE l = a
  BY <1>1, <1>2, <1>3, <1>4 DEF NetEffect
<1>5. CASE l # a
  BY <1>1, <1>2, <1>5 DEF NetEffect
<1> QED
  BY <1>4, <1>5

(* It accounts for everybody.                                              *)
LEMMA SettledAccounts ==
  ASSUME Standing, Links', NEW a \in up \cap Agent, NEW sent, NEW closed, NEW p,
         Move(a, sent, closed, p), AgentTells(a, sent, p), Settled(a, closed, p),
         UNCHANGED <<attach, handles>>, NEW id \in Comp
  PROVE  ExpectedAt(id, a, {Dereg(id), EOF})' <=> Belongs(id, a)'
<1> DEFINE l == LocationOf(id)
           n == net[l][a]
           q == queue[a]
           b == id \in info[a].peers
           c == id \in info'[a].peers
           ends == {Dereg(id), EOF}
           less == {Dereg(id)}
           stays == Head(q) = Entry(l, Reg(id)) \/ (b /\ Head(q) \notin Entries(l, ends))
<1>1. /\ l \in Location /\ a \in Location /\ up' = up /\ closed \cap up = {}
      /\ p = NoAgent \/ (p \in up \cap Agent /\ p # a)
      /\ q \in Seq(QueueEntry) /\ q # <<>> /\ queue'[a] = Tail(q)
      /\ b \in BOOLEAN /\ c \in BOOLEAN /\ stays \in BOOLEAN
  <2>1. l \in Location /\ a \in Location
    BY Ids
  <2>2. closed \cap up = {} /\ up' = up \cup {a} /\ (p = NoAgent \/ (p \in up \cap Agent /\ p # a))
    BY DEF Move
  <2>3. up' = up
    BY <2>2
  <2>4. q \in Seq(QueueEntry)
    BY DEF Standing, IInv, TypeOK
  <2>5. q # <<>> /\ queue'[a] = Tail(q)
    BY DEF Settled
  <2>6. b \in BOOLEAN /\ c \in BOOLEAN /\ stays \in BOOLEAN
    OBVIOUS
  <2> HIDE DEF l, q, b, c, stays
  <2> QED
    BY <2>1, <2>2, <2>3, <2>4, <2>5, <2>6
<1>2. ExpectedAt(id, a, ends)' <=> Expected(id, net'[l][a], Tail(q), c, ends)
  BY <1>1 DEF ExpectedAt
<1>3. ExpectedAt(id, a, ends) <=> Expected(id, n, q, b, ends)
  BY DEF ExpectedAt
<1>4. ExpectedAt(id, a, ends) <=> Belongs(id, a)
  BY DEF Standing, Accounted
<1>5. NoAgent \notin Agent /\ NoAgent \notin Location /\ NoAgent \notin Comp
  BY Ids
<1>6. CASE id = p
  <2>1. p \in Agent /\ p \in up /\ l = p /\ p # NoAgent
    BY <1>1, <1>5, <1>6, Ids
  <2>2. /\ ~ Written(p, a, EOF)' /\ ~ Written(p, a, Dereg(p))'
        /\ ~ Queued(p, a, EOF)' /\ ~ Queued(p, a, Dereg(p))'
    BY <1>1, <2>1 DEF Links, Open
  <2>3. \A k \in DOMAIN net'[l][a] : net'[l][a][k] \notin ends
    BY <1>6, <2>1, <2>2 DEF Written
  <2>4. \A k \in DOMAIN Tail(q) : Tail(q)[k] \notin Entries(l, ends)
    <3>1. \A k \in DOMAIN queue'[a] : queue'[a][k] # Entry(p, EOF) /\ queue'[a][k] # Entry(p, Dereg(p))
      BY <2>2 DEF Queued
    <3>2. Entries(l, ends) = {Entry(p, EOF), Entry(p, Dereg(p))}
      BY <1>6, <2>1 DEF Entries
    <3> QED
      BY <1>1, <3>1, <3>2
  <2>5. c
    BY <1>6, <2>1 DEF Settled
  <2>6. Expected(id, net'[l][a], Tail(q), TRUE, ends)
    <3> HIDE DEF ends, q
    <3> QED
      BY <2>3, <2>4, ExpectedStays
  <2>7. Expected(id, net'[l][a], Tail(q), c, ends)
    BY <2>5, <2>6 DEF Expected, Heard, Turned
  <2>8. info'[a].parent = p
    BY <2>1 DEF Move
  <2>9. Belongs(id, a)'
    BY <1>1, <1>6, <2>1, <2>8 DEF Belongs
  <2> QED
    BY <1>2, <2>7, <2>9
<1>7. CASE id # p
  <2>1. (c => stays) /\ (Belongs(id, a) /\ stays => c)
    BY <1>7 DEF Settled, Stays
  <2>2. Belongs(id, a)' <=> Belongs(id, a)
    <3>1. id \in up \cap Agent => (info'[a].parent = id <=> info[a].parent = id)
      BY <1>5, <1>7 DEF Move, AgentTells
    <3>2. id \in up \cap Agent => (info'[id].parent = a <=> info[id].parent = a)
      <4>1. CASE id # a
        BY <4>1 DEF Move
      <4>2. CASE id = a
        BY <3>1, <4>2
      <4> QED
        BY <4>1, <4>2
    <3> QED
      BY <1>1, <3>1, <3>2 DEF Belongs
  <2>3. Expected(id, n, Tail(q), stays, ends) <=> Expected(id, n, q, b, ends)
    <3>1. stays <=> \/ Head(q) = Entry(LocationOf(id), Reg(id))
                    \/ b /\ Head(q) \notin Entries(LocationOf(id), ends)
      OBVIOUS
    <3> HIDE DEF n, q, b, ends, stays
    <3> QED
      BY <1>1, <3>1, ExpectedTake
  <2>4. CASE l \notin closed
    <3>1. net'[l][a] = n
      BY <1>1, <2>4, SettledNet
    <3>2. CASE Belongs(id, a)
      <4>1. c <=> stays
        BY <2>1, <3>2
      <4>2. Expected(id, n, Tail(q), c, ends) <=> Expected(id, n, Tail(q), stays, ends)
        BY <4>1 DEF Expected, Heard, Turned
      <4> QED
        BY <1>2, <1>3, <1>4, <2>2, <2>3, <3>1, <4>2
    <3>3. CASE ~ Belongs(id, a)
      <4>1. ~ Expected(id, n, Tail(q), stays, ends)
        BY <1>3, <1>4, <2>3, <3>3
      <4>2. ~ Expected(id, n, Tail(q), c, ends)
        <5>1. ends \in SUBSET ends
          OBVIOUS
        <5> HIDE DEF n, q, c, ends, stays
        <5> QED
          BY <1>1, <2>1, <4>1, <5>1, ExpectedMonotone
      <4> QED
        BY <1>2, <2>2, <3>1, <3>3, <4>2
    <3> QED
      BY <3>2, <3>3
  <2>5. CASE l \in closed
    <3>1. net'[l][a] = <<>> /\ l \notin up
      BY <1>1, <2>5, SettledNet
    <3>2. ~ Belongs(id, a)
      BY <3>1, BelongsRuns DEF Standing
    <3>3. Queued(l, a, Dereg(l))
      <4>1. Head(q) = Entry(l, Dereg(l))
        BY <2>5 DEF Settled
      <4>2. 1 \in DOMAIN q /\ q[1] = Head(q)
        BY <1>1
      <4> QED
        BY <4>1, <4>2 DEF Queued
    <3>4. /\ \A j \in DOMAIN n : n[j] = EOF
          /\ ~ Expected(id, n, q, b, less)
      <4>1. id \in CompsAt(l)
        BY DEF CompsAt
      <4>2. ~ ExpectedAt(id, a, less) /\ \A j \in DOMAIN n : n[j] = EOF
        BY <1>1, <3>3, <4>1 DEF Standing, LastWords
      <4> QED
        BY <4>2 DEF ExpectedAt
    <3>5. ~ Expected(id, <<>>, q, b, less)
      <4>1. \A j \in DOMAIN n : n[j] # Reg(id) /\ n[j] \notin less
        BY <3>4, MessagesDiffer
      <4> HIDE DEF n, q, b, less
      <4> QED
        BY <1>1, <3>4, <4>1, ExpectedQueued
    <3>6. ~ Expected(id, <<>>, q, b, ends)
      <4>1. less \in SUBSET ends
        OBVIOUS
      <4> HIDE DEF n, q, b, less, ends
      <4> QED
        BY <1>1, <3>5, <4>1, ExpectedMonotone
    <3>7. ~ Expected(id, <<>>, Tail(q), stays, ends)
      <4>1. stays <=> \/ Head(q) = Entry(LocationOf(id), Reg(id))
                      \/ b /\ Head(q) \notin Entries(LocationOf(id), ends)
        OBVIOUS
      <4> HIDE DEF n, q, b, ends, stays
      <4> QED
        BY <1>1, <3>6, <4>1, ExpectedTake
    <3>8. ~ Expected(id, <<>>, Tail(q), c, ends)
      <4>1. ends \in SUBSET ends
        OBVIOUS
      <4> HIDE DEF n, q, c, ends, stays
      <4> QED
        BY <1>1, <2>1, <3>7, <4>1, ExpectedMonotone
    <3> QED
      BY <1>2, <2>2, <3>1, <3>2, <3>8
  <2> QED
    BY <2>4, <2>5
<1> QED
  BY <1>6, <1>7

(* Of whom nothing was expected before, nothing is after.                  *)
LEMMA SettledFewer ==
  ASSUME Standing, NEW a \in up \cap Agent, NEW closed, NEW p, Settled(a, closed, p),
         NEW id \in Comp, id # p, NEW n,
         ~ Expected(id, n, queue[a], id \in info[a].peers, {Dereg(id)})
  PROVE  ~ Expected(id, n, Tail(queue[a]), id \in info'[a].peers, {Dereg(id)})
<1> DEFINE l == LocationOf(id)
           q == queue[a]
           b == id \in info[a].peers
           c == id \in info'[a].peers
           less == {Dereg(id)}
           stays == Head(q) = Entry(l, Reg(id)) \/ (b /\ Head(q) \notin Entries(l, less))
<1>1. q \in Seq(QueueEntry)
  BY DEF Standing, IInv, TypeOK
<1>2. q # <<>>
  BY DEF Settled
<1>3. b \in BOOLEAN /\ c \in BOOLEAN /\ stays \in BOOLEAN
  OBVIOUS
<1>4. c => stays
  <2>1. c => Head(q) = Entry(l, Reg(id)) \/ (b /\ Head(q) \notin Entries(l, {Dereg(id), EOF}))
    BY DEF Settled, Stays
  <2>2. Entries(l, less) \subseteq Entries(l, {Dereg(id), EOF})
    BY DEF Entries
  <2> QED
    BY <2>1, <2>2
<1>5. ~ Expected(id, n, Tail(q), stays, less)
  <2>1. stays <=> \/ Head(q) = Entry(LocationOf(id), Reg(id))
                  \/ b /\ Head(q) \notin Entries(LocationOf(id), less)
    OBVIOUS
  <2>2. ~ Expected(id, n, q, b, less)
    OBVIOUS
  <2> HIDE DEF q, b, less, stays
  <2> QED
    BY <1>1, <1>2, <1>3, <2>1, <2>2, ExpectedTake
<1>6. less \in SUBSET less
  OBVIOUS
<1>7. ~ Expected(id, n, Tail(q), c, less)
  <2> HIDE DEF q, c, less, stays
  <2> QED
    BY <1>3, <1>4, <1>5, <1>6, ExpectedMonotone
<1> QED
  BY <1>7

(* The last words of a process that ended remain the last.                 *)
LEMMA SettledLastWords ==
  ASSUME Standing, NEW a \in up \cap Agent, NEW sent, NEW closed, NEW p,
         Move(a, sent, closed, p), Settled(a, closed, p), NEW l \in Location, l \notin up
  PROVE  /\ \A i, j \in DOMAIN net'[l][a] :
              i < j /\ net'[l][a][i] = Dereg(l) => net'[l][a][j] = EOF
         /\ Queued(l, a, Dereg(l))' => \A j \in DOMAIN net'[l][a] : net'[l][a][j] = EOF
         /\ Written(l, a, Dereg(l))' \/ Queued(l, a, Dereg(l))' =>
              \A id \in CompsAt(l) : ~ ExpectedAt(id, a, {Dereg(id)})'
<1>1. /\ l \in closed => net'[l][a] = <<>>
      /\ l \notin closed => net'[l][a] = net[l][a]
  BY SettledNet
<1>2. /\ \A i, j \in DOMAIN net[l][a] :
           i < j /\ net[l][a][i] = Dereg(l) => net[l][a][j] = EOF
      /\ Queued(l, a, Dereg(l)) => \A j \in DOMAIN net[l][a] : net[l][a][j] = EOF
      /\ Written(l, a, Dereg(l)) \/ Queued(l, a, Dereg(l)) =>
           \A id \in CompsAt(l) : ~ ExpectedAt(id, a, {Dereg(id)})
  BY DEF Standing, LastWords
<1>3. queue[a] \in Seq(QueueEntry) /\ queue[a] # <<>> /\ queue'[a] = Tail(queue[a])
  BY DEF Standing, IInv, TypeOK, Settled
<1>4. l # p /\ \A id \in CompsAt(l) : id \in Comp /\ LocationOf(id) = l /\ id # p
  <2>1. p \notin {l}
    BY Ids DEF Move
  <2>2. p \in Agent => LocationOf(p) = p
    BY Ids
  <2>3. p = NoAgent \/ p \in Agent
    BY DEF Move
  <2> QED
    BY <2>1, <2>2, <2>3, Ids DEF CompsAt
<1>5. ASSUME NEW id \in CompsAt(l), NEW n,
             ~ Expected(id, n, queue[a], id \in info[a].peers, {Dereg(id)})
      PROVE  ~ Expected(id, n, Tail(queue[a]), id \in info'[a].peers, {Dereg(id)})
  BY <1>4, <1>5, SettledFewer
<1>6. \A id \in CompsAt(l) :
        ExpectedAt(id, a, {Dereg(id)})' <=> Expected(id, net'[l][a], Tail(queue[a]), id \in info'[a].peers, {Dereg(id)})
  BY <1>3, <1>4 DEF ExpectedAt
<1>7. \A id \in CompsAt(l) :
        ExpectedAt(id, a, {Dereg(id)}) <=> Expected(id, net[l][a], queue[a], id \in info[a].peers, {Dereg(id)})
  BY <1>4 DEF ExpectedAt
<1>8. CASE l \in closed
  <2>1. net'[l][a] = <<>> /\ DOMAIN <<>> = {}
    BY <1>1, <1>8
  <2>2. Queued(l, a, Dereg(l))
    <3>1. Head(queue[a]) = Entry(l, Dereg(l))
      BY <1>8 DEF Settled
    <3>2. 1 \in DOMAIN queue[a] /\ queue[a][1] = Head(queue[a])
      BY <1>3
    <3> QED
      BY <3>1, <3>2 DEF Queued
  <2>3. ASSUME NEW id \in CompsAt(l) PROVE ~ ExpectedAt(id, a, {Dereg(id)})'
    <3>1. \A j \in DOMAIN net[l][a] : net[l][a][j] # Reg(id) /\ net[l][a][j] \notin {Dereg(id)}
      BY <1>2, <2>2, MessagesDiffer
    <3>2. ~ Expected(id, net[l][a], queue[a], id \in info[a].peers, {Dereg(id)})
      BY <1>2, <1>7, <2>2
    <3>3. (id \in info[a].peers) \in BOOLEAN
      OBVIOUS
    <3>4. ~ Expected(id, <<>>, queue[a], id \in info[a].peers, {Dereg(id)})
      BY <3>1, <3>2, <3>3, ExpectedQueued
    <3> QED
      BY <1>5, <1>6, <2>1, <3>4
  <2> QED
    BY <2>1, <2>3
<1>9. CASE l \notin closed
  <2>1. net'[l][a] = net[l][a]
    BY <1>1, <1>9
  <2>2. Queued(l, a, Dereg(l))' => Queued(l, a, Dereg(l))
    <3>1. QueuesShrink
      BY DEF Move
    <3> QED
      BY <3>1 DEF QueuesShrink, Queued
  <2>3. Written(l, a, Dereg(l))' => Written(l, a, Dereg(l))
    BY <2>1 DEF Written
  <2>4. ASSUME NEW id \in CompsAt(l), ~ ExpectedAt(id, a, {Dereg(id)})
        PROVE  ~ ExpectedAt(id, a, {Dereg(id)})'
    BY <1>5, <1>6, <1>7, <2>1, <2>4
  <2> QED
    BY <1>2, <2>1, <2>2, <2>3, <2>4
<1> QED
  BY <1>8, <1>9

(* The invariant is kept.                                                  *)
LEMMA AgentMove ==
  ASSUME Standing, NEW a \in up \cap Agent, NEW sent, NEW closed, NEW p,
         Move(a, sent, closed, p), AgentTells(a, sent, p), Settled(a, closed, p),
         UNCHANGED <<attach, handles>>
  PROVE  Links' /\ Accounted' /\ LastWords'
<1>1. Links'
  BY MoveLinks DEF Standing, Move
<1>2. up' = up /\ a \in Location
  BY Ids DEF Move
<1>3. Accounted'
  <2> SUFFICES ASSUME NEW b \in up' \cap Agent, NEW id \in Comp
               PROVE  ExpectedAt(id, b, {Dereg(id), EOF})' <=> Belongs(id, b)'
    BY DEF Accounted
  <2>1. CASE b = a
    BY <1>1, <2>1, SettledAccounts
  <2>2. CASE b # a /\ LocationOf(id) # a
    <3>1. ExpectedAt(id, b, {Dereg(id), EOF}) <=> Belongs(id, b)
      BY <1>2 DEF Standing, Accounted
    <3> QED
      BY <2>2, <3>1, MoveElsewhere
  <2>3. CASE b # a /\ LocationOf(id) = a
    <3>1. id = a
      BY <2>3, IdsAreDistinct, HostOfType DEF LocationOf
    <3> QED
      BY <1>2, <2>3, <3>1, AgentMoveOthers
  <2> QED
    BY <2>1, <2>2, <2>3
<1>4. LastWords'
  <2> SUFFICES ASSUME NEW b \in up' \cap Agent, NEW l \in Location
               PROVE  /\ \A i, j \in DOMAIN net'[l][b] :
                            i < j /\ net'[l][b][i] = Dereg(l) => net'[l][b][j] = EOF
                      /\ Queued(l, b, Dereg(l))' => \A j \in DOMAIN net'[l][b] : net'[l][b][j] = EOF
                      /\ Written(l, b, Dereg(l))' \/ Queued(l, b, Dereg(l))' =>
                           \A id \in CompsAt(l) : ~ ExpectedAt(id, b, {Dereg(id)})'
    BY DEF LastWords
  <2>1. CASE b # a \/ l \in up'
    BY <1>1, <2>1, MoveLastWords
  <2>2. CASE b = a /\ l \notin up'
    BY <1>2, <2>2, SettledLastWords
  <2> QED
    BY <2>1, <2>2
<1> QED
  BY <1>1, <1>3, <1>4

-----------------------------------------------------------------------------
(* The end of every handler.                                               *)

(* Every message of two batches is of one of them.                         *)
MadeOf(u, s, t) ==
  \A i \in DOMAIN u : (\E j \in DOMAIN s : u[i] = s[j]) \/ (\E j \in DOMAIN t : u[i] = t[j])

(* One batch behind another is made of the two.                            *)
LEMMA MessageMembers ==
  ASSUME NEW s \in Seq(Message), NEW t \in Seq(Message)
  PROVE  MadeOf(s \o t, s, t)
<1> DEFINE u == s \o t
<1> SUFFICES ASSUME NEW i \in DOMAIN u
             PROVE  (\E j \in DOMAIN s : u[i] = s[j]) \/ (\E j \in DOMAIN t : u[i] = t[j])
  BY DEF MadeOf
<1>1. CASE i <= Len(s)
  <2>1. i \in DOMAIN s /\ u[i] = s[i]
    BY <1>1
  <2> QED
    BY <2>1
<1>2. CASE i > Len(s)
  <2>1. i - Len(s) \in DOMAIN t /\ u[i] = t[i - Len(s)]
    BY <1>2
  <2> QED
    BY <2>1
<1> QED
  BY <1>1, <1>2

(* Messages that neither register nor end anything.                        *)
Inert(ms) == \A i \in DOMAIN ms : ms[i].type \notin {"CLIENT_REG", "CLIENT_DEREG", "EOF"}

(* They are no registration, deregistration or end.                        *)
LEMMA InertMessages ==
  ASSUME NEW ms, Inert(ms), NEW i \in DOMAIN ms
  PROVE  ms[i] # EOF /\ \A id : ms[i] # Reg(id) /\ ms[i] # Dereg(id)
<1>1. EOF.type = "EOF" /\ \A id : Reg(id).type = "CLIENT_REG" /\ Dereg(id).type = "CLIENT_DEREG"
  BY DEF EOF, Reg, Dereg
<1> QED
  BY <1>1 DEF Inert

(* The subscriptions, cancels and events sent in a batch are such          *)
(* messages,                                                               *)
LEMMA InertBatches ==
  /\ Inert(<<>>)
  /\ \A id, q : Inert(RegSubs(id, q)) /\ Inert(CancelSubs(id, q))
  /\ \A e, q : Inert(Notifies(e, q))
<1>1. DOMAIN <<>> = {}
  OBVIOUS
<1>2. \A id, q : Inert(RegSubs(id, q)) /\ Inert(CancelSubs(id, q))
  BY DEF Inert, RegSubs, RegSub, CancelSubs, CancelSub
<1>3. \A e, q : Inert(Notifies(e, q))
  BY DEF Inert, Notifies, Notify
<1> QED
  BY <1>1, <1>2, <1>3 DEF Inert

(* and so is one batch of them behind another.                             *)
LEMMA InertConcat ==
  ASSUME NEW s \in Seq(Message), NEW t \in Seq(Message), Inert(s), Inert(t)
  PROVE  Inert(s \o t)
<1> DEFINE u == s \o t
<1>1. u = s \o t
  OBVIOUS
<1> HIDE DEF u
<1>2. MadeOf(u, s, t)
  BY <1>1, MessageMembers
<1>3. Inert(u)
  BY <1>2 DEF Inert, MadeOf
<1> QED
  BY <1>1, <1>3

(* What is sent registers nobody,                                          *)
LEMMA InertTells ==
  ASSUME IInv, NEW a \in up \cap Agent, NEW out \in [Location -> Seq(Message)],
         \A k \in Location : Inert(out[k]), info'[a].parent = info[a].parent
  PROVE  Sends(a, out) /\ AgentTells(a, out, NoAgent)
<1>1. \A k \in Location : \A i \in DOMAIN out[k] :
        out[k][i] # EOF /\ \A id : out[k][i] # Reg(id) /\ out[k][i] # Dereg(id)
  BY InertMessages
<1> QED
  BY <1>1 DEF Sends, AgentTells

(* except with the new parent, which is greeted behind what is sent to it. *)
Greeting(a, p, out, subscriptions) ==
  [l \in Location |-> IF l = p THEN out[l] \o (<<Reg(a)>> \o subscriptions) ELSE out[l]]

(* It registers there, and only there.                                     *)
Greets(a, p, sent) ==
  /\ Sends(a, sent)
  /\ \A k \in Location : \A i \in DOMAIN sent[k] :
       \A id \in Comp : sent[k][i] # Dereg(id) /\ (sent[k][i] = Reg(id) => k = p)
  /\ \E i \in DOMAIN sent[p] : sent[p][i] = Reg(a)

(* Greeting the new parent does that.                                      *)
LEMMA GreetingTells ==
  ASSUME NEW a \in Agent, NEW p \in Agent, NEW out \in [Location -> Seq(Message)],
         \A k \in Location : Inert(out[k]), NEW subscriptions \in Seq(Message), Inert(subscriptions)
  PROVE  Greets(a, p, Greeting(a, p, out, subscriptions))
<1> DEFINE sent == Greeting(a, p, out, subscriptions)
<1> DEFINE r == <<Reg(a)>>
           g == r \o subscriptions
<1>1. /\ r \in Seq(Message) /\ g \in Seq(Message) /\ Len(r) = 1 /\ r[1] = Reg(a) /\ DOMAIN r = {1}
      /\ a \in Comp /\ LocationOf(a) = a /\ p \in Location
  <2>1. Reg(a) \in Message /\ a \in Comp /\ LocationOf(a) = a /\ p \in Location
    BY Ids, MessageTypes
  <2> QED
    BY <2>1
<1>2. \A i \in DOMAIN g : g[i] = Reg(a) \/ g[i].type \notin {"CLIENT_REG", "CLIENT_DEREG", "EOF"}
  <2>1. MadeOf(g, r, subscriptions)
    <3>1. g = r \o subscriptions
      OBVIOUS
    <3> HIDE DEF r, g
    <3> QED
      BY <1>1, <3>1, MessageMembers
  <2> HIDE DEF g
  <2> QED
    BY <1>1, <2>1 DEF Inert, MadeOf
<1>3. 1 \in DOMAIN g /\ g[1] = Reg(a)
  BY <1>1
<1> HIDE DEF r, g
<1>4. sent = [l \in Location |-> IF l = p THEN out[l] \o g ELSE out[l]]
  BY DEF g, r, Greeting
<1> HIDE DEF sent
<1>5. sent \in [Location -> Seq(Message)]
  <2>1. \A l \in Location : out[l] \in Seq(Message) /\ out[l] \o g \in Seq(Message)
    BY <1>1
  <2> QED
    BY <1>4, <2>1
<1>6. \A k \in Location : \A i \in DOMAIN sent[k] :
        \/ sent[k][i] = Reg(a) /\ k = p
        \/ sent[k][i].type \notin {"CLIENT_REG", "CLIENT_DEREG", "EOF"}
  <2> SUFFICES ASSUME NEW k \in Location, NEW i \in DOMAIN sent[k]
               PROVE  \/ sent[k][i] = Reg(a) /\ k = p
                      \/ sent[k][i].type \notin {"CLIENT_REG", "CLIENT_DEREG", "EOF"}
    OBVIOUS
  <2>1. CASE k # p
    <3>1. sent[k] = out[k]
      BY <1>4, <2>1
    <3> QED
      BY <3>1 DEF Inert
  <2>2. CASE k = p
    <3> DEFINE o == out[p]
    <3>1. sent[p] = o \o g /\ o \in Seq(Message)
      BY <1>1, <1>4
    <3>2. Inert(o)
      BY <1>1
    <3> HIDE DEF o
    <3>3. MadeOf(sent[p], o, g)
      BY <1>1, <3>1, MessageMembers
    <3> QED
      BY <1>2, <2>2, <3>2, <3>3 DEF Inert, MadeOf
  <2> QED
    BY <2>1, <2>2
<1>7. EOF.type = "EOF" /\ \A id : Reg(id).type = "CLIENT_REG" /\ Dereg(id).type = "CLIENT_DEREG" /\ Reg(id).src = id
  BY DEF EOF, Reg, Dereg
<1>8. ASSUME NEW k \in Location, NEW i \in DOMAIN sent[k]
      PROVE  /\ sent[k][i] # EOF
             /\ \A id : sent[k][i] # Dereg(id) /\ (sent[k][i] = Reg(id) => k = p /\ id = a)
  <2>1. CASE sent[k][i] = Reg(a) /\ k = p
    BY <2>1, MessagesDiffer
  <2>2. CASE sent[k][i].type \notin {"CLIENT_REG", "CLIENT_DEREG", "EOF"}
    BY <1>7, <2>2
  <2> QED
    BY <1>6, <2>1, <2>2
<1>9. Sends(a, sent)
  BY <1>1, <1>5, <1>8 DEF Sends
<1>10. \E i \in DOMAIN sent[p] : sent[p][i] = Reg(a)
  <2> DEFINE o == out[p]
  <2>1. sent[p] = o \o g /\ o \in Seq(Message)
    BY <1>1, <1>4
  <2> HIDE DEF o
  <2>2. Len(o) + 1 \in DOMAIN (o \o g) /\ (o \o g)[Len(o) + 1] = g[1]
    BY <1>1, <1>3, <2>1
  <2> QED
    BY <1>3, <2>1, <2>2
<1>11. Greets(a, p, sent)
  BY <1>8, <1>9, <1>10 DEF Greets
<1> QED
  BY <1>11 DEF sent

(* What a handler has done when it ends.                                   *)
Leaves(a, J, out, closed, lostParent) ==
  /\ queue[a] # <<>> /\ J \in Info
  /\ out \in [Location -> Seq(Message)] /\ \A k \in Location : Inert(out[k])
  /\ closed \subseteq Location /\ closed \cap up = {}
  /\ \A l \in closed : Head(queue[a]) = Entry(l, Dereg(l))
  /\ lostParent \in BOOLEAN
  /\ J.parent = info[a].parent \/ lostParent
  /\ lostParent => info[a].parent \notin up
  /\ \A id \in Comp :
       /\ id \in J.peers => Stays(id, a)
       /\ Belongs(id, a) /\ Stays(id, a) => id \in J.peers

(* The parent stays, or another agent becomes it and is greeted, or the    *)
(* agent becomes the root.                                                 *)
Ended(a, J, out, lostParent, p, sent) ==
  \/ /\ ~ lostParent /\ p = NoAgent
     /\ sent = out /\ info'[a] = J
  \/ /\ lostParent /\ p = NoAgent
     /\ sent = out /\ info'[a] = [J EXCEPT !.parent = NoAgent]
  \/ /\ lostParent /\ p \in Offers(a) \cap Agent
     /\ \E q \in SetToSeqs(CaughtMasks(J)) :
          sent = Greeting(a, p, out, IF p \in J.peers THEN <<>> ELSE RegSubs(a, q))
     /\ info'[a] = AddParent(J, p)

(* This is how every handler ends, while no write reports an error.        *)
LEMMA FinishMoves ==
  ASSUME Standing, NEW a \in up \cap Agent, NEW J, NEW out, NEW closed,
         NEW errors \in SUBSET conn[a], NEW lostParent,
         writeErrors = 0, writeErrors' = 0,
         Finish(a, J, out, closed, errors, lostParent), Leaves(a, J, out, closed, lostParent)
  PROVE  \E p, sent : /\ Move(a, sent, closed, p) /\ AgentTells(a, sent, p)
                      /\ Settled(a, closed, p) /\ Ended(a, J, out, lostParent, p, sent)
<1>1. /\ errors = {}
      /\ IF lostParent
         THEN Join(a, J, out, closed)
         ELSE info' = [info EXCEPT ![a] = J] /\ NetStep(a, out, closed, NoAgent)
  <2>1. PICK failed \in SUBSET (Broken(a, out) \ closed) :
          /\ writeErrors' = writeErrors + Cardinality(errors \cup failed)
          /\ IF lostParent
             THEN Join(a, J, out, closed \cup errors \cup failed)
             ELSE /\ info' = [info EXCEPT ![a] = J]
                  /\ NetStep(a, out, closed \cup errors \cup failed, NoAgent)
    BY DEF Finish
  <2>2. conn[a] \in SUBSET Location
    BY Ids DEF Standing, IInv, TypeOK
  <2>3. IsFiniteSet(errors \cup failed)
    <3>1. errors \cup failed \in SUBSET Location
      BY <2>2 DEF Broken
    <3> QED
      BY <3>1, FiniteSubsets
  <2>4. errors \cup failed = {}
    <3>1. Cardinality(errors \cup failed) \in Nat
      BY <2>3, FS_CardinalityType
    <3>2. Cardinality(errors \cup failed) = 0
      BY <2>1, <3>1
    <3> QED
      BY <2>3, <3>2, FS_EmptySet
  <2>5. errors = {} /\ closed \cup errors \cup failed = closed
    BY <2>4
  <2> QED
    BY <2>1, <2>5
<1>2. /\ queue' = [queue EXCEPT ![a] = Tail(@)]
      /\ up' = up /\ gone' = gone /\ attach' = attach /\ handles' = handles
  BY DEF Finish, app
<1>3. /\ info \in [Agent -> Info] /\ queue \in [Agent -> Seq(QueueEntry)]
      /\ a \in Location /\ a \notin gone /\ a \notin Process
  BY Ids, IdsAreDistinct DEF Standing, IInv, TypeOK, Links
<1>4. QueuesShrink /\ queue'[a] = Tail(queue[a]) /\ \A b \in Agent \ {a} : queue'[b] = queue[b]
  <2>1. \A b \in Agent : queue'[b] = IF b = a THEN Tail(queue[a]) ELSE queue[b]
    BY <1>2, <1>3
  <2>2. queue[a] \in Seq(QueueEntry) /\ queue[a] # <<>>
    BY <1>3 DEF Leaves
  <2>3. \A i \in DOMAIN Tail(queue[a]) : i + 1 \in DOMAIN queue[a] /\ Tail(queue[a])[i] = queue[a][i + 1]
    BY <2>2
  <2> QED
    BY <2>1, <2>3 DEF QueuesShrink
<1>5. /\ out \in [Location -> Seq(Message)] /\ (\A k \in Location : Inert(out[k]))
      /\ J \in Info /\ closed \cap up = {}
  BY DEF Leaves
<1>6. CASE ~ lostParent
  <2>1. info' = [info EXCEPT ![a] = J] /\ NetStep(a, out, closed, NoAgent)
    BY <1>1, <1>6
  <2>2. info'[a] = J /\ \A b \in Agent \ {a} : info'[b] = info[b]
    BY <1>3, <2>1
  <2>3. info'[a].parent = info[a].parent
    BY <1>6, <2>2 DEF Leaves
  <2>4. Sends(a, out) /\ AgentTells(a, out, NoAgent)
    BY <1>5, <2>3, InertTells DEF Standing
  <2>5. Move(a, out, closed, NoAgent)
    BY <1>2, <1>3, <1>4, <1>5, <2>1, <2>2, <2>3, <2>4 DEF Move
  <2>6. Settled(a, closed, NoAgent)
    BY <1>4, <2>2, Zenon DEF Leaves, Settled
  <2>7. Ended(a, J, out, lostParent, NoAgent, out)
    BY <1>6, <2>1, <2>2 DEF Ended
  <2> QED
    BY <2>4, <2>5, <2>6, <2>7
<1>7. CASE lostParent
  <2>1. PICK p \in Offers(a), q \in SetToSeqs(CaughtMasks(J)) :
          LET greeting == IF p \in J.peers THEN <<Reg(a)>> ELSE <<Reg(a)>> \o RegSubs(a, q)
          IN /\ info' = [info EXCEPT ![a] = IF p = NoAgent
                                            THEN [J EXCEPT !.parent = NoAgent]
                                            ELSE AddParent(J, p)]
             /\ NetStep(a, [l \in Location |-> IF l = p THEN out[l] \o greeting ELSE out[l]],
                        closed, p)
    BY <1>1, <1>7 DEF Join
  <2>2. p = NoAgent \/ (p \in up \cap Agent /\ p # a)
    BY DEF Offers
  <2>3. CASE p = NoAgent
    <3>1. /\ info'[a] = [J EXCEPT !.parent = NoAgent]
          /\ \A b \in Agent \ {a} : info'[b] = info[b]
      BY <1>3, <2>1, <2>3
    <3>2. info'[a].parent = NoAgent /\ info'[a].peers = J.peers
      BY <1>5, <3>1 DEF Info
    <3>3. NetStep(a, out, closed, NoAgent)
      <4> DEFINE greeting == IF p \in J.peers THEN <<Reg(a)>> ELSE <<Reg(a)>> \o RegSubs(a, q)
      <4>1. NetStep(a, [l \in Location |-> IF l = p THEN out[l] \o greeting ELSE out[l]], closed, p)
        BY <2>1
      <4> HIDE DEF greeting
      <4>2. \A l \in Location : l # p
        BY <2>3, Ids
      <4>3. [l \in Location |-> IF l = p THEN out[l] \o greeting ELSE out[l]] = out
        BY <1>5, <4>2
      <4> QED
        BY <2>3, <4>1, <4>3
    <3>4. Sends(a, out) /\ AgentTells(a, out, NoAgent)
      <4>1. \A k \in Location : \A i \in DOMAIN out[k] :
              out[k][i] # EOF /\ \A id : out[k][i] # Reg(id) /\ out[k][i] # Dereg(id)
        BY <1>5, InertMessages
      <4> QED
        BY <1>5, <1>7, <4>1 DEF Sends, AgentTells, Leaves
    <3>5. Move(a, out, closed, NoAgent)
      BY <1>2, <1>3, <1>4, <1>5, <3>1, <3>2, <3>3, <3>4 DEF Move
    <3>6. Settled(a, closed, NoAgent)
      BY <1>4, <3>2, Zenon DEF Leaves, Settled
    <3>7. Ended(a, J, out, lostParent, NoAgent, out)
      BY <1>7, <3>1 DEF Ended
    <3> QED
      BY <3>4, <3>5, <3>6, <3>7
  <2>4. CASE p # NoAgent
    <3> DEFINE subscriptions == IF p \in J.peers THEN <<>> ELSE RegSubs(a, q)
               sent == Greeting(a, p, out, subscriptions)
    <3>1. /\ info'[a] = AddParent(J, p)
          /\ \A b \in Agent \ {a} : info'[b] = info[b]
      BY <1>3, <2>1, <2>4
    <3>2. info'[a].parent = p /\ info'[a].peers = J.peers \cup {p}
      BY <1>5, <3>1 DEF Info, AddParent, AddPeer
    <3>3. subscriptions \in Seq(Message) /\ Inert(subscriptions)
      <4>1. q \in Seq(Mask)
        BY MaskOrders DEF CaughtMasks
      <4>2. RegSubs(a, q) \in Seq(Message)
        BY <1>3, <4>1, Ids, SequenceTypes
      <4>3. <<>> \in Seq(Message)
        OBVIOUS
      <4> QED
        BY <4>2, <4>3, InertBatches
    <3>4. NetStep(a, sent, closed, p)
      <4> DEFINE greeting == IF p \in J.peers THEN <<Reg(a)>> ELSE <<Reg(a)>> \o RegSubs(a, q)
      <4>1. NetStep(a, [l \in Location |-> IF l = p THEN out[l] \o greeting ELSE out[l]], closed, p)
        BY <2>1
      <4>2. <<Reg(a)>> \o subscriptions = greeting
        <5>1. Reg(a) \in Message
          BY <1>3, Ids, MessageTypes
        <5>2. <<Reg(a)>> \o <<>> = <<Reg(a)>>
          BY <5>1
        <5> QED
          BY <5>2
      <4> HIDE DEF greeting, subscriptions
      <4> QED
        BY <4>1, <4>2 DEF Greeting
    <3>10. Ended(a, J, out, lostParent, p, sent)
      BY <1>7, <2>1, <2>2, <2>4, <3>1 DEF Ended
    <3> HIDE DEF subscriptions
    <3>5. Greets(a, p, sent)
      BY <1>5, <2>2, <2>4, <3>3, GreetingTells
    <3> HIDE DEF sent
    <3>6. /\ Sends(a, sent)
          /\ \A k \in Location : \A i \in DOMAIN sent[k] :
               \A id \in Comp : sent[k][i] # Dereg(id) /\ (sent[k][i] = Reg(id) => k = p)
          /\ \E i \in DOMAIN sent[p] : sent[p][i] = Reg(a)
      BY <3>5 DEF Greets
    <3>7. AgentTells(a, sent, p)
      BY <1>7, <3>6 DEF AgentTells, Leaves
    <3>8. Move(a, sent, closed, p)
      BY <1>2, <1>3, <1>4, <1>5, <2>2, <3>1, <3>2, <3>4, <3>6 DEF Move
    <3>9. Settled(a, closed, p)
      <4>1. \A id \in Comp \ {p} : id \in info'[a].peers <=> id \in J.peers
        BY <3>2
      <4> QED
        BY <1>4, <3>2, <4>1, Zenon DEF Leaves, Settled
    <3> QED
      BY <3>7, <3>8, <3>9, <3>10
  <2> QED
    BY <2>3, <2>4
<1> QED
  BY <1>6, <1>7

(* A handler keeps the invariant, while no write reports an error.         *)
LEMMA FinishPeers ==
  ASSUME Standing, NEW a \in up \cap Agent, NEW J, NEW out, NEW closed,
         NEW errors \in SUBSET conn[a], NEW lostParent,
         writeErrors = 0, writeErrors' = 0,
         Finish(a, J, out, closed, errors, lostParent), Leaves(a, J, out, closed, lostParent)
  PROVE  Links' /\ Accounted' /\ LastWords'
<1>1. PICK p, sent : /\ Move(a, sent, closed, p) /\ AgentTells(a, sent, p)
                     /\ Settled(a, closed, p)
  BY FinishMoves
<1>2. UNCHANGED <<attach, handles>>
  BY DEF Finish, app
<1> QED
  BY <1>1, <1>2, AgentMove

-----------------------------------------------------------------------------
(* What a handler does about the masks.                                    *)

(* Whether others than b are interested in mask m, as far as tables I know.*)
Asks(I, b, m) == \E c \in I.catchMap[m] : c # b

(* A handler cancels a mask only if nobody is left to catch it; a peer to  *)
(* whom the interest of others is new is told of it; whoever belongs to    *)
(* the agent goes on catching what it did, unless its message says         *)
(* otherwise, and catches what it registers.                               *)
Keeps(a, J, out) ==
  /\ \A k \in Location : \A i \in DOMAIN out[k] : \A id \in Comp, m \in Mask :
       out[k][i] = CancelSub(id, m) => id = a /\ J.catchMap[m] = {}
  /\ \A b \in up \cap Agent, m \in Mask : b \in J.peers /\ Asks(J, b, m) =>
       \/ b \in info[a].peers /\ Asks(info[a], b, m)
       \/ \E i \in DOMAIN out[b] : out[b][i] = RegSub(a, m)
  /\ \A id \in Comp, m \in Mask : Belongs(id, a) =>
       /\ /\ id \in info[a].catchMap[m]
          /\ Head(queue[a]).msg \notin {CancelSub(id, m), Dereg(id)}
          /\ Head(queue[a]) # Entry(LocationOf(id), EOF)
          => id \in J.catchMap[m]
       /\ Head(queue[a]).msg = RegSub(id, m) /\ id \in info[a].peers => id \in J.catchMap[m]

(* The messages about masks are known by their type and their members.     *)
LEMMA SubsDiffer ==
  \A i, m :
    /\ \A j, n : RegSub(i, m) = RegSub(j, n) <=> i = j /\ m = n
    /\ \A j, n : CancelSub(i, m) = CancelSub(j, n) <=> i = j /\ m = n
    /\ \A j, n : RegSub(i, m) # CancelSub(j, n)
    /\ \A j : RegSub(i, m) # Reg(j) /\ RegSub(i, m) # Dereg(j) /\ RegSub(i, m) # EOF
    /\ \A j : CancelSub(i, m) # Reg(j) /\ CancelSub(i, m) # Dereg(j) /\ CancelSub(i, m) # EOF
    /\ RegSub(i, m).type = "REG_SUBSCRIPTION" /\ CancelSub(i, m).type = "SUBSCRIPTION_CANCEL"
<1> SUFFICES ASSUME NEW i, NEW m
             PROVE
    /\ \A j, n : RegSub(i, m) = RegSub(j, n) <=> i = j /\ m = n
    /\ \A j, n : CancelSub(i, m) = CancelSub(j, n) <=> i = j /\ m = n
    /\ \A j, n : RegSub(i, m) # CancelSub(j, n)
    /\ \A j : RegSub(i, m) # Reg(j) /\ RegSub(i, m) # Dereg(j) /\ RegSub(i, m) # EOF
    /\ \A j : CancelSub(i, m) # Reg(j) /\ CancelSub(i, m) # Dereg(j) /\ CancelSub(i, m) # EOF
    /\ RegSub(i, m).type = "REG_SUBSCRIPTION" /\ CancelSub(i, m).type = "SUBSCRIPTION_CANCEL"
  OBVIOUS
<1>1. \A j, n : /\ RegSub(j, n).type = "REG_SUBSCRIPTION" /\ RegSub(j, n).src = j /\ RegSub(j, n).mask = n
                /\ CancelSub(j, n).type = "SUBSCRIPTION_CANCEL" /\ CancelSub(j, n).src = j /\ CancelSub(j, n).mask = n
  BY DEF RegSub, CancelSub
<1>2. \A j : Reg(j).type = "CLIENT_REG" /\ Dereg(j).type = "CLIENT_DEREG" /\ EOF.type = "EOF"
  BY DEF Reg, Dereg, EOF
<1>3. \A j, n : RegSub(i, m) = RegSub(j, n) <=> i = j /\ m = n
  BY <1>1
<1>4. \A j, n : CancelSub(i, m) = CancelSub(j, n) <=> i = j /\ m = n
  BY <1>1
<1>5. \A j, n : RegSub(i, m) # CancelSub(j, n)
  BY <1>1
<1>6. \A j : RegSub(i, m) # Reg(j) /\ RegSub(i, m) # Dereg(j) /\ RegSub(i, m) # EOF
  BY <1>1, <1>2
<1>7. \A j : CancelSub(i, m) # Reg(j) /\ CancelSub(i, m) # Dereg(j) /\ CancelSub(i, m) # EOF
  BY <1>1, <1>2
<1> QED
  BY <1>1, <1>3, <1>4, <1>5, <1>6, <1>7

(* A batch has one message for each mask enumerated, and no other.         *)
LEMMA BatchesOf ==
  ASSUME NEW S \in SUBSET Mask, NEW q \in SetToSeqs(S), NEW a
  PROVE  /\ \A i \in DOMAIN CancelSubs(a, q) : \A id, m :
              CancelSubs(a, q)[i] = CancelSub(id, m) => id = a /\ m \in S
         /\ \A i \in DOMAIN RegSubs(a, q) : \A id, m : RegSubs(a, q)[i] # CancelSub(id, m)
         /\ \A m \in S : \E i \in DOMAIN RegSubs(a, q) : RegSubs(a, q)[i] = RegSub(a, m)
<1>1. /\ \A i \in DOMAIN q : q[i] \in S
      /\ \A m \in S : \E i \in DOMAIN q : q[i] = m
  BY FiniteSubsets, Listed
<1>2. /\ DOMAIN CancelSubs(a, q) = DOMAIN q /\ \A i \in DOMAIN q : CancelSubs(a, q)[i] = CancelSub(a, q[i])
      /\ DOMAIN RegSubs(a, q) = DOMAIN q /\ \A i \in DOMAIN q : RegSubs(a, q)[i] = RegSub(a, q[i])
  BY DEF CancelSubs, RegSubs
<1> QED
  BY <1>1, <1>2, SubsDiffer

(* What is cast is the batch, or nothing.                                  *)
LEMMA CastMembers ==
  ASSUME NEW dsts, NEW ms, NEW k \in Location
  PROVE  /\ k \in dsts => Cast(dsts, ms)[k] = ms
         /\ k \notin dsts => Cast(dsts, ms)[k] = <<>> /\ DOMAIN Cast(dsts, ms)[k] = {}
         /\ Silence[k] = <<>> /\ DOMAIN Silence[k] = {}
<1>1. DOMAIN <<>> = {}
  OBVIOUS
<1> QED
  BY <1>1 DEF Cast, Silence

(* A batch of cancels that is cast cancels its masks, for its sender,      *)
LEMMA CancelsCast ==
  ASSUME NEW S \in SUBSET Mask, NEW q \in SetToSeqs(S), NEW a
  PROVE  \A dsts, k : k \in Location =>
           \A i \in DOMAIN Cast(dsts, CancelSubs(a, q))[k] : \A id, m :
             Cast(dsts, CancelSubs(a, q))[k][i] = CancelSub(id, m) => id = a /\ m \in S
<1> DEFINE ms == CancelSubs(a, q)
<1>1. \A i \in DOMAIN ms : \A id, m : ms[i] = CancelSub(id, m) => id = a /\ m \in S
  BY BatchesOf
<1> HIDE DEF ms
<1>2. \A dsts, k : k \in Location =>
        \A i \in DOMAIN Cast(dsts, ms)[k] : \A id, m :
          Cast(dsts, ms)[k][i] = CancelSub(id, m) => id = a /\ m \in S
  BY <1>1, CastMembers
<1> QED
  BY <1>2 DEF ms

(* and one of subscriptions none.                                          *)
LEMMA RegSubsCast ==
  ASSUME NEW S \in SUBSET Mask, NEW q \in SetToSeqs(S), NEW a
  PROVE  \A dsts, k : k \in Location =>
           /\ \A i \in DOMAIN Cast(dsts, RegSubs(a, q))[k] : \A id, m :
                Cast(dsts, RegSubs(a, q))[k][i] # CancelSub(id, m)
           /\ k \in dsts => \A m \in S : \E i \in DOMAIN Cast(dsts, RegSubs(a, q))[k] :
                Cast(dsts, RegSubs(a, q))[k][i] = RegSub(a, m)
<1> DEFINE ms == RegSubs(a, q)
<1>1. \A i \in DOMAIN ms : \A id, m : ms[i] # CancelSub(id, m)
  BY BatchesOf
<1>2. \A m \in S : \E i \in DOMAIN ms : ms[i] = RegSub(a, m)
  BY BatchesOf
<1> HIDE DEF ms
<1>3. \A dsts, k : k \in Location =>
        /\ \A i \in DOMAIN Cast(dsts, ms)[k] : \A id, m : Cast(dsts, ms)[k][i] # CancelSub(id, m)
        /\ k \in dsts => \A m \in S : \E i \in DOMAIN Cast(dsts, ms)[k] : Cast(dsts, ms)[k][i] = RegSub(a, m)
  BY <1>1, <1>2, CastMembers
<1> QED
  BY <1>3 DEF ms

(* A handler that adds no peer and no catcher, and cancels what is caught  *)
(* no more.                                                                *)
LEMMA KeepsFewer ==
  ASSUME IInv, NEW a \in Agent, NEW J \in Info, J.peers \subseteq info[a].peers,
         \A m \in Mask : J.catchMap[m] \subseteq info[a].catchMap[m],
         NEW out,
         \A k \in Location : \A i \in DOMAIN out[k] : \A id \in Comp, m \in Mask :
           out[k][i] = CancelSub(id, m) => id = a /\ J.catchMap[m] = {},
         \A id \in Comp, m \in Mask : Belongs(id, a) =>
           /\ /\ id \in info[a].catchMap[m]
              /\ Head(queue[a]).msg \notin {CancelSub(id, m), Dereg(id)}
              /\ Head(queue[a]) # Entry(LocationOf(id), EOF)
              => id \in J.catchMap[m]
           /\ Head(queue[a]).msg = RegSub(id, m) /\ id \in info[a].peers => id \in J.catchMap[m]
  PROVE  Keeps(a, J, out)
BY DEF Keeps, Asks

(* A component that is removed is caught no more, by any mask.             *)
LEMMA RemovedCatch ==
  ASSUME NEW I \in Info, TablesAgree(I), NEW C \in SUBSET Comp
  PROVE  \A m \in Mask : /\ RemoveComps(I, C).catchMap[m] = I.catchMap[m] \ C
                         /\ m \in Emptied(I, RemoveComps(I, C)) => RemoveComps(I, C).catchMap[m] = {}
<1> DEFINE J == RemoveComps(I, C)
<1>1. J.catchMap = [m \in Mask |-> {c \in I.catchMap[m] : ~ (c \in C /\ m \in I.catchSet[c])}]
  BY DEF RemoveComps, Info
<1>2. \A m \in Mask, c \in Comp : c \in I.catchMap[m] => m \in I.catchSet[c]
  BY DEF TablesAgree
<1>3. \A m \in Mask : I.catchMap[m] \subseteq Comp
  BY DEF Info
<1>4. \A m \in Mask : J.catchMap[m] = I.catchMap[m] \ C
  BY <1>1, <1>2, <1>3
<1> HIDE DEF J
<1>5. \A m \in Mask : m \in Emptied(I, J) => J.catchMap[m] = {}
  BY DEF Emptied, CaughtMasks
<1> QED
  BY <1>4, <1>5 DEF J

(* What is cancelled when components are removed is caught no more.        *)
LEMMA RemovedCancels ==
  ASSUME NEW I \in Info, TablesAgree(I), NEW C \in SUBSET Comp,
         NEW q \in SetToSeqs(Emptied(I, RemoveComps(I, C))), NEW a
  PROVE  \A dsts, k : k \in Location =>
           \A i \in DOMAIN Cast(dsts, CancelSubs(a, q))[k] : \A id \in Comp, m \in Mask :
             Cast(dsts, CancelSubs(a, q))[k][i] = CancelSub(id, m) =>
               id = a /\ RemoveComps(I, C).catchMap[m] = {}
<1> DEFINE S == Emptied(I, RemoveComps(I, C))
<1>1. S \in SUBSET Mask /\ q \in SetToSeqs(S)
  BY DEF Emptied, CaughtMasks
<1>2. \A m \in Mask : m \in S => RemoveComps(I, C).catchMap[m] = {}
  BY RemovedCatch
<1> HIDE DEF S
<1>3. \A dsts, k : k \in Location =>
        \A i \in DOMAIN Cast(dsts, CancelSubs(a, q))[k] : \A id, m :
          Cast(dsts, CancelSubs(a, q))[k][i] = CancelSub(id, m) => id = a /\ m \in S
  <2> SUFFICES ASSUME NEW dsts, NEW k \in Location, NEW i \in DOMAIN Cast(dsts, CancelSubs(a, q))[k],
                      NEW id, NEW m, Cast(dsts, CancelSubs(a, q))[k][i] = CancelSub(id, m)
               PROVE  id = a /\ m \in S
    OBVIOUS
  <2> QED
    BY <1>1, CancelsCast, SMTT(30)
<1> QED
  BY <1>2, <1>3

(* A handler that does all that.                                           *)
Handled(a) ==
  \E J, out, closed, lostParent : \E errors \in SUBSET conn[a] :
    /\ Finish(a, J, out, closed, errors, lostParent)
    /\ Leaves(a, J, out, closed, lostParent) /\ Keeps(a, J, out)

-----------------------------------------------------------------------------
(* The handlers of the dispatcher.                                         *)

(* What a step of the program has to keep.                                 *)
PeersKept == Links' /\ Accounted' /\ LastWords'

(* Who is a peer of an agent without belonging to it may have no           *)
(* connection left; who belongs to it has one.                             *)
LEMMA BelongsLinked ==
  ASSUME IInv, Links, NEW a \in up \cap Agent, NEW id \in Comp, Belongs(id, a)
  PROVE  LocationOf(id) \in up /\ Linked(a, LocationOf(id))
<1>1. LocationOf(id) \in up
  BY BelongsRuns
<1>2. CASE id \in up \cap (Agent \cup Process)
  <2>1. LocationOf(id) = id /\ id \in up
    BY <1>2, IdsAreDistinct DEF LocationOf
  <2> QED
    BY <2>1 DEF Links, Joined
<1>3. CASE id \in handles /\ attach[HostOf[id]] = a
  <2>1. id \in Client /\ LocationOf(id) = HostOf[id] /\ HostOf[id] \in Process
    BY <1>3, HostOfType DEF IInv, TypeOK, LocationOf
  <2>2. Belongs(HostOf[id], a)
    BY <1>1, <1>3, <2>1 DEF Belongs
  <2> QED
    BY <1>1, <2>1, <2>2 DEF Links, Joined
<1> QED
  BY <1>1, <1>2, <1>3 DEF Belongs

(* The message at the head of a queue is in it.                            *)
LEMMA HeadQueued ==
  ASSUME TypeOK, NEW a \in Agent, queue[a] # <<>>
  PROVE  /\ Head(queue[a]) = Entry(Head(queue[a]).from, Head(queue[a]).msg)
         /\ Head(queue[a]).from \in Location /\ Head(queue[a]).msg \in Message
         /\ Queued(Head(queue[a]).from, a, Head(queue[a]).msg)
<1> DEFINE q == queue[a]
<1>1. q \in Seq(QueueEntry) /\ q # <<>>
  BY DEF TypeOK
<1>2. Head(q) \in QueueEntry /\ 1 \in DOMAIN q /\ q[1] = Head(q)
  BY <1>1
<1>3. Head(q) = Entry(Head(q).from, Head(q).msg)
  BY <1>2 DEF QueueEntry, Entry
<1> QED
  BY <1>2, <1>3 DEF QueueEntry, Queued

(* A registration comes from where its component is,                       *)
LEMMA TakesReg ==
  ASSUME IInv, Links, NEW a \in Agent, Takes(a, "CLIENT_REG"),
         NEW id, id = Head(queue[a]).msg.src
  PROVE  /\ queue[a] # <<>> /\ id \in Comp
         /\ Head(queue[a]) = Entry(LocationOf(id), Reg(id))
         /\ \A k \in Comp : Stays(k, a) <=> k = id \/ k \in info[a].peers
<1> DEFINE h == Head(queue[a])
<1>1. queue[a] # <<>> /\ id \in Comp /\ h.msg.type = "CLIENT_REG"
  BY Taken DEF IInv, Takes
<1>2. h = Entry(h.from, h.msg) /\ h.from \in Location /\ h.msg \in Message /\ Queued(h.from, a, h.msg)
  BY <1>1, HeadQueued DEF IInv
<1> HIDE DEF h
<1>3. h.msg = Reg(id)
  BY <1>1, <1>2 DEF Message, Reg, h
<1>4. h.from = LocationOf(id)
  BY <1>1, <1>2, <1>3 DEF Links, Own
<1>5. h = Entry(LocationOf(id), Reg(id))
  BY <1>2, <1>3, <1>4
<1>6. \A k \in Comp : h = Entry(LocationOf(k), Reg(k)) <=> k = id
  BY <1>5, EntriesDiffer, MessagesDiffer
<1>7. \A k \in Comp : h \notin Entries(LocationOf(k), {Dereg(k), EOF})
  BY <1>5, EntriesDiffer, MessagesDiffer
<1> QED
  BY <1>1, <1>5, <1>6, <1>7 DEF Stays, h

(* so does a deregistration, and a manager that deregisters has ended;     *)
LEMMA TakesDereg ==
  ASSUME IInv, Links, NEW a \in up \cap Agent, Takes(a, "CLIENT_DEREG"),
         NEW id, id = Head(queue[a]).msg.src
  PROVE  /\ queue[a] # <<>> /\ id \in Comp
         /\ Head(queue[a]) = Entry(LocationOf(id), Dereg(id))
         /\ \A k \in Comp : Stays(k, a) <=> k # id /\ k \in info[a].peers
         /\ id \in ManagerId => LocationOf(id) = id /\ id \notin up
<1> DEFINE h == Head(queue[a])
<1>1. queue[a] # <<>> /\ id \in Comp /\ h.msg.type = "CLIENT_DEREG"
  BY Taken DEF IInv, Takes
<1>2. h = Entry(h.from, h.msg) /\ h.from \in Location /\ h.msg \in Message /\ Queued(h.from, a, h.msg)
  BY <1>1, HeadQueued DEF IInv
<1> HIDE DEF h
<1>3. h.msg = Dereg(id)
  BY <1>1, <1>2 DEF Message, Dereg, h
<1>4. h.from = LocationOf(id)
  BY <1>1, <1>2, <1>3 DEF Links, Own
<1>5. h = Entry(LocationOf(id), Dereg(id))
  BY <1>2, <1>3, <1>4
<1>6. \A k \in Comp : h # Entry(LocationOf(k), Reg(k))
  BY <1>5, EntriesDiffer, MessagesDiffer
<1>7. \A k \in Comp : h \in Entries(LocationOf(k), {Dereg(k), EOF}) <=> k = id
  <2>1. \A k \in Comp : h \in Entries(LocationOf(k), {Dereg(k), EOF})
          <=> LocationOf(id) = LocationOf(k) /\ Dereg(id) \in {Dereg(k), EOF}
    BY <1>5, EntriesDiffer
  <2> QED
    BY <2>1, MessagesDiffer
<1>8. id \in ManagerId => LocationOf(id) = id /\ id \notin up
  <2>1. id \in ManagerId => LocationOf(id) = id
    BY Ids DEF ManagerId, Location
  <2>2. LocationOf(id) = id => Queued(id, a, Dereg(id))
    BY <1>2, <1>3, <1>4
  <2> QED
    BY <2>1, <2>2 DEF Links, Open
<1> QED
  BY <1>1, <1>5, <1>6, <1>7, <1>8 DEF Stays, h

(* the end of a connection is that of one who ended,                       *)
LEMMA TakesEOF ==
  ASSUME IInv, Links, NEW a \in up \cap Agent, Takes(a, "EOF"),
         NEW loc, loc = Head(queue[a]).from
  PROVE  /\ queue[a] # <<>> /\ loc \in Location /\ loc \notin up
         /\ \A k \in Comp : Stays(k, a) <=> LocationOf(k) # loc /\ k \in info[a].peers
<1> DEFINE h == Head(queue[a])
<1>1. queue[a] # <<>> /\ h.msg.type = "EOF"
  BY Taken DEF IInv, Takes
<1>2. h = Entry(loc, h.msg) /\ loc \in Location /\ h.msg \in Message /\ Queued(loc, a, h.msg)
  BY <1>1, HeadQueued DEF IInv
<1> HIDE DEF h
<1>3. h.msg = EOF
  BY <1>1, <1>2 DEF Message, EOF
<1>4. loc \notin up
  BY <1>2, <1>3 DEF Links, Open
<1>5. \A k \in Comp : h # Entry(LocationOf(k), Reg(k))
  BY <1>2, <1>3, EntriesDiffer, MessagesDiffer
<1>6. \A k \in Comp : h \in Entries(LocationOf(k), {Dereg(k), EOF}) <=> LocationOf(k) = loc
  <2>1. \A k \in Comp : h \in Entries(LocationOf(k), {Dereg(k), EOF})
          <=> loc = LocationOf(k) /\ EOF \in {Dereg(k), EOF}
    BY <1>2, <1>3, EntriesDiffer
  <2> QED
    BY <2>1
<1> QED
  BY <1>1, <1>2, <1>4, <1>5, <1>6 DEF Stays, h

(* and other messages say nothing of the peers.                            *)
LEMMA TakesOther ==
  ASSUME IInv, NEW a \in Agent, NEW type, Takes(a, type),
         type \notin {"CLIENT_REG", "CLIENT_DEREG", "EOF"}
  PROVE  queue[a] # <<>> /\ \A k \in Comp : Stays(k, a) <=> k \in info[a].peers
<1> DEFINE h == Head(queue[a])
<1>1. queue[a] # <<>> /\ h.msg.type = type
  BY DEF Takes
<1>2. h = Entry(h.from, h.msg)
  BY <1>1, HeadQueued DEF IInv
<1> HIDE DEF h
<1>3. EOF.type = "EOF" /\ \A k : Reg(k).type = "CLIENT_REG" /\ Dereg(k).type = "CLIENT_DEREG"
  BY DEF EOF, Reg, Dereg
<1>4. \A k : h.msg # Reg(k) /\ h.msg # Dereg(k) /\ h.msg # EOF
  BY <1>1, <1>3
<1>5. \A k \in Comp : h # Entry(LocationOf(k), Reg(k))
  BY <1>2, <1>4, EntriesDiffer
<1>6. \A k \in Comp : h \notin Entries(LocationOf(k), {Dereg(k), EOF})
  <2>1. \A k \in Comp : h \in Entries(LocationOf(k), {Dereg(k), EOF})
          <=> h.from = LocationOf(k) /\ h.msg \in {Dereg(k), EOF}
    BY <1>2, EntriesDiffer
  <2> QED
    BY <1>4, <2>1
<1> QED
  BY <1>1, <1>5, <1>6 DEF Stays, h

(* So is what is cast to some neighbours, if one message is.               *)
LEMMA InertCasts ==
  /\ \A dsts, ms : Inert(ms) => \A k \in Location : Inert(Cast(dsts, ms)[k])
  /\ \A k \in Location : Inert(Silence[k])
  /\ \A id, m : Inert(<<RegSub(id, m)>>) /\ Inert(<<CancelSub(id, m)>>)
<1>1. Inert(<<>>)
  BY InertBatches
<1>2. \A dsts, ms : Inert(ms) => \A k \in Location : Inert(Cast(dsts, ms)[k])
  BY <1>1 DEF Cast
<1>3. \A k \in Location : Inert(Silence[k])
  BY <1>1 DEF Silence
<1>4. \A id, m : Inert(<<RegSub(id, m)>>) /\ Inert(<<CancelSub(id, m)>>)
  BY DEF Inert, RegSub, CancelSub
<1> QED
  BY <1>2, <1>3, <1>4

(* No write has reported an error, and this step reports none.             *)
Calm == writeErrors = 0 /\ writeErrors' = 0

(* What is handled so keeps the peers accounted for.                       *)
LEMMA HandledPeers ==
  ASSUME Standing, Calm, NEW a \in up \cap Agent, Handled(a)
  PROVE  PeersKept
<1>1. PICK J, out, closed, lostParent : \E errors \in SUBSET conn[a] :
        /\ Finish(a, J, out, closed, errors, lostParent)
        /\ Leaves(a, J, out, closed, lostParent)
  BY DEF Handled
<1>2. PICK errors \in SUBSET conn[a] : Finish(a, J, out, closed, errors, lostParent)
  BY <1>1
<1>3. Links' /\ Accounted' /\ LastWords'
  BY <1>1, <1>2, FinishPeers DEF Calm
<1> QED
  BY <1>3 DEF PeersKept

(* A handler may only answer.                                              *)
LEMMA AnswerHandled ==
  ASSUME NEW a \in up \cap Agent, NEW J, NEW out,
         Answer(a, J, out), Leaves(a, J, out, {}, FALSE), Keeps(a, J, out)
  PROVE  Handled(a)
<1>1. {} \in SUBSET conn[a] /\ Finish(a, J, out, {}, {}, FALSE)
  BY DEF Answer
<1> QED
  BY <1>1 DEF Handled

(* FTBM_Client_register handles its message so: the sender becomes a peer, *)
(* and belongs; if it is an agent it is told what is caught.               *)
LEMMA ClientRegHandled ==
  ASSUME Standing, Calm, NEW a \in Agent, HandleClientReg(a)
  PROVE  Handled(a)
<1> DEFINE I == info[a]
           id == Head(queue[a]).msg.src
<1>0. a \in up \cap Agent /\ Takes(a, "CLIENT_REG") /\ IInv /\ Links
  BY DEF HandleClientReg, Takes, Standing
<1>1. /\ queue[a] # <<>> /\ id \in Comp
      /\ Head(queue[a]) = Entry(LocationOf(id), Reg(id))
      /\ \A k \in Comp : Stays(k, a) <=> k = id \/ k \in I.peers
  BY <1>0, TakesReg
<1>2. I \in Info
  BY <1>0 DEF IInv, TypeOK
<1>5. Head(queue[a]).msg = Reg(id) /\ \A k, m : Head(queue[a]).msg # RegSub(k, m)
  BY <1>1, SubsDiffer DEF Entry
<1>3. CASE id \in I.peers /\ Answer(a, I, Silence)
  <2>1. Leaves(a, I, Silence, {}, FALSE)
    BY <1>1, <1>2, <1>3, SilenceType, InertCasts DEF Leaves
  <2>2. Keeps(a, I, Silence)
    BY <1>0, <1>2, <1>5, KeepsFewer, CastMembers
  <2> QED
    BY <1>0, <1>3, <2>1, <2>2, AnswerHandled
<1>4. ASSUME id \notin I.peers,
             NEW q \in SetToSeqs(CaughtMasks(I)),
             Answer(a, AddPeer(I, id), Cast({id} \cap Agent, RegSubs(a, q)))
      PROVE  Handled(a)
  <2> DEFINE J == AddPeer(I, id)
             out == Cast({id} \cap Agent, RegSubs(a, q))
  <2>1. q \in Seq(Mask)
    BY MaskOrders DEF CaughtMasks
  <2>2. RegSubs(a, q) \in Seq(Message)
    BY <2>1, Ids, SequenceTypes
  <2>3. out \in [Location -> Seq(Message)] /\ \A k \in Location : Inert(out[k])
    BY <2>2, CastType, InertBatches, InertCasts
  <2>4. J \in Info /\ J.parent = I.parent /\ J.peers = I.peers \cup {id}
    <3>1. J.peers = I.peers \cup {id}
      BY <1>2 DEF AddPeer, Info
    <3> QED
      BY <1>1, <1>2, <1>4, <3>1, AddPeerOK
  <2>6. J.catchMap = I.catchMap
    BY <1>2 DEF AddPeer, Info
  <2>7. \A k \in Location : \A i \in DOMAIN out[k] : \A j, m : out[k][i] # CancelSub(j, m)
    <3> DEFINE S == CaughtMasks(I)
    <3>1. S \in SUBSET Mask /\ q \in SetToSeqs(S)
      BY <1>4 DEF CaughtMasks
    <3> HIDE DEF I, S, id
    <3> SUFFICES ASSUME NEW k \in Location, NEW i \in DOMAIN out[k], NEW j, NEW m
                 PROVE  out[k][i] # CancelSub(j, m)
      OBVIOUS
    <3> QED
      BY <3>1, RegSubsCast, SMTT(30)
  <2>8. \A m \in Mask : I.catchMap[m] # {} /\ id \in Agent =>
          \E i \in DOMAIN out[id] : out[id][i] = RegSub(a, m)
    <3> SUFFICES ASSUME NEW m \in Mask, I.catchMap[m] # {}, id \in Agent
                 PROVE  \E i \in DOMAIN out[id] : out[id][i] = RegSub(a, m)
      OBVIOUS
    <3>1. m \in CaughtMasks(I) /\ CaughtMasks(I) \in SUBSET Mask
      BY DEF CaughtMasks
    <3>2. id \in Location /\ id \in {id} \cap Agent
      BY Ids
    <3> HIDE DEF id
    <3>3. \A n \in CaughtMasks(I) : \E i \in DOMAIN out[id] : out[id][i] = RegSub(a, n)
      <4> DEFINE S == CaughtMasks(I)
      <4>1. S \in SUBSET Mask /\ q \in SetToSeqs(S)
        BY <1>4, <3>1
      <4> HIDE DEF I, S
      <4>2. \A n \in S : \E i \in DOMAIN out[id] : out[id][i] = RegSub(a, n)
        <5> SUFFICES ASSUME NEW n \in S
                     PROVE  \E i \in DOMAIN out[id] : out[id][i] = RegSub(a, n)
          OBVIOUS
        <5> QED
          BY <3>2, <4>1, RegSubsCast, SMTT(30)
      <4> QED
        BY <4>2 DEF S
    <3> QED
      BY <3>1, <3>3
  <2> HIDE DEF J, out
  <2>5. Leaves(a, J, out, {}, FALSE)
    BY <1>1, <2>3, <2>4 DEF Leaves
  <2>9. Keeps(a, J, out)
    <3>1. ASSUME NEW b \in up \cap Agent, NEW m \in Mask, b \in J.peers, Asks(J, b, m)
          PROVE  \/ b \in I.peers /\ Asks(I, b, m)
                 \/ \E i \in DOMAIN out[b] : out[b][i] = RegSub(a, m)
      BY <2>4, <2>6, <2>8, <3>1 DEF Asks
    <3> QED
      BY <1>5, <2>6, <2>7, <3>1, Zenon DEF Keeps
  <2> QED
    BY <1>0, <1>4, <2>5, <2>9, AnswerHandled DEF J, out
<1> QED
  BY <1>3, <1>4 DEF HandleClientReg

(* FTBM_Register_subscription does: it changes no peer,                    *)
LEMMA RegSubscriptionHandled ==
  ASSUME Standing, Calm, NEW a \in Agent, HandleRegSubscription(a)
  PROVE  Handled(a)
<1> DEFINE I == info[a]
           id == Head(queue[a]).msg.src
           m == Head(queue[a]).msg.mask
           news == Cast(PropagateTo(I, LocationOf(id)), <<RegSub(a, m)>>)
<1>0. a \in up \cap Agent /\ Takes(a, "REG_SUBSCRIPTION") /\ IInv
  BY DEF HandleRegSubscription, Takes, Standing
<1>1. queue[a] # <<>> /\ id \in Comp /\ m \in Mask
  BY <1>0, Taken DEF IInv
<1>2. \A k \in Comp : Stays(k, a) <=> k \in I.peers
  BY <1>0, TakesOther
<1>3. I \in Info
  BY <1>0 DEF IInv, TypeOK
<1>4. news \in [Location -> Seq(Message)] /\ \A k \in Location : Inert(news[k])
  <2>1. <<RegSub(a, m)>> \in Seq(Message)
    BY <1>1, Ids, MessageTypes
  <2> QED
    BY <2>1, CastType, InertCasts
<1>5. Silence \in [Location -> Seq(Message)] /\ \A k \in Location : Inert(Silence[k])
  BY SilenceType, InertCasts
<1>9. TablesAgree(I) /\ Head(queue[a]).msg = RegSub(id, m)
  <2>1. Head(queue[a]).msg \in Message /\ Head(queue[a]).msg.type = "REG_SUBSCRIPTION"
    BY <1>0, HeadQueued DEF IInv, Takes
  <2>2. Head(queue[a]).msg = RegSub(id, m)
    BY <2>1 DEF Message, RegSub
  <2> QED
    BY <1>0, <2>2, TablesOK
<1>10. \A k \in Comp, n \in Mask : Head(queue[a]).msg = RegSub(k, n) <=> k = id /\ n = m
  BY <1>9, SubsDiffer
<1>11. /\ \A k \in Location : \A i \in DOMAIN news[k] : \A j, n : news[k][i] # CancelSub(j, n)
       /\ \A k \in PropagateTo(I, LocationOf(id)) : \E i \in DOMAIN news[k] : news[k][i] = RegSub(a, m)
  <2>1. DOMAIN <<RegSub(a, m)>> = {1} /\ <<RegSub(a, m)>>[1] = RegSub(a, m)
    OBVIOUS
  <2>2. PropagateTo(I, LocationOf(id)) \subseteq Location
    BY Ids DEF PropagateTo
  <2> DEFINE dsts == PropagateTo(I, LocationOf(id))
             ms == <<RegSub(a, m)>>
  <2>3. \A i \in DOMAIN ms : \A j, n : ms[i] # CancelSub(j, n)
    BY <2>1, SubsDiffer
  <2>4. \E i \in DOMAIN ms : ms[i] = RegSub(a, m)
    BY <2>1
  <2>5. dsts \subseteq Location
    BY <2>2
  <2>7. \A k \in Location : Cast(dsts, ms)[k] = IF k \in dsts THEN ms ELSE <<>>
    BY DEF Cast
  <2>8. DOMAIN <<>> = {}
    OBVIOUS
  <2> HIDE DEF dsts, ms
  <2>6. /\ \A k \in Location : \A i \in DOMAIN Cast(dsts, ms)[k] : \A j, n : Cast(dsts, ms)[k][i] # CancelSub(j, n)
        /\ \A k \in dsts : \E i \in DOMAIN Cast(dsts, ms)[k] : Cast(dsts, ms)[k][i] = RegSub(a, m)
    BY <2>3, <2>4, <2>5, <2>7, <2>8
  <2> QED
    BY <2>6 DEF dsts, ms
<1>6. ASSUME NEW J \in Info, J.peers = I.peers, J.parent = I.parent,
             NEW out \in {Silence, news}, Answer(a, J, out), Keeps(a, J, out)
      PROVE  Handled(a)
  <2>1. out \in [Location -> Seq(Message)] /\ \A k \in Location : Inert(out[k])
    BY <1>4, <1>5, <1>6
  <2> HIDE DEF news
  <2>2. Leaves(a, J, out, {}, FALSE)
    BY <1>1, <1>2, <1>6, <2>1 DEF Leaves
  <2> QED
    BY <1>0, <1>6, <2>2, AnswerHandled
<1>7. CASE id \in I.peers /\ Answer(a, AddCatch(I, id, m), news)
  <2>1. AddCatch(I, id, m) \in Info /\ AddCatch(I, id, m).parent = I.parent
    BY <1>1, <1>3, <1>7, AddCatchOK
  <2>2. AddCatch(I, id, m).peers = I.peers
    BY <1>3 DEF AddCatch, Info
  <2> DEFINE J == AddCatch(I, id, m)
  <2>3. \A n \in Mask : J.catchMap[n] = IF n = m THEN I.catchMap[m] \cup {id} ELSE I.catchMap[n]
    BY <1>1, <1>3 DEF AddCatch, Info
  <2> HIDE DEF news, J
  <2>4. ASSUME NEW b \in up \cap Agent, NEW n \in Mask, b \in J.peers, Asks(J, b, n)
        PROVE  \/ b \in I.peers /\ Asks(I, b, n)
               \/ \E i \in DOMAIN news[b] : news[b][i] = RegSub(a, n)
    <3>1. CASE Asks(I, b, n)
      BY <2>2, <2>4, <3>1 DEF J
    <3>2. CASE ~ Asks(I, b, n)
      <4>1. n = m /\ id # b
        BY <2>3, <2>4, <3>2 DEF Asks
      <4>2. b # LocationOf(id)
        BY <1>1, <4>1, IdsAreDistinct, HostOfType DEF LocationOf
      <4>3. b \in PropagateTo(I, LocationOf(id))
        BY <2>2, <2>4, <4>2 DEF PropagateTo, J
      <4> QED
        BY <1>11, <4>1, <4>3
    <3> QED
      BY <3>1, <3>2
  <2>5. Keeps(a, J, news)
    <3>1. \A k \in Location : \A i \in DOMAIN news[k] : \A j \in Comp, n \in Mask :
            news[k][i] = CancelSub(j, n) => j = a /\ J.catchMap[n] = {}
      BY <1>11
    <3>2. \A j \in Comp, n \in Mask :
            /\ j \in I.catchMap[n] => j \in J.catchMap[n]
            /\ Head(queue[a]).msg = RegSub(j, n) => j \in J.catchMap[n]
      BY <1>10, <2>3
    <3> QED
      BY <2>4, <3>1, <3>2, Zenon DEF Keeps
  <2> QED
    BY <1>6, <1>7, <2>1, <2>2, <2>5 DEF J
<1>8. CASE (id \in I.peers => m \in I.catchSet[id]) /\ \E out \in {Silence, news} : Answer(a, I, out)
  <2>1. id \in I.peers => id \in I.catchMap[m]
    BY <1>1, <1>8, <1>9 DEF TablesAgree
  <2> HIDE DEF news
  <2>2. ASSUME NEW out \in {Silence, news} PROVE Keeps(a, I, out)
    <3>1. \A k \in Location : \A i \in DOMAIN out[k] : \A j, n : out[k][i] # CancelSub(j, n)
      BY <1>11, CastMembers
    <3>2. \A k \in Comp, n \in Mask : Head(queue[a]).msg = RegSub(k, n) /\ k \in I.peers => k \in I.catchMap[n]
      BY <1>10, <2>1
    <3> QED
      BY <1>0, <1>3, <3>1, <3>2, KeepsFewer
  <2> QED
    BY <1>3, <1>6, <1>8, <2>2
<1> QED
  BY <1>7, <1>8 DEF HandleRegSubscription

(* and so does FTBM_Cancel_subscription.                                   *)
LEMMA CancelHandled ==
  ASSUME Standing, Calm, NEW a \in Agent, HandleCancel(a)
  PROVE  Handled(a)
<1> DEFINE I == info[a]
           id == Head(queue[a]).msg.src
           m == Head(queue[a]).msg.mask
           J == DropCatch(I, id, m)
           told == IF Emptied(I, J) = {} THEN {} ELSE PropagateTo(I, LocationOf(id))
           news == Cast(told, <<CancelSub(a, m)>>)
<1>0. a \in up \cap Agent /\ Takes(a, "SUBSCRIPTION_CANCEL") /\ IInv
  BY DEF HandleCancel, Takes, Standing
<1>1. queue[a] # <<>> /\ id \in Comp /\ m \in Mask
  BY <1>0, Taken DEF IInv
<1>2. \A k \in Comp : Stays(k, a) <=> k \in I.peers
  BY <1>0, TakesOther
<1>3. I \in Info
  BY <1>0 DEF IInv, TypeOK
<1>4. news \in [Location -> Seq(Message)] /\ \A k \in Location : Inert(news[k])
  <2>1. <<CancelSub(a, m)>> \in Seq(Message)
    BY <1>1, Ids, MessageTypes
  <2> QED
    BY <2>1, CastType, InertCasts
<1>7. Head(queue[a]).msg = CancelSub(id, m) /\ \A k, n : Head(queue[a]).msg # RegSub(k, n)
  <2>1. Head(queue[a]).msg \in Message /\ Head(queue[a]).msg.type = "SUBSCRIPTION_CANCEL"
    BY <1>0, HeadQueued DEF IInv, Takes
  <2>2. Head(queue[a]).msg = CancelSub(id, m)
    BY <2>1 DEF Message, CancelSub
  <2> QED
    BY <2>2, SubsDiffer
<1>5. CASE Answer(a, I, Silence)
  <2>1. Leaves(a, I, Silence, {}, FALSE)
    BY <1>1, <1>2, <1>3, SilenceType, InertCasts DEF Leaves
  <2>2. Keeps(a, I, Silence)
    BY <1>0, <1>3, <1>7, KeepsFewer, CastMembers
  <2> QED
    BY <1>0, <1>5, <2>1, <2>2, AnswerHandled
<1>6. CASE Answer(a, J, news)
  <2>1. J \in Info /\ J.parent = I.parent /\ J.peers = I.peers
    <3>1. J.peers = I.peers
      BY <1>3 DEF DropCatch, Info
    <3> QED
      BY <1>1, <1>3, <3>1, DropCatchOK
  <2>3. \A n \in Mask : J.catchMap[n] = IF n = m THEN I.catchMap[m] \ {id} ELSE I.catchMap[n]
    BY <1>1, <1>3 DEF DropCatch, Info
  <2> HIDE DEF J
  <2>4. \A k \in Location : \A i \in DOMAIN news[k] : \A j, n :
          news[k][i] = CancelSub(j, n) => j = a /\ n = m /\ Emptied(I, J) # {}
    <3>1. DOMAIN <<CancelSub(a, m)>> = {1} /\ <<CancelSub(a, m)>>[1] = CancelSub(a, m)
      OBVIOUS
    <3> QED
      BY <3>1, CastMembers, SubsDiffer
  <2>5. Emptied(I, J) # {} => J.catchMap[m] = {}
    BY <2>3 DEF Emptied, CaughtMasks
  <2> HIDE DEF news
  <2>6. Keeps(a, J, news)
    <3>1. \A k \in Comp, n \in Mask :
            k \in I.catchMap[n] /\ Head(queue[a]).msg \notin {CancelSub(k, n), Dereg(k)} => k \in J.catchMap[n]
      BY <1>7, <2>3, SubsDiffer
    <3>2. J.peers \subseteq I.peers /\ \A n \in Mask : J.catchMap[n] \subseteq I.catchMap[n]
      BY <2>1, <2>3
    <3> QED
      BY <1>0, <1>7, <2>1, <2>4, <2>5, <3>1, <3>2, KeepsFewer
  <2>2. Leaves(a, J, news, {}, FALSE)
    BY <1>1, <1>2, <1>4, <2>1 DEF Leaves
  <2> QED
    BY <1>0, <1>6, <2>2, <2>6, AnswerHandled
<1> QED
  BY <1>5, <1>6 DEF HandleCancel

(* FTBM_Client_deregister does: the sender is no peer any more; a manager  *)
(* ended, as its last word says, and a parent that ended is replaced.      *)
LEMMA ClientDeregHandled ==
  ASSUME Standing, Calm, NEW a \in Agent, HandleClientDereg(a)
  PROVE  Handled(a)
<1> DEFINE I == info[a]
           id == Head(queue[a]).msg.src
           J == RemoveComps(I, {id})
           closed == {id} \cap ManagerId \cap conn[a]
<1>0. a \in up \cap Agent /\ Takes(a, "CLIENT_DEREG") /\ IInv /\ Links
  BY DEF HandleClientDereg, Takes, Standing
<1>1. /\ queue[a] # <<>> /\ id \in Comp
      /\ Head(queue[a]) = Entry(LocationOf(id), Dereg(id))
      /\ \A k \in Comp : Stays(k, a) <=> k # id /\ k \in I.peers
      /\ id \in ManagerId => LocationOf(id) = id /\ id \notin up
  BY <1>0, TakesDereg
<1>2. I \in Info
  BY <1>0 DEF IInv, TypeOK
<1>5. Head(queue[a]).msg = Dereg(id) /\ \A k, m : Head(queue[a]).msg # RegSub(k, m)
  BY <1>1, SubsDiffer DEF Entry
<1>3. CASE id \notin I.peers /\ Answer(a, I, Silence)
  <2>1. Leaves(a, I, Silence, {}, FALSE)
    BY <1>1, <1>2, <1>3, SilenceType, InertCasts DEF Leaves
  <2>2. Keeps(a, I, Silence)
    BY <1>0, <1>2, <1>5, KeepsFewer, CastMembers
  <2> QED
    BY <1>0, <1>3, <2>1, <2>2, AnswerHandled
<1>4. ASSUME NEW q \in SetToSeqs(Emptied(I, J)),
             Finish(a, J, Cast(PropagateTo(I, LocationOf(id)), CancelSubs(a, q)),
                    closed, {}, id = I.parent)
      PROVE  Handled(a)
  <2> DEFINE out == Cast(PropagateTo(I, LocationOf(id)), CancelSubs(a, q))
             lostParent == id = I.parent
  <2>1. J \in Info /\ J.parent = I.parent /\ J.peers = I.peers \ {id}
    <3>1. J.peers = I.peers \ {id}
      BY <1>2 DEF RemoveComps, Info
    <3> QED
      BY <1>1, <1>2, <3>1, RemoveCompsOK
  <2>2. out \in [Location -> Seq(Message)] /\ \A k \in Location : Inert(out[k])
    BY CancelsType, InertBatches, InertCasts
  <2>3. closed \subseteq Location /\ closed \cap up = {} /\ \A l \in closed : Head(queue[a]) = Entry(l, Dereg(l))
    BY <1>1 DEF ManagerId, Location
  <2>4. lostParent \in BOOLEAN /\ (lostParent => I.parent \notin up)
    <3>1. I.parent \in Agent \cup {NoAgent}
      BY <1>2 DEF Info
    <3> QED
      BY <1>1, <3>1, Ids DEF ManagerId
  <2>5. {} \in SUBSET conn[a] /\ Finish(a, J, out, closed, {}, lostParent)
    BY <1>4
  <2>7. \A m \in Mask : J.catchMap[m] = I.catchMap[m] \ {id} /\ (m \in Emptied(I, J) => J.catchMap[m] = {})
    <3>1. {id} \in SUBSET Comp /\ I \in Info /\ TablesAgree(I)
      BY <1>0, <1>1, TablesOK
    <3> HIDE DEF I, id
    <3> QED
      BY <3>1, RemovedCatch
  <2>8. \A k \in Location : \A i \in DOMAIN out[k] : \A j \in Comp, m \in Mask :
          out[k][i] = CancelSub(j, m) => j = a /\ J.catchMap[m] = {}
    <3>1. {id} \in SUBSET Comp /\ I \in Info /\ TablesAgree(I)
      BY <1>0, <1>1, TablesOK
    <3> HIDE DEF I, id
    <3> QED
      BY <1>4, <3>1, RemovedCancels
  <2> HIDE DEF J, out, closed, lostParent
  <2>6. Leaves(a, J, out, closed, lostParent)
    BY <1>1, <2>1, <2>2, <2>3, <2>4 DEF Leaves
  <2>9. Keeps(a, J, out)
    <3>1. \A k \in Comp, m \in Mask :
            k \in I.catchMap[m] /\ Head(queue[a]).msg \notin {CancelSub(k, m), Dereg(k)} => k \in J.catchMap[m]
      BY <1>5, <2>7
    <3>2. J.peers \subseteq I.peers /\ \A m \in Mask : J.catchMap[m] \subseteq I.catchMap[m]
      BY <2>1, <2>7
    <3> QED
      BY <1>0, <1>5, <2>1, <2>8, <3>1, <3>2, KeepsFewer
  <2> QED
    BY <2>5, <2>6, <2>9 DEF Handled
<1> QED
  BY <1>3, <1>4 DEF HandleClientDereg

(* FTBM_Cleanup_connection does: whose connection ended does not run.      *)
LEMMA CleanupHandled ==
  ASSUME Standing, Calm, NEW a \in Agent, HandleCleanup(a)
  PROVE  Handled(a)
<1> DEFINE I == info[a]
           loc == Head(queue[a]).from
           C == I.peers \cap CompsAt(loc)
           J == RemoveComps(I, C)
           lostParent == loc = I.parent
<1>0. a \in up \cap Agent /\ Takes(a, "EOF") /\ IInv /\ Links
  BY DEF HandleCleanup, Takes, Standing
<1>1. /\ queue[a] # <<>> /\ loc \in Location /\ loc \notin up
      /\ \A k \in Comp : Stays(k, a) <=> LocationOf(k) # loc /\ k \in I.peers
  BY <1>0, TakesEOF
<1>2. I \in Info
  BY <1>0 DEF IInv, TypeOK
<1>3. PICK q \in SetToSeqs(Emptied(I, J)) :
        Finish(a, J, Cast(PropagateTo(I, loc), CancelSubs(a, q)), {}, {}, lostParent)
  BY DEF HandleCleanup
<1> DEFINE out == Cast(PropagateTo(I, loc), CancelSubs(a, q))
<1>4. C \in SUBSET Comp
  BY DEF CompsAt
<1>5. J \in Info /\ J.parent = I.parent /\ J.peers = I.peers \ C
  <2>1. J.peers = I.peers \ C
    BY <1>2 DEF RemoveComps, Info
  <2> QED
    BY <1>2, <1>4, <2>1, RemoveCompsOK
<1>6. out \in [Location -> Seq(Message)] /\ \A k \in Location : Inert(out[k])
  BY CancelsType, InertBatches, InertCasts
<1>7. \A k \in Comp : k \in J.peers <=> Stays(k, a)
  BY <1>1, <1>5 DEF CompsAt
<1>8. lostParent \in BOOLEAN /\ (lostParent => I.parent \notin up)
  BY <1>1
<1>9. {} \in SUBSET conn[a] /\ Finish(a, J, out, {}, {}, lostParent)
  BY <1>3
<1>11. \A m \in Mask : J.catchMap[m] = I.catchMap[m] \ C /\ (m \in Emptied(I, J) => J.catchMap[m] = {})
  <2>1. I \in Info /\ TablesAgree(I)
    BY <1>0, TablesOK
  <2> HIDE DEF I, C
  <2> QED
    BY <1>4, <2>1, RemovedCatch
<1>12. \A k \in Location : \A i \in DOMAIN out[k] : \A j \in Comp, m \in Mask :
         out[k][i] = CancelSub(j, m) => j = a /\ J.catchMap[m] = {}
  <2>1. I \in Info /\ TablesAgree(I)
    BY <1>0, TablesOK
  <2> HIDE DEF I, C, loc
  <2> QED
    BY <1>3, <1>4, <2>1, RemovedCancels
<1>13. Head(queue[a]) = Entry(loc, EOF) /\ \A k, m : Head(queue[a]).msg # RegSub(k, m)
  <2>1. /\ Head(queue[a]) = Entry(loc, Head(queue[a]).msg)
        /\ Head(queue[a]).msg \in Message /\ Head(queue[a]).msg.type = "EOF"
    BY <1>0, HeadQueued DEF IInv, Takes
  <2>2. Head(queue[a]).msg = EOF
    BY <2>1 DEF Message, EOF
  <2> QED
    BY <2>1, <2>2, SubsDiffer
<1> HIDE DEF J, out, lostParent
<1>10. Leaves(a, J, out, {}, lostParent)
  BY <1>1, <1>5, <1>6, <1>7, <1>8 DEF Leaves
<1>14. Keeps(a, J, out)
  <2>1. \A k \in Comp, m \in Mask :
          k \in I.catchMap[m] /\ Head(queue[a]) # Entry(LocationOf(k), EOF) => k \in J.catchMap[m]
    BY <1>11, <1>13, EntriesDiffer DEF CompsAt
  <2>2. J.peers \subseteq I.peers /\ \A m \in Mask : J.catchMap[m] \subseteq I.catchMap[m]
    BY <1>5, <1>11
  <2> QED
    BY <1>0, <1>5, <1>12, <1>13, <2>1, <2>2, KeepsFewer
<1> QED
  BY <1>9, <1>10, <1>14 DEF Handled

(* When no write reports an error, no connection is closed for one.        *)
LEMMA NoErrors ==
  ASSUME IInv, Calm, NEW a \in Agent, NEW J, NEW out, NEW closed,
         NEW errors \in SUBSET conn[a], NEW lostParent,
         Finish(a, J, out, closed, errors, lostParent)
  PROVE  errors = {}
<1>1. PICK failed \in SUBSET (Broken(a, out) \ closed) :
        writeErrors' = writeErrors + Cardinality(errors \cup failed)
  BY DEF Finish
<1>2. errors \cup failed \in SUBSET Location
  <2>1. conn[a] \in SUBSET Location
    BY Ids DEF IInv, TypeOK
  <2> QED
    BY <2>1 DEF Broken
<1>3. IsFiniteSet(errors \cup failed) /\ Cardinality(errors \cup failed) \in Nat
  BY <1>2, FiniteSubsets, FS_CardinalityType
<1>4. Cardinality(errors \cup failed) = 0
  BY <1>1, <1>3 DEF Calm
<1> QED
  BY <1>3, <1>4, FS_EmptySet

(* A component that could not be told has no connection left: it does not  *)
(* belong to the agent any more.                                           *)
LEMMA NotifyHandled ==
  ASSUME Standing, Calm, NEW a \in Agent, HandleNotify(a)
  PROVE  Handled(a)
<1> DEFINE I == info[a]
           e == Head(queue[a]).msg.event
           catchers == Catchers(I, e) \ Echoes(Head(queue[a]).from)
           doubtful == {c \in catchers : ~ Linked(a, LocationOf(c))}
<1>0. a \in up \cap Agent /\ Takes(a, "NOTIFY") /\ IInv /\ Links
  BY DEF HandleNotify, Takes, Standing
<1>1. queue[a] # <<>> /\ e \in Event
  BY <1>0, Taken DEF IInv
<1>2. \A k \in Comp : Stays(k, a) <=> k \in I.peers
  BY <1>0, TakesOther
<1>3. I \in Info /\ ParentInPeers(I)
  BY <1>0, TablesOK
<1>4. catchers \in SUBSET Comp
  BY <1>1, <1>3, CatchersType
<1> HIDE DEF catchers
<1>5. ASSUME NEW failed \in SUBSET doubtful,
             NEW q \in SetToSeqs(Emptied(I, RemoveComps(I, failed))),
             LET J == RemoveComps(I, failed)
                 lost == {LocationOf(c) : c \in failed}
                 told(l) == Notifies(e, SetToSeq((catchers \ failed) \cap CompsAt(l)))
             IN Finish(a, J,
                       [l \in Location |->
                          told(l) \o Cast(PropagateTo(J, NoAgent), CancelSubs(a, q))[l]],
                       {}, lost \cap conn[a], I.parent \in lost)
      PROVE  Handled(a)
  <2> DEFINE J == RemoveComps(I, failed)
             lost == {LocationOf(c) : c \in failed}
             told(l) == Notifies(e, SetToSeq((catchers \ failed) \cap CompsAt(l)))
             cancels == Cast(PropagateTo(J, NoAgent), CancelSubs(a, q))
             out == [l \in Location |-> told(l) \o cancels[l]]
             errors == lost \cap conn[a]
             lostParent == I.parent \in lost
  <2>1. Finish(a, J, out, {}, errors, lostParent)
    BY <1>5
  <2>2. failed \in SUBSET Comp
    BY <1>4
  <2>3. errors \in SUBSET conn[a] /\ lostParent \in BOOLEAN
    OBVIOUS
  <2>4. errors = {}
    <3> HIDE DEF J, out, errors, lostParent
    <3> QED
      BY <1>0, <2>1, <2>3, NoErrors
  <2>5. \A c \in failed : LocationOf(c) \notin conn[a]
    BY <2>4
  <2>6. \A c \in failed : ~ Belongs(c, a)
    <3>1. ASSUME NEW c \in failed, Belongs(c, a) PROVE FALSE
      <4>1. Linked(a, LocationOf(c))
        BY <1>0, <2>2, <3>1, BelongsLinked
      <4> QED
        BY <2>5, <4>1 DEF Linked
    <3> QED
      BY <3>1
  <2>7. lostParent => I.parent \notin up
    <3> SUFFICES ASSUME lostParent, I.parent \in up PROVE FALSE
      OBVIOUS
    <3>1. I.parent \in Agent /\ I.parent \notin conn[a]
      <4>1. I.parent \in Agent \cup {NoAgent}
        BY <1>3 DEF Info
      <4>2. PICK c \in failed : I.parent = LocationOf(c)
        OBVIOUS
      <4> QED
        BY <2>2, <2>5, <4>1, <4>2, Ids
    <3>2. Belongs(I.parent, a)
      BY <3>1 DEF Belongs
    <3>3. Linked(a, I.parent)
      BY <1>0, <3>1, <3>2 DEF Links, Joined
    <3> QED
      BY <3>1, <3>3 DEF Linked
  <2>8. J \in Info /\ J.parent = I.parent /\ J.peers = I.peers \ failed
    <3>1. J.peers = I.peers \ failed
      BY <1>3 DEF RemoveComps, Info
    <3> QED
      BY <1>3, <2>2, <3>1, RemoveCompsOK
  <2>13. ASSUME NEW l \in Location
         PROVE  /\ told(l) \in Seq(Message) /\ Inert(told(l))
                /\ cancels[l] \in Seq(Message) /\ Inert(cancels[l])
    <3>1. cancels \in [Location -> Seq(Message)] /\ \A k \in Location : Inert(cancels[k])
      BY CancelsType, InertBatches, InertCasts
    <3> DEFINE S == (catchers \ failed) \cap CompsAt(l)
    <3>2. S \in SUBSET Comp
      BY <1>4
    <3> HIDE DEF S
    <3>3. SetToSeq(S) \in Seq(S)
      BY <3>2, FiniteSubsets, Enumerations
    <3>4. SetToSeq(S) \in Seq(Comp)
      BY <3>2, <3>3
    <3>5. told(l) \in Seq(Message) /\ Inert(told(l))
      BY <1>1, <3>4, SequenceTypes, InertBatches DEF S
    <3> QED
      BY <3>1, <3>5
  <2>9. out \in [Location -> Seq(Message)] /\ \A k \in Location : Inert(out[k])
    <3> HIDE DEF cancels, told
    <3>3. ASSUME NEW l \in Location
          PROVE  told(l) \o cancels[l] \in Seq(Message) /\ Inert(told(l) \o cancels[l])
      <4> DEFINE s == told(l)
                 t == cancels[l]
      <4>1. s \in Seq(Message) /\ t \in Seq(Message) /\ Inert(s) /\ Inert(t)
        BY <2>13
      <4> HIDE DEF s, t
      <4>2. s \o t \in Seq(Message) /\ Inert(s \o t)
        BY <4>1, InertConcat
      <4> QED
        BY <4>2 DEF s, t
    <3> QED
      BY <3>3
  <2>10. \A m \in Mask : J.catchMap[m] = I.catchMap[m] \ failed /\ (m \in Emptied(I, J) => J.catchMap[m] = {})
    <3>1. I \in Info /\ TablesAgree(I)
      BY <1>0, TablesOK
    <3> HIDE DEF I
    <3> QED
      BY <2>2, <3>1, RemovedCatch
  <2>12. \A k \in Location : \A i \in DOMAIN out[k] : \A j \in Comp, m \in Mask :
           out[k][i] = CancelSub(j, m) => j = a /\ J.catchMap[m] = {}
    <3> SUFFICES ASSUME NEW k \in Location, NEW i \in DOMAIN out[k], NEW j \in Comp, NEW m \in Mask,
                        out[k][i] = CancelSub(j, m)
                 PROVE  j = a /\ J.catchMap[m] = {}
      OBVIOUS
    <3> DEFINE s == told(k)
               t == cancels[k]
    <3>1. s \in Seq(Message) /\ t \in Seq(Message)
      BY <2>13
    <3>2. out[k] = s \o t
      OBVIOUS
    <3>4. \A n \in DOMAIN s : s[n] # CancelSub(j, m)
      <4> DEFINE x == SetToSeq((catchers \ failed) \cap CompsAt(k))
      <4>1. s = Notifies(e, x)
        OBVIOUS
      <4> HIDE DEF x, s, e
      <4>2. \A n \in DOMAIN s : s[n].type = "NOTIFY"
        BY <4>1 DEF Notifies, Notify
      <4> QED
        BY <4>2, SubsDiffer
    <3>5. \A n \in DOMAIN t : t[n] = CancelSub(j, m) => j = a /\ J.catchMap[m] = {}
      <4>1. I \in Info /\ TablesAgree(I)
        BY <1>0, TablesOK
      <4> HIDE DEF I
      <4> QED
        BY <1>5, <2>2, <4>1, RemovedCancels
    <3> HIDE DEF s, t, out
    <3>6. MadeOf(out[k], s, t)
      BY <3>1, <3>2, MessageMembers
    <3> QED
      BY <3>4, <3>5, <3>6 DEF MadeOf
  <2> HIDE DEF J, out, errors, lostParent
  <2>11. Leaves(a, J, out, {}, lostParent)
    BY <1>1, <1>2, <2>3, <2>6, <2>7, <2>8, <2>9 DEF Leaves
  <2>14. Keeps(a, J, out)
    <3>1. \A k \in Comp, m \in Mask : Belongs(k, a) /\ k \in I.catchMap[m] => k \in J.catchMap[m]
      BY <2>6, <2>10
    <3>2. J.peers \subseteq I.peers /\ \A m \in Mask : J.catchMap[m] \subseteq I.catchMap[m]
      BY <2>8, <2>10
    <3>3. \A k, m : Head(queue[a]).msg # RegSub(k, m)
      BY <1>0, SubsDiffer DEF Takes
    <3> QED
      BY <1>0, <2>8, <2>12, <3>1, <3>2, <3>3, KeepsFewer
  <2> QED
    BY <2>1, <2>3, <2>11, <2>14 DEF Handled
<1>6. \E failed \in SUBSET doubtful :
        \E q \in SetToSeqs(Emptied(I, RemoveComps(I, failed))) :
          LET J == RemoveComps(I, failed)
              lost == {LocationOf(c) : c \in failed}
              told(l) == Notifies(e, SetToSeq((catchers \ failed) \cap CompsAt(l)))
          IN Finish(a, J,
                    [l \in Location |->
                       told(l) \o Cast(PropagateTo(J, NoAgent), CancelSubs(a, q))[l]],
                    {}, lost \cap conn[a], I.parent \in lost)
  BY DEF HandleNotify, catchers
<1> HIDE DEF I, e, doubtful
<1> QED
  BY <1>5, <1>6

-----------------------------------------------------------------------------
(* The reader.                                                             *)

(* A message leaves the stream it was at the head of, and joins the queue. *)
Moved(a, x) ==
  /\ net[x][a] \in Seq(Message) /\ net[x][a] # <<>> /\ queue[a] \in Seq(QueueEntry)
  /\ net'[x][a] = Tail(net[x][a])
  /\ \A l \in Location : \A k \in Location : l # x \/ k # a => net'[l][k] = net[l][k]
  /\ queue'[a] = Append(queue[a], Entry(x, Head(net[x][a])))
  /\ \A b \in Agent : b # a => queue'[b] = queue[b]

(* Grab does that.                                                         *)
LEMMA GrabMoves ==
  ASSUME IInv, NEW a \in Agent, NEW x \in Location, Grab(a, x)
  PROVE  Moved(a, x)
<1>1. /\ net \in [Location -> [Location -> Seq(Message)]] /\ queue \in [Agent -> Seq(QueueEntry)]
      /\ a \in Location /\ net[x][a] # <<>>
      /\ net' = [net EXCEPT ![x][a] = Tail(@)]
      /\ queue' = [queue EXCEPT ![a] = Append(@, [from |-> x, msg |-> Head(net[x][a])])]
  BY Ids DEF IInv, TypeOK, Grab
<1>2. net[x][a] \in Seq(Message) /\ queue[a] \in Seq(QueueEntry)
  BY <1>1
<1>3. /\ net'[x][a] = Tail(net[x][a])
      /\ \A l \in Location : \A k \in Location : l # x \/ k # a => net'[l][k] = net[l][k]
  BY <1>1
<1>4. /\ queue'[a] = Append(queue[a], Entry(x, Head(net[x][a])))
      /\ \A b \in Agent : b # a => queue'[b] = queue[b]
  BY <1>1 DEF Entry
<1> QED
  BY <1>1, <1>2, <1>3, <1>4 DEF Moved

(* Nothing is on its way but what was.                                     *)
LEMMA MovedWords ==
  ASSUME NEW a \in Agent, NEW x \in Location, Moved(a, x)
  PROVE  /\ \A l \in Location : \A k \in Location : \A m : Written(l, k, m)' => Written(l, k, m)
         /\ \A l \in Location : \A b \in Agent : \A m :
              Queued(l, b, m)' => \/ Queued(l, b, m)
                                  \/ l = x /\ b = a /\ m = Head(net[x][a]) /\ Written(x, a, m)
<1> DEFINE n == net[x][a]
           q == queue[a]
           e == Entry(x, Head(n))
<1>1. n \in Seq(Message) /\ n # <<>> /\ q \in Seq(QueueEntry) /\ net'[x][a] = Tail(n) /\ queue'[a] = Append(q, e)
  BY DEF Moved
<1> HIDE DEF n, q, e
<1>2. \A i \in DOMAIN Tail(n) : i + 1 \in DOMAIN n /\ Tail(n)[i] = n[i + 1]
  BY <1>1
<1>3. 1 \in DOMAIN n /\ n[1] = Head(n)
  BY <1>1
<1>4. \A i \in DOMAIN Append(q, e) : Append(q, e)[i] = e \/ (i \in DOMAIN q /\ Append(q, e)[i] = q[i])
  BY <1>1
<1>5. ASSUME NEW l \in Location, NEW k \in Location, NEW m, Written(l, k, m)'
      PROVE  Written(l, k, m)
  <2>1. CASE l # x \/ k # a
    BY <1>5, <2>1 DEF Moved, Written
  <2>2. CASE l = x /\ k = a
    BY <1>1, <1>2, <1>5, <2>2 DEF Written, n
  <2> QED
    BY <2>1, <2>2
<1>6. ASSUME NEW l \in Location, NEW b \in Agent, NEW m, Queued(l, b, m)'
      PROVE  \/ Queued(l, b, m)
             \/ l = x /\ b = a /\ m = Head(net[x][a]) /\ Written(x, a, m)
  <2>1. CASE b # a
    BY <1>6, <2>1 DEF Moved, Queued
  <2>2. CASE b = a
    <3>1. PICK i \in DOMAIN queue'[a] : queue'[a][i] = Entry(l, m)
      BY <1>6, <2>2 DEF Queued
    <3>2. CASE queue'[a][i] = e
      <4>1. l = x /\ m = Head(n)
        <5>1. Entry(l, m) = Entry(x, Head(n))
          BY <3>1, <3>2 DEF e
        <5> QED
          BY <5>1, EntriesDiffer
      <4> QED
        BY <1>3, <2>2, <4>1 DEF Written, n
    <3>3. CASE i \in DOMAIN q /\ queue'[a][i] = q[i]
      BY <2>2, <3>1, <3>3 DEF Queued, q
    <3> QED
      BY <1>1, <1>4, <3>1, <3>2, <3>3
  <2> QED
    BY <2>1, <2>2
<1> QED
  BY <1>5, <1>6

(* What is known of the connections holds after it: a connection is closed *)
(* only behind an end-of-file, which no process that runs has written.     *)
LEMMA GrabLinks ==
  ASSUME Standing, NEW a \in Agent, NEW x \in Location, Grab(a, x)
  PROVE  Links'
<1>1. /\ IInv /\ Links /\ a \in up /\ a \in Location /\ up \subseteq Location
      /\ conn \in [Location -> SUBSET Location]
  BY Ids DEF Standing, IInv, TypeOK, Grab
<1>2. Moved(a, x)
  BY <1>1, GrabMoves
<1>3. up' = up /\ gone' = gone /\ info' = info /\ attach' = attach /\ handles' = handles
  BY DEF Grab, app
<1>4. \A y \in Location : conn'[y] \subseteq conn[y]
  BY <1>1 DEF Grab
<1>5. \A c, d \in up : Linked(c, d) => Linked(c, d)'
  <2>1. CASE conn' = conn
    BY <2>1 DEF Linked
  <2>2. CASE Head(net[x][a]) = EOF /\ conn' = [conn EXCEPT ![a] = @ \ {x}]
    <3>1. Written(x, a, EOF)
      <4>1. net[x][a] \in Seq(Message) /\ net[x][a] # <<>>
        BY <1>2 DEF Moved
      <4>2. 1 \in DOMAIN net[x][a] /\ net[x][a][1] = Head(net[x][a])
        BY <4>1
      <4> QED
        BY <2>2, <4>2 DEF Written
    <3>2. x \notin up
      BY <1>1, <3>1 DEF Links, Open
    <3> QED
      BY <1>1, <2>2, <3>2 DEF Linked
  <2> QED
    BY <2>1, <2>2 DEF Grab
<1>6. up' \cap gone' = {} /\ NoSelf'
  BY <1>1, <1>3, <1>4 DEF Links, NoSelf
<1>7. Fresh'
  <2> SUFFICES ASSUME NEW y \in Location, y \notin up, y \notin gone
               PROVE  /\ conn'[y] = {}
                      /\ \A z \in Location : net'[y][z] = <<>> /\ net'[z][y] = <<>>
                      /\ \A b \in Agent : \A i \in DOMAIN queue'[b] : queue'[b][i].from # y
                      /\ y \in Agent => queue'[y] = <<>>
                      /\ \A b \in up \cap Agent : info[b].parent # y
                      /\ \A p \in up \cap Process : attach[p] # y
    BY <1>3 DEF Fresh
  <2>1. /\ conn[y] = {}
        /\ \A z \in Location : net[y][z] = <<>> /\ net[z][y] = <<>>
        /\ \A b \in Agent : \A i \in DOMAIN queue[b] : queue[b][i].from # y
        /\ y \in Agent => queue[y] = <<>>
        /\ \A b \in up \cap Agent : info[b].parent # y
        /\ \A p \in up \cap Process : attach[p] # y
    BY <1>1 DEF Links, Fresh
  <2>2. y # x /\ y # a
    BY <1>1, <1>2, <2>1 DEF Moved
  <2>3. conn'[y] = {}
    BY <1>4, <2>1
  <2>4. \A z \in Location : net'[y][z] = <<>> /\ net'[z][y] = <<>>
    BY <1>2, <2>1, <2>2 DEF Moved
  <2>5. ASSUME NEW b \in Agent, NEW i \in DOMAIN queue'[b] PROVE queue'[b][i].from # y
    <3>1. CASE b # a
      BY <1>2, <2>1, <2>5, <3>1 DEF Moved
    <3>2. CASE b = a
      <4> DEFINE q == queue[a]
                 e == Entry(x, Head(net[x][a]))
      <4>1. q \in Seq(QueueEntry) /\ queue'[a] = Append(q, e) /\ e.from = x
        BY <1>2 DEF Moved, Entry
      <4>2. \A j \in DOMAIN q : q[j].from # y
        BY <2>1
      <4> HIDE DEF q, e
      <4>3. i \in DOMAIN Append(q, e)
        BY <2>5, <3>2, <4>1
      <4>4. Append(q, e)[i] = e \/ (i \in DOMAIN q /\ Append(q, e)[i] = q[i])
        BY <4>1, <4>3
      <4> QED
        BY <2>2, <3>2, <4>1, <4>2, <4>4
    <3> QED
      BY <3>1, <3>2
  <2>6. y \in Agent => queue'[y] = <<>>
    BY <1>2, <2>1, <2>2 DEF Moved
  <2> QED
    BY <2>1, <2>3, <2>4, <2>5, <2>6
<1>8. Own'
  <2>1. \A l \in Location : \A id \in Comp : LocationOf(id) # l =>
          /\ \A k \in Location : ~ Written(l, k, Reg(id)) /\ ~ Written(l, k, Dereg(id))
          /\ \A b \in Agent : ~ Queued(l, b, Reg(id)) /\ ~ Queued(l, b, Dereg(id))
    BY <1>1 DEF Links, Own
  <2>2. \A l \in Location : \A id \in Comp : LocationOf(id) # l =>
          /\ \A k \in Location : ~ Written(l, k, Reg(id))' /\ ~ Written(l, k, Dereg(id))'
          /\ \A b \in Agent : ~ Queued(l, b, Reg(id))' /\ ~ Queued(l, b, Dereg(id))'
    BY <1>1, <1>2, <2>1, MovedWords
  <2> QED
    BY <2>2 DEF Own
<1>9. Open'
  <2>1. \A y, z \in up :
          /\ ~ Written(y, z, EOF) /\ ~ Written(y, z, Dereg(y))
          /\ z \in Agent => ~ Queued(y, z, EOF) /\ ~ Queued(y, z, Dereg(y))
    BY <1>1 DEF Links, Open
  <2>2. \A y, z \in up :
          /\ ~ Written(y, z, EOF)' /\ ~ Written(y, z, Dereg(y))'
          /\ z \in Agent => ~ Queued(y, z, EOF)' /\ ~ Queued(y, z, Dereg(y))'
    BY <1>1, <1>2, <2>1, MovedWords
  <2> QED
    BY <1>3, <2>2 DEF Open
<1>10. Joined'
  <2>1. \A b \in up \cap Agent, l \in up : Belongs(l, b)' <=> Belongs(l, b)
    BY <1>3 DEF Belongs
  <2>2. \A b \in up \cap Agent, l \in up : Belongs(l, b)' => Linked(b, l)'
    BY <1>1, <1>5, <2>1 DEF Links, Joined
  <2> QED
    BY <1>3, <2>2 DEF Joined
<1>11. OnlyAttached'
  <2> SUFFICES ASSUME NEW p \in up \cap Process, NEW b \in up \cap Agent, attach[p] # b
               PROVE  net'[p][b] = <<>>
    BY <1>3 DEF OnlyAttached
  <2>1. net[p][b] = <<>>
    BY <1>1 DEF Links, OnlyAttached
  <2>2. p # x \/ b # a
    BY <1>2, <2>1 DEF Moved
  <2> QED
    BY <1>1, <1>2, <2>1, <2>2 DEF Moved
<1> QED
  BY <1>6, <1>7, <1>8, <1>9, <1>10, <1>11 DEF Links

(* What is expected does not depend on where it is.                        *)
LEMMA GrabExpected ==
  ASSUME IInv, NEW a \in Agent, NEW x \in Location, Grab(a, x),
         NEW b \in Agent, NEW id \in Comp, NEW ends
  PROVE  ExpectedAt(id, b, ends)' <=> ExpectedAt(id, b, ends)
<1> DEFINE l == LocationOf(id)
           q == queue[a]
           c == id \in info[a].peers
           m == Head(net[x][a])
<1>1. Moved(a, x)
  BY GrabMoves
<1>2. l \in Location /\ a \in Location /\ b \in Location /\ info' = info
  BY Ids DEF Grab
<1>3. CASE b # a
  BY <1>1, <1>2, <1>3 DEF Moved, ExpectedAt
<1>4. CASE b = a /\ l # x
  <2>1. net'[l][a] = net[l][a] /\ queue'[a] = Append(q, Entry(x, m)) /\ q \in Seq(QueueEntry)
    BY <1>1, <1>2, <1>4 DEF Moved
  <2>2. m \in Message
    <3>1. net[x][a] \in Seq(Message) /\ net[x][a] # <<>>
      BY <1>1 DEF Moved
    <3> QED
      BY <3>1
  <2>3. c \in BOOLEAN
    OBVIOUS
  <2> HIDE DEF m, q, c
  <2>4. Expected(id, net[l][a], Append(q, Entry(x, m)), c, ends) <=> Expected(id, net[l][a], q, c, ends)
    BY <1>4, <2>1, <2>2, <2>3, ExpectedGrabOther
  <2> QED
    BY <1>2, <1>4, <2>1, <2>4 DEF ExpectedAt, q, c
<1>5. CASE b = a /\ l = x
  <2> DEFINE n == net[l][a]
  <2>1. /\ net'[l][a] = Tail(n) /\ queue'[a] = Append(q, Entry(l, Head(n))) /\ q \in Seq(QueueEntry)
        /\ n \in Seq(Message) /\ n # <<>> /\ c \in BOOLEAN
    BY <1>1, <1>5 DEF Moved
  <2> HIDE DEF n, q, c
  <2>2. Expected(id, Tail(n), Append(q, Entry(l, Head(n))), c, ends) <=> Expected(id, n, q, c, ends)
    BY <1>2, <2>1, ExpectedGrab
  <2> QED
    BY <1>2, <1>5, <2>1, <2>2 DEF ExpectedAt, q, c, n
<1> QED
  BY <1>3, <1>4, <1>5

(* Reading a connection keeps the peers accounted for.                     *)
LEMMA GrabPeers ==
  ASSUME Standing, NEW a \in Agent, NEW x \in Location, Grab(a, x)
  PROVE  PeersKept
<1>1. IInv /\ Accounted /\ LastWords /\ Moved(a, x) /\ a \in Location
  BY GrabMoves, Ids DEF Standing
<1>2. up' = up /\ info' = info /\ attach' = attach /\ handles' = handles
  BY DEF Grab, app
<1>3. Links'
  BY GrabLinks
<1>4. Accounted'
  <2> SUFFICES ASSUME NEW b \in up \cap Agent, NEW id \in Comp
               PROVE  ExpectedAt(id, b, {Dereg(id), EOF})' <=> Belongs(id, b)'
    BY <1>2 DEF Accounted
  <2>1. ExpectedAt(id, b, {Dereg(id), EOF}) <=> Belongs(id, b)
    BY <1>1 DEF Accounted
  <2>2. Belongs(id, b)' <=> Belongs(id, b)
    BY <1>2 DEF Belongs
  <2> QED
    BY <1>1, <2>1, <2>2, GrabExpected
<1>5. LastWords'
  <2> SUFFICES ASSUME NEW b \in up \cap Agent, NEW l \in Location
               PROVE  /\ \A i, j \in DOMAIN net'[l][b] :
                            i < j /\ net'[l][b][i] = Dereg(l) => net'[l][b][j] = EOF
                      /\ Queued(l, b, Dereg(l))' => \A j \in DOMAIN net'[l][b] : net'[l][b][j] = EOF
                      /\ Written(l, b, Dereg(l))' \/ Queued(l, b, Dereg(l))' =>
                           \A id \in CompsAt(l) : ~ ExpectedAt(id, b, {Dereg(id)})'
    BY <1>2 DEF LastWords
  <2>1. /\ \A i, j \in DOMAIN net[l][b] :
             i < j /\ net[l][b][i] = Dereg(l) => net[l][b][j] = EOF
        /\ Queued(l, b, Dereg(l)) => \A j \in DOMAIN net[l][b] : net[l][b][j] = EOF
        /\ Written(l, b, Dereg(l)) \/ Queued(l, b, Dereg(l)) =>
             \A id \in CompsAt(l) : ~ ExpectedAt(id, b, {Dereg(id)})
    BY <1>1 DEF LastWords
  <2>2. \A id \in CompsAt(l) : ExpectedAt(id, b, {Dereg(id)})' <=> ExpectedAt(id, b, {Dereg(id)})
    BY <1>1, GrabExpected DEF CompsAt
  <2>3. /\ Written(l, b, Dereg(l))' => Written(l, b, Dereg(l))
        /\ Queued(l, b, Dereg(l))' => \/ Queued(l, b, Dereg(l))
                                      \/ l = x /\ b = a /\ Dereg(l) = Head(net[x][a]) /\ Written(l, b, Dereg(l))
    BY <1>1, Ids, MovedWords
  <2>4. CASE l # x \/ b # a
    <3>1. net'[l][b] = net[l][b]
      BY <1>1, <2>4, Ids DEF Moved
    <3> QED
      BY <2>1, <2>2, <2>3, <2>4, <3>1
  <2>5. CASE l = x /\ b = a
    <3> DEFINE n == net[l][b]
    <3>1. n \in Seq(Message) /\ n # <<>> /\ net'[l][b] = Tail(n)
      BY <1>1, <2>5 DEF Moved
    <3>2. /\ \A i, j \in DOMAIN n : i < j /\ n[i] = Dereg(l) => n[j] = EOF
          /\ Queued(l, b, Dereg(l)) => \A j \in DOMAIN n : n[j] = EOF
      BY <2>1
    <3>3. Queued(l, b, Dereg(l))' => Queued(l, b, Dereg(l)) \/ Dereg(l) = Head(n)
      BY <2>3, <2>5
    <3> HIDE DEF n
    <3>4. \A i \in DOMAIN Tail(n) : i \in Nat /\ i + 1 \in DOMAIN n /\ Tail(n)[i] = n[i + 1] /\ i + 1 > 1
      BY <3>1
    <3>5. 1 \in DOMAIN n /\ n[1] = Head(n)
      BY <3>1
    <3>6. \A i, j \in DOMAIN Tail(n) : i < j /\ Tail(n)[i] = Dereg(l) => Tail(n)[j] = EOF
      <4> SUFFICES ASSUME NEW i \in DOMAIN Tail(n), NEW j \in DOMAIN Tail(n), i < j, Tail(n)[i] = Dereg(l)
                   PROVE  Tail(n)[j] = EOF
        OBVIOUS
      <4>1. i + 1 < j + 1
        BY <3>4
      <4> QED
        BY <3>2, <3>4, <4>1
    <3>7. Queued(l, b, Dereg(l))' => \A j \in DOMAIN Tail(n) : Tail(n)[j] = EOF
      BY <3>2, <3>3, <3>4, <3>5
    <3> QED
      BY <2>1, <2>2, <2>3, <3>1, <3>6, <3>7
  <2> QED
    BY <2>4, <2>5
<1> QED
  BY <1>3, <1>4, <1>5 DEF PeersKept

-----------------------------------------------------------------------------
(* An agent starts.                                                        *)

(* Nothing is on its way to it; its parent is its only peer; it knows of   *)
(* no subscription, and cancels none.                                      *)
Started(a, p, sent) ==
  /\ p \in Offers(a) /\ info'[a].parent = p
  /\ info'[a].peers = {p} \cap Agent
  /\ \A m \in Mask : info'[a].catchMap[m] = {}
  /\ \A k \in Location : \A i \in DOMAIN sent[k] : \A id, m : sent[k][i] # CancelSub(id, m)
  /\ UNCHANGED <<queue, attach, handles, subs>>

(* An agent that starts greets the parent it is offered.                   *)
LEMMA StartMove ==
  ASSUME Standing, NEW a \in Agent, StartAgent(a)
  PROVE  \E p, sent : /\ Move(a, sent, {}, p) /\ AgentTells(a, sent, p)
                      /\ Started(a, p, sent)
<1>1. /\ a \notin up /\ a \notin gone /\ up' = up \cup {a} /\ Join(a, EmptyInfo, Silence, {})
      /\ gone' = gone /\ queue' = queue /\ attach' = attach /\ handles' = handles /\ subs' = subs
      /\ info \in [Agent -> Info]
      /\ a \in Location /\ a \notin Process
  BY Ids, IdsAreDistinct DEF StartAgent, app, Standing, IInv, TypeOK
<1>2. PICK p \in Offers(a), q \in SetToSeqs(CaughtMasks(EmptyInfo)) :
        LET greeting == IF p \in EmptyInfo.peers THEN <<Reg(a)>> ELSE <<Reg(a)>> \o RegSubs(a, q)
        IN /\ info' = [info EXCEPT ![a] = IF p = NoAgent
                                          THEN [EmptyInfo EXCEPT !.parent = NoAgent]
                                          ELSE AddParent(EmptyInfo, p)]
           /\ NetStep(a, [l \in Location |-> IF l = p THEN Silence[l] \o greeting ELSE Silence[l]],
                      {}, p)
  BY <1>1 DEF Join
<1>3. p = NoAgent \/ (p \in up \cap Agent /\ p # a)
  BY <1>1 DEF Offers
<1>4. \A b \in Agent \ {a} : info'[b] = info[b] /\ queue'[b] = queue[b]
  BY <1>1, <1>2
<1>5. EmptyInfo \in Info /\ EmptyInfo.peers = {} /\ \A m \in Mask : EmptyInfo.catchMap[m] = {}
  BY EmptyInfoOK DEF EmptyInfo
<1>6. Silence \in [Location -> Seq(Message)] /\ \A k \in Location : Inert(Silence[k])
  BY SilenceType, InertCasts
<1>7. QueuesShrink
  BY <1>1 DEF QueuesShrink
<1>8. CASE p = NoAgent
  <2>1. info'[a] = [EmptyInfo EXCEPT !.parent = NoAgent]
    BY <1>1, <1>2, <1>8
  <2>2. info'[a].parent = p /\ info'[a].peers = {p} \cap Agent /\ \A m \in Mask : info'[a].catchMap[m] = {}
    BY <1>5, <1>8, <2>1, Ids DEF Info
  <2>3. NetStep(a, Silence, {}, p)
    <3> DEFINE greeting == IF p \in EmptyInfo.peers THEN <<Reg(a)>> ELSE <<Reg(a)>> \o RegSubs(a, q)
    <3>1. NetStep(a, [l \in Location |-> IF l = p THEN Silence[l] \o greeting ELSE Silence[l]], {}, p)
      BY <1>2
    <3> HIDE DEF greeting
    <3>2. \A l \in Location : l # p
      BY <1>8, Ids
    <3>3. [l \in Location |-> IF l = p THEN Silence[l] \o greeting ELSE Silence[l]] = Silence
      BY <1>6, <3>2
    <3> QED
      BY <3>1, <3>3
  <2>4. Sends(a, Silence) /\ AgentTells(a, Silence, p)
    <3>1. \A k \in Location : \A i \in DOMAIN Silence[k] :
            Silence[k][i] # EOF /\ \A id : Silence[k][i] # Reg(id) /\ Silence[k][i] # Dereg(id)
      BY <1>6, InertMessages
    <3> QED
      BY <1>1, <1>6, <1>8, <3>1 DEF Sends, AgentTells
  <2>5. Move(a, Silence, {}, p)
    BY <1>1, <1>3, <1>4, <1>7, <1>8, <2>2, <2>3, <2>4 DEF Move
  <2>6. \A k \in Location : \A i \in DOMAIN Silence[k] : \A id, m : Silence[k][i] # CancelSub(id, m)
    BY CastMembers
  <2>7. Started(a, p, Silence)
    BY <1>1, <1>2, <2>2, <2>6 DEF Started
  <2> QED
    BY <2>4, <2>5, <2>7
<1>9. CASE p # NoAgent
  <2> DEFINE sent == Greeting(a, p, Silence, RegSubs(a, q))
  <2>1. info'[a] = AddParent(EmptyInfo, p)
    BY <1>1, <1>2, <1>9
  <2>2. info'[a].parent = p /\ info'[a].peers = {p} \cap Agent /\ \A m \in Mask : info'[a].catchMap[m] = {}
    BY <1>3, <1>5, <1>9, <2>1 DEF Info, AddParent, AddPeer
  <2>3. RegSubs(a, q) \in Seq(Message) /\ Inert(RegSubs(a, q))
    <3>1. q \in Seq(Mask)
      BY MaskOrders DEF CaughtMasks
    <3> QED
      BY <1>1, <3>1, Ids, SequenceTypes, InertBatches
  <2>4. NetStep(a, sent, {}, p)
    <3>1. p \notin EmptyInfo.peers
      BY <1>5
    <3> QED
      BY <1>2, <3>1 DEF Greeting
  <2>5. Greets(a, p, sent)
    BY <1>3, <1>6, <1>9, <2>3, GreetingTells
  <2>9. \A k \in Location : \A i \in DOMAIN sent[k] : \A id, m : sent[k][i] # CancelSub(id, m)
    <3> SUFFICES ASSUME NEW k \in Location, NEW i \in DOMAIN sent[k]
                 PROVE  \A id, m : sent[k][i] # CancelSub(id, m)
      OBVIOUS
    <3> DEFINE t == RegSubs(a, q)
               g == <<Reg(a)>>
    <3>1. /\ \A j \in DOMAIN g : \A id, m : g[j] # CancelSub(id, m)
          /\ \A j \in DOMAIN t : \A id, m : t[j] # CancelSub(id, m)
      BY SubsDiffer, BatchesOf DEF CaughtMasks
    <3>2. g \in Seq(Message) /\ t \in Seq(Message) /\ Silence[k] \in Seq(Message)
      BY <1>1, <1>6, <2>3, Ids, MessageTypes
    <3>3. sent[k] = IF k = p THEN Silence[k] \o (g \o t) ELSE Silence[k]
      BY DEF Greeting
    <3>4. \A j \in DOMAIN Silence[k] : FALSE
      BY CastMembers
    <3> HIDE DEF sent, t, g
    <3>5. MadeOf(g \o t, g, t) /\ g \o t \in Seq(Message)
      BY <3>2, MessageMembers
    <3>6. MadeOf(Silence[k] \o (g \o t), Silence[k], g \o t)
      BY <3>2, <3>5, MessageMembers
    <3>7. CASE k = p
      <4>1. sent[k] = Silence[k] \o (g \o t)
        BY <3>3, <3>7
      <4>2. \A j \in DOMAIN (g \o t) : \A id, m : (g \o t)[j] # CancelSub(id, m)
        BY <3>1, <3>5 DEF MadeOf
      <4>3. PICK u : u = Silence[k] \o (g \o t)
        OBVIOUS
      <4>4. \A j \in DOMAIN u : \E n \in DOMAIN (g \o t) : u[j] = (g \o t)[n]
        BY <3>4, <3>6, <4>3 DEF MadeOf
      <4>5. i \in DOMAIN u /\ u[i] = sent[k][i]
        BY <4>1, <4>3
      <4>6. PICK n \in DOMAIN (g \o t) : u[i] = (g \o t)[n]
        BY <4>4, <4>5
      <4> QED
        BY <4>2, <4>5, <4>6
    <3>8. CASE k # p
      BY <3>3, <3>4, <3>8
    <3> QED
      BY <3>7, <3>8
  <2> HIDE DEF sent
  <2>6. AgentTells(a, sent, p)
    BY <1>1, <2>5 DEF AgentTells, Greets
  <2>7. Sends(a, sent)
    BY <2>5 DEF Greets
  <2>8. Move(a, sent, {}, p)
    BY <1>1, <1>3, <1>4, <1>7, <2>2, <2>4, <2>7 DEF Move
  <2>10. Started(a, p, sent)
    BY <1>1, <1>2, <2>2, <2>9 DEF Started
  <2> QED
    BY <2>6, <2>8, <2>10
<1> QED
  BY <1>8, <1>9

(* Starting an agent keeps the peers accounted for.                        *)
LEMMA StartAgentPeers ==
  ASSUME Standing, NEW a \in Agent, StartAgent(a)
  PROVE  PeersKept
<1>1. PICK p, sent : Move(a, sent, {}, p) /\ AgentTells(a, sent, p) /\ Started(a, p, sent)
  BY StartMove
<1>2. /\ IInv /\ TypeOK /\ Links /\ Accounted /\ a \in Location /\ a \notin up /\ a \notin gone
      /\ up' = up \cup {a} /\ NetStep(a, sent, {}, p) /\ sent \in [Location -> Seq(Message)]
      /\ p = NoAgent \/ (p \in up \cap Agent /\ p # a)
  BY <1>1, Ids DEF Standing, IInv, StartAgent, Move, Sends
<1>3. /\ \A l \in Location : net[a][l] = <<>> /\ net[l][a] = <<>>
      /\ queue[a] = <<>> /\ conn[a] = {}
      /\ \A b \in up \cap Agent : info[b].parent # a
      /\ \A y \in up \cap Process : attach[y] # a
  BY <1>2 DEF Links, Fresh
<1>4. queue'[a] = <<>> /\ \A l \in Location : net'[l][a] = <<>>
  <2>1. NetEffect(a, sent, {}, p)
    BY <1>2, NetFacts
  <2>2. ~ Linked(a, a) /\ a # p
    BY <1>2, <1>3, Ids DEF Linked
  <2>3. net'[a][a] = <<>>
    BY <1>2, <1>3, <2>1, <2>2 DEF NetEffect
  <2>4. \A l \in Location : l # a => net'[l][a] = <<>>
    BY <1>2, <1>3, <2>1 DEF NetEffect
  <2> QED
    BY <1>1, <1>3, <2>3, <2>4 DEF Started
<1>5. Links'
  BY <1>1, <1>2, MoveLinks DEF Standing
<1>6. DOMAIN <<>> = {}
  OBVIOUS
<1>7. Accounted'
  <2> SUFFICES ASSUME NEW b \in up' \cap Agent, NEW id \in Comp
               PROVE  ExpectedAt(id, b, {Dereg(id), EOF})' <=> Belongs(id, b)'
    BY DEF Accounted
  <2>1. CASE b # a /\ LocationOf(id) # a
    <3>1. ExpectedAt(id, b, {Dereg(id), EOF}) <=> Belongs(id, b)
      BY <1>2, <2>1 DEF Accounted
    <3> QED
      BY <1>1, <2>1, <3>1, MoveElsewhere
  <2>2. CASE b # a /\ LocationOf(id) = a
    <3>1. id = a /\ b \in up
      BY <1>2, <2>2, IdsAreDistinct, HostOfType DEF LocationOf
    <3> QED
      BY <1>1, <2>2, <3>1, AgentMoveOthers
  <2>3. CASE b = a
    <3>1. LocationOf(id) \in Location
      BY Ids
    <3>2. ExpectedAt(id, a, {Dereg(id), EOF})'
            <=> Expected(id, <<>>, <<>>, id \in info'[a].peers, {Dereg(id), EOF})
      BY <1>4, <3>1 DEF ExpectedAt
    <3>3. ExpectedAt(id, a, {Dereg(id), EOF})' <=> id \in info'[a].peers
      <4>1. (id \in info'[a].peers) \in BOOLEAN
        OBVIOUS
      <4> QED
        BY <1>6, <3>2, <4>1, ExpectedNow
    <3>4. id \in info'[a].peers <=> id = p /\ p # NoAgent
      BY <1>1, <1>2, Ids DEF Started
    <3>5. \A c \in handles : HostOf[c] \in up \cap Process
      BY <1>2, HostOfType DEF IInv, TypeOK, Attached
    <3>6. \A k \in Agent : k # a => info'[k] = info[k]
      BY <1>1 DEF Move
    <3>7. Belongs(id, a)' <=> id = p /\ p # NoAgent
      <4>1. id \in up' \cap Agent => (info'[id].parent = a <=> FALSE)
        <5>1. CASE id = a
          BY <1>1, <1>2, <5>1, Ids DEF Started
        <5>2. CASE id # a
          BY <1>2, <1>3, <3>6, <5>2
        <5> QED
          BY <5>1, <5>2
      <4>2. id \in up' \cap Process => attach'[id] # a
        <5>1. id \in up' \cap Process => id \in up
          BY <1>2, IdsAreDistinct
        <5> QED
          BY <1>1, <1>3, <5>1 DEF Started
      <4>3. id \in handles' => attach'[HostOf[id]] # a
        BY <1>1, <1>3, <3>5 DEF Started
      <4> QED
        BY <1>1, <1>2, <4>1, <4>2, <4>3, Ids DEF Belongs, Started
    <3> QED
      BY <2>3, <3>3, <3>4, <3>7
  <2> QED
    BY <2>1, <2>2, <2>3
<1>8. LastWords'
  <2> SUFFICES ASSUME NEW b \in up' \cap Agent, NEW l \in Location
               PROVE  /\ \A i, j \in DOMAIN net'[l][b] :
                            i < j /\ net'[l][b][i] = Dereg(l) => net'[l][b][j] = EOF
                      /\ Queued(l, b, Dereg(l))' => \A j \in DOMAIN net'[l][b] : net'[l][b][j] = EOF
                      /\ Written(l, b, Dereg(l))' \/ Queued(l, b, Dereg(l))' =>
                           \A id \in CompsAt(l) : ~ ExpectedAt(id, b, {Dereg(id)})'
    BY DEF LastWords
  <2>1. CASE b # a
    BY <1>1, <1>5, <2>1, MoveLastWords
  <2>2. CASE b = a
    BY <1>4, <1>6, <2>2 DEF Written, Queued
  <2> QED
    BY <2>1, <2>2
<1> QED
  BY <1>5, <1>7, <1>8 DEF PeersKept

-----------------------------------------------------------------------------
(* The client processes.                                                   *)

(* Which of its own components a process has at an agent.                  *)
LEMMA OwnBelongs ==
  ASSUME IInv, IInv', NEW x \in Process, NEW b \in Agent, NEW id \in CompsAt(x)
  PROVE  /\ Belongs(id, b) <=> attach[x] = b /\ ((id = x /\ x \in up) \/ id \in handles)
         /\ Belongs(id, b)' <=> attach'[x] = b /\ ((id = x /\ x \in up') \/ id \in handles')
         /\ x \notin up => id \notin handles
         /\ (id = x /\ id \notin handles /\ id \notin handles') \/ (id \in Client /\ id # x)
<1>1. /\ id \in Comp /\ id \notin Agent /\ (id \in Client => HostOf[id] = x)
      /\ (id \in Process => id = x) /\ x \notin Client /\ (id \in Client \/ id \in Process)
  BY IdsAreDistinct DEF CompsAt, LocationOf, Comp
<1>2. handles \subseteq Client /\ handles' \subseteq Client
  BY DEF IInv, TypeOK
<1>3. \A c \in handles : HostOf[c] \in up
  BY DEF IInv, Attached
<1> QED
  BY <1>1, <1>2, <1>3 DEF Belongs

(* A process of its own agent says nothing of anybody else, and goes on.   *)
Said(p, ms) ==
  /\ ms \in Seq(Message)
  /\ \A i \in DOMAIN ms : \A id \in Comp :
       ms[i] # EOF /\ ms[i] # Dereg(p) /\ (ms[i] \in {Reg(id), Dereg(id)} => LocationOf(id) = p)

(* Such messages are its own to send.                                      *)
LEMMA SaidSends ==
  ASSUME NEW p \in Process, NEW ms, Said(p, ms), NEW b
  PROVE  Sends(p, Cast({b}, ms))
<1>1. ms \in Seq(Message)
  BY DEF Said
<1>2. Cast({b}, ms) \in [Location -> Seq(Message)]
  BY <1>1, CastType
<1>3. \A k \in Location : \A i \in DOMAIN Cast({b}, ms)[k] : i \in DOMAIN ms /\ Cast({b}, ms)[k][i] = ms[i]
  <2>1. DOMAIN <<>> = {}
    OBVIOUS
  <2> QED
    BY <2>1 DEF Cast
<1>4. p \in Comp
  BY Ids
<1> QED
  BY <1>2, <1>3, <1>4 DEF Sends, Said

(* FTBM_Send of a client process is such a step.                           *)
LEMMA SendUpMove ==
  ASSUME Standing, NEW p \in up \cap Process, NEW ms, Said(p, ms), SendUp(p, ms),
         \A c \in Client : HostOf[c] # p => (c \in handles' <=> c \in handles)
  PROVE  Move(p, Cast({attach[p]}, ms), {}, NoAgent)
<1>1. /\ p \in Location /\ p \notin gone /\ p \notin Agent
      /\ up' = up /\ gone' = gone /\ info' = info /\ queue' = queue /\ attach' = attach
      /\ NetStep(p, Cast({attach[p]}, ms), {}, NoAgent)
  BY Ids, IdsAreDistinct DEF Standing, Links, SendUp
<1>2. Sends(p, Cast({attach[p]}, ms))
  BY SaidSends
<1>3. QueuesShrink
  BY <1>1 DEF QueuesShrink
<1>4. \A b \in Location \ {attach'[p]} : Cast({attach[p]}, ms)[b] = <<>>
  BY <1>1 DEF Cast
<1> QED
  BY <1>1, <1>2, <1>3, <1>4 DEF Move

(* The invariant is kept if what is said is what becomes of its handles.   *)
LEMMA SendUpPeers ==
  ASSUME Standing, NEW p \in up \cap Process, NEW ms, Said(p, ms), SendUp(p, ms),
         \A c \in Client : HostOf[c] # p => (c \in handles' <=> c \in handles),
         \A id \in CompsAt(p) : \A b \in BOOLEAN :
            (b <=> id = p \/ id \in handles)
              => (Turned(ms, {Reg(id)}, {Dereg(id), EOF}, b) <=> id = p \/ id \in handles')
  PROVE  PeersKept
<1> DEFINE sent == Cast({attach[p]}, ms)
<1>1. Move(p, sent, {}, NoAgent)
  BY SendUpMove
<1>2. attach' = attach /\ up' = up
  BY DEF SendUp
<1>3. Tells(p, sent)
  <2> SUFFICES ASSUME NEW b \in up \cap Agent, attach'[p] = b, NEW id \in CompsAt(p)
               PROVE  Turned(sent[b], {Reg(id)}, {Dereg(id), EOF}, Belongs(id, b)) <=> Belongs(id, b)'
    BY DEF Tells
  <2>1. sent[b] = ms
    BY <1>2, Ids DEF Cast
  <2>2. /\ Belongs(id, b) <=> id = p \/ id \in handles
        /\ Belongs(id, b)' <=> id = p \/ id \in handles'
    BY <1>2, OwnBelongs DEF Standing
  <2>3. Belongs(id, b) \in BOOLEAN
    BY DEF Belongs
  <2> HIDE DEF sent
  <2> QED
    BY <2>1, <2>2, <2>3
<1> HIDE DEF sent
<1>4. Links' /\ Accounted' /\ LastWords'
  BY <1>1, <1>3, ProcessMove
<1> QED
  BY <1>4 DEF PeersKept

(* Subscribing, unsubscribing and publishing change no peers.              *)
LEMMA InertSendUpPeers ==
  ASSUME Standing, NEW p \in up \cap Process, NEW ms \in Seq(Message), Inert(ms), SendUp(p, ms),
         handles' = handles
  PROVE  PeersKept
<1>1. \A i \in DOMAIN ms : ms[i] # EOF /\ \A id : ms[i] # Reg(id) /\ ms[i] # Dereg(id)
  BY InertMessages
<1>2. Said(p, ms)
  BY <1>1 DEF Said
<1>3. ASSUME NEW id \in CompsAt(p), NEW b \in BOOLEAN, b <=> id = p \/ id \in handles
      PROVE  Turned(ms, {Reg(id)}, {Dereg(id), EOF}, b) <=> id = p \/ id \in handles'
  <2>1. \A i \in DOMAIN ms : ms[i] \notin {Reg(id)} /\ ms[i] \notin {Dereg(id), EOF}
    BY <1>1
  <2>2. Turned(ms, {Reg(id)}, {Dereg(id), EOF}, b) <=> b
    BY <2>1, TurnedInert
  <2> QED
    BY <1>3, <2>2
<1> QED
  BY <1>2, <1>3, SendUpPeers

(* Subscribing registers and deregisters nobody,                           *)
LEMMA SubscribePeers ==
  ASSUME Standing, NEW c \in Client, NEW m \in Mask, Subscribe(c, m)
  PROVE  PeersKept
<1>1. c \in handles /\ HostOf[c] \in up \cap Process /\ c \in Comp
  BY HostRuns DEF Subscribe, Comp, Standing
<1> DEFINE ms == <<RegSub(c, m)>>
<1>2. ms \in Seq(Message)
  BY <1>1, MessageTypes
<1>3. Inert(ms)
  BY DEF Inert, RegSub
<1>4. SendUp(HostOf[c], ms) /\ handles' = handles
  BY DEF Subscribe
<1> HIDE DEF ms
<1> QED
  BY <1>1, <1>2, <1>3, <1>4, InertSendUpPeers

(* nor does a cancel,                                                      *)
LEMMA UnsubscribePeers ==
  ASSUME Standing, NEW c \in Client, NEW m \in Mask, Unsubscribe(c, m)
  PROVE  PeersKept
<1>1. c \in handles /\ HostOf[c] \in up \cap Process /\ c \in Comp
  BY HostRuns DEF Unsubscribe, Comp, Standing
<1> DEFINE ms == <<CancelSub(c, m)>>
<1>2. ms \in Seq(Message)
  BY <1>1, MessageTypes
<1>3. Inert(ms)
  BY DEF Inert, CancelSub
<1>4. SendUp(HostOf[c], ms) /\ handles' = handles
  BY DEF Unsubscribe
<1> HIDE DEF ms
<1> QED
  BY <1>1, <1>2, <1>3, <1>4, InertSendUpPeers

(* nor an event.                                                           *)
LEMMA PublishPeers ==
  ASSUME Standing, NEW c \in Client, NEW e \in Event, Publish(c, e)
  PROVE  PeersKept
<1> DEFINE p == HostOf[c]
           ms == <<Notify(e, attach[p])>>
<1>1. p \in up \cap Process /\ attach[p] \in Comp
  BY HostRuns, Ids DEF Publish, Standing
<1>2. ms \in Seq(Message) /\ Inert(ms)
  <2>1. ms \in Seq(Message)
    BY <1>1, MessageTypes
  <2>2. Inert(ms)
    BY DEF Inert, Notify
  <2> QED
    BY <2>1, <2>2
<1>3. SendUp(p, ms) /\ handles' = handles
  BY DEF Publish
<1> HIDE DEF ms
<1> QED
  BY <1>1, <1>2, <1>3, InertSendUpPeers

(* The first handle of a process connects it to an agent, and registers    *)
(* behind it.                                                              *)
LEMMA ConnectFirst ==
  ASSUME Standing, NEW c \in Client, Connect(c), HostOf[c] \notin up
  PROVE  \E a \in up \cap Agent :
           LET sent == Cast({a}, <<Reg(HostOf[c]), Reg(c)>>)
           IN Move(HostOf[c], sent, {}, a) /\ Tells(HostOf[c], sent) /\ attach'[HostOf[c]] = a
<1> DEFINE p == HostOf[c]
<1>1. /\ p \in Process /\ p \in Location /\ p \in Comp /\ c \in Comp /\ c # p /\ c \notin handles
      /\ p \notin gone /\ handles' = handles \cup {c} /\ IInv /\ IInv' /\ Links
      /\ LocationOf(c) = p /\ LocationOf(p) = p /\ p \notin Agent
  BY HostOfType, Ids, IdsAreDistinct DEF Comp, Connect, LocationOf, Standing
<1>2. \A d \in Client : HostOf[d] # p => (d \in handles' <=> d \in handles)
  BY <1>1
<1>3. PICK a \in AgentsFor(p) :
        /\ attach' = [attach EXCEPT ![p] = a]
        /\ NetStep(p, Cast({a}, <<Reg(p), Reg(c)>>), {}, a)
        /\ up' = up \cup {p}
        /\ UNCHANGED <<gone, info, queue, faults, writeErrors>>
  BY DEF Connect, SendUp
<1>4. \E d \in up \cap Agent :
        LET says == Cast({d}, <<Reg(p), Reg(c)>>)
        IN Move(p, says, {}, d) /\ Tells(p, says) /\ attach'[p] = d
  <2> DEFINE ms == <<Reg(p), Reg(c)>>
             sent == Cast({a}, ms)
  <2>1. ms \in Seq(Message) /\ DOMAIN ms = {1, 2} /\ ms[1] = Reg(p) /\ ms[2] = Reg(c)
    BY <1>1, MessageTypes
  <2>2. a \in up \cap Agent /\ a # p /\ a # NoAgent
    <3>1. a \in Agent
      BY <1>1, AgentsForType DEF IInv, TypeOK
    <3>2. a \in up
      BY DEF AgentsFor
    <3> QED
      BY <1>1, <3>1, <3>2, Ids
  <2>3. attach'[p] = a /\ \A q \in Process \ {p} : attach'[q] = attach[q]
    BY <1>1, <1>3 DEF IInv, TypeOK
  <2>4. Said(p, ms)
    BY <1>1, <2>1, MessagesDiffer DEF Said
  <2>5. Sends(p, sent)
    BY <1>1, <2>4, SaidSends
  <2>6. \A b \in Location : sent[b] = IF b = a THEN ms ELSE <<>>
    BY DEF Cast
  <2>7. NetStep(p, sent, {}, a)
    BY <1>3
  <2> HIDE DEF sent
  <2>8. Move(p, sent, {}, a)
    <3>1. QueuesShrink
      BY <1>3 DEF QueuesShrink
    <3> QED
      BY <1>1, <1>2, <1>3, <2>2, <2>3, <2>5, <2>6, <2>7, <3>1 DEF Move
  <2>9. Tells(p, sent)
    <3> SUFFICES ASSUME NEW b \in up \cap Agent, attach'[p] = b, NEW id \in CompsAt(p)
                 PROVE  Turned(sent[b], {Reg(id)}, {Dereg(id), EOF}, Belongs(id, b)) <=> Belongs(id, b)'
      BY DEF Tells
    <3>1. b = a /\ sent[b] = ms
      BY <2>2, <2>3, <2>6, Ids
    <3>2. ~ Belongs(id, b) /\ (Belongs(id, b)' <=> id = p \/ id = c)
      BY <1>1, <1>3, <2>3, <3>1, OwnBelongs
    <3>3. id = p \/ id = c => Turned(ms, {Reg(id)}, {Dereg(id), EOF}, Belongs(id, b))
      <4>1. \A k \in DOMAIN ms : ms[k] \notin {Dereg(id), EOF}
        BY <2>1, MessagesDiffer
      <4>2. id = p => ms[1] \in {Reg(id)}
        BY <2>1
      <4>3. id = c => ms[2] \in {Reg(id)}
        BY <2>1
      <4> HIDE DEF ms
      <4> QED
        BY <2>1, <4>1, <4>2, <4>3 DEF Turned
    <3>4. Turned(ms, {Reg(id)}, {Dereg(id), EOF}, Belongs(id, b)) => id = p \/ id = c
      <4> SUFFICES ASSUME id # p, id # c
                   PROVE  ~ Turned(ms, {Reg(id)}, {Dereg(id), EOF}, Belongs(id, b))
        OBVIOUS
      <4>1. \A k \in DOMAIN ms : ms[k] \notin {Reg(id)}
        BY <2>1, MessagesDiffer
      <4> HIDE DEF ms
      <4> QED
        BY <3>2, <4>1 DEF Turned
    <3> HIDE DEF ms
    <3> QED
      BY <3>1, <3>2, <3>3, <3>4
  <2> QED
    BY <2>2, <2>3, <2>8, <2>9 DEF sent, ms
<1> QED
  BY <1>4

(* A handle is registered,                                                 *)
LEMMA ConnectPeers ==
  ASSUME Standing, NEW c \in Client, Connect(c)
  PROVE  PeersKept
<1> DEFINE p == HostOf[c]
<1>1. /\ p \in Process /\ p \in Location /\ p \in Comp /\ c \in Comp /\ c # p /\ c \notin handles
      /\ p \notin gone /\ handles' = handles \cup {c} /\ IInv /\ IInv' /\ Links
      /\ LocationOf(c) = p /\ LocationOf(p) = p /\ p \notin Agent
  BY HostOfType, Ids, IdsAreDistinct DEF Comp, Connect, LocationOf, Standing
<1>2. \A d \in Client : HostOf[d] # p => (d \in handles' <=> d \in handles)
  BY <1>1
<1>3. CASE p \in up /\ SendUp(p, <<Reg(c)>>)
  <2> DEFINE ms == <<Reg(c)>>
  <2>1. ms \in Seq(Message) /\ DOMAIN ms = {1} /\ ms[1] = Reg(c)
    BY <1>1, MessageTypes
  <2>2. Said(p, ms)
    BY <1>1, <2>1, MessagesDiffer DEF Said
  <2>3. ASSUME NEW id \in CompsAt(p), NEW b \in BOOLEAN, b <=> id = p \/ id \in handles
        PROVE  Turned(ms, {Reg(id)}, {Dereg(id), EOF}, b) <=> id = p \/ id \in handles'
    <3>1. Turned(ms, {Reg(id)}, {Dereg(id), EOF}, b) <=> Reg(c) \in {Reg(id)} \/ (b /\ Reg(c) \notin {Dereg(id), EOF})
      BY TurnedOne
    <3>2. Turned(ms, {Reg(id)}, {Dereg(id), EOF}, b) <=> c = id \/ b
      BY <3>1, MessagesDiffer
    <3> QED
      BY <1>1, <2>3, <3>2
  <2>4. p \in up \cap Process /\ SendUp(p, ms)
    BY <1>1, <1>3
  <2> HIDE DEF ms
  <2> QED
    BY <1>2, <2>2, <2>3, <2>4, SendUpPeers
<1>4. CASE p \notin up
  <2>1. PICK sent, a : Move(p, sent, {}, a) /\ Tells(p, sent)
    BY <1>4, ConnectFirst
  <2>2. Links' /\ Accounted' /\ LastWords'
    BY <1>1, <2>1, ProcessMove
  <2> QED
    BY <2>2 DEF PeersKept
<1> QED
  BY <1>3, <1>4 DEF Connect

(* or deregistered, while the process has another one.                     *)
LEMMA DisconnectOnePeers ==
  ASSUME Standing, NEW c \in Client, Disconnect(c), OpenAt(HostOf[c]) # {c}
  PROVE  PeersKept
<1> DEFINE p == HostOf[c]
           ms == <<Dereg(c)>>
<1>1. /\ c \in handles /\ p \in up \cap Process /\ c \in Comp /\ c # p
      /\ handles' = handles \ {c} /\ LocationOf(c) = p
      /\ SendUp(p, ms)
  BY HostRuns, IdsAreDistinct DEF Disconnect, Comp, LocationOf, Standing
<1>2. \A d \in Client : HostOf[d] # p => (d \in handles' <=> d \in handles)
  BY <1>1
<1>3. ms \in Seq(Message) /\ DOMAIN ms = {1} /\ ms[1] = Dereg(c)
  BY <1>1, MessageTypes
<1>4. Said(p, ms)
  BY <1>1, <1>3, MessagesDiffer DEF Said
<1>5. ASSUME NEW id \in CompsAt(p), NEW b \in BOOLEAN, b <=> id = p \/ id \in handles
      PROVE  Turned(ms, {Reg(id)}, {Dereg(id), EOF}, b) <=> id = p \/ id \in handles'
  <2>1. Turned(ms, {Reg(id)}, {Dereg(id), EOF}, b) <=> Dereg(c) \in {Reg(id)} \/ (b /\ Dereg(c) \notin {Dereg(id), EOF})
    BY TurnedOne
  <2>2. Turned(ms, {Reg(id)}, {Dereg(id), EOF}, b) <=> c # id /\ b
    BY <2>1, MessagesDiffer
  <2> QED
    BY <1>1, <1>5, <2>2
<1> HIDE DEF ms
<1> QED
  BY <1>1, <1>2, <1>4, <1>5, SendUpPeers

(* A process that lost its agent registers itself and its handles with the *)
(* next one.                                                               *)
LEMMA ReceiveEOFMove ==
  ASSUME Standing, NEW p \in Process, ReceiveEOF(p)
  PROVE  \E r \in SetToSeqs(Again(p)), a \in up \cap Agent :
           LET sent == Cast({a}, <<Reg(p)>> \o r)
           IN /\ \A i, j \in DOMAIN r :
                   r[i].type = "CLIENT_REG" /\ r[j].type = "REG_SUBSCRIPTION"
                     /\ r[i].src = r[j].src => i < j
              /\ r \in Seq(Message) /\ attach'[p] = a
              /\ Move(p, sent, {attach[p]}, a) /\ Tells(p, sent)
<1>1. /\ p \in up /\ p \in Location /\ p \in Comp /\ p \notin gone /\ p \notin Agent
      /\ IInv /\ IInv' /\ Links /\ LocationOf(p) = p
      /\ up' = up /\ gone' = gone /\ info' = info /\ queue' = queue /\ handles' = handles
  BY Ids, IdsAreDistinct DEF ReceiveEOF, Standing, Links, app
<1>2. PICK r \in SetToSeqs(Again(p)) :
        /\ \A i, j \in DOMAIN r :
             r[i].type = "CLIENT_REG" /\ r[j].type = "REG_SUBSCRIPTION"
               /\ r[i].src = r[j].src => i < j
        /\ Reattach(p, r)
  BY DEF ReceiveEOF, Again
<1>3. PICK a \in AgentsFor(p) :
        /\ attach' = [attach EXCEPT ![p] = a]
        /\ NetStep(p, Cast({a}, <<Reg(p)>> \o r), {attach[p]}, a)
  BY <1>2 DEF Reattach
<1>4. a \in up \cap Agent /\ a # p /\ a # NoAgent
  <2>1. a \in Agent
    BY <1>1, AgentsForType DEF IInv, TypeOK
  <2>2. a \in up
    BY <1>1, <1>3 DEF AgentsFor
  <2> QED
    BY <1>1, <2>1, <2>2, Ids
<1>5. attach[p] \notin up
  <2>1. attach[p] \in Location /\ net[attach[p]][p] # <<>> /\ Head(net[attach[p]][p]) = EOF
    BY <1>1, Ids DEF IInv, Attached, ReceiveEOF
  <2>2. net[attach[p]][p] \in Seq(Message)
    BY <1>1, <2>1 DEF IInv, TypeOK
  <2>3. 1 \in DOMAIN net[attach[p]][p] /\ net[attach[p]][p][1] = EOF
    BY <2>1, <2>2
  <2>4. Written(attach[p], p, EOF)
    BY <2>3 DEF Written
  <2> QED
    BY <1>1, <2>4 DEF Links, Open
<1> DEFINE ms == <<Reg(p)>> \o r
           sent == Cast({a}, ms)
<1>6. /\ r \in Seq(Message)
      /\ \A i \in DOMAIN r : \/ \E c \in OpenAt(p) : r[i] = Reg(c)
                             \/ r[i].type \notin {"CLIENT_REG", "CLIENT_DEREG", "EOF"}
      /\ \A c \in OpenAt(p) : \E i \in DOMAIN r : r[i] = Reg(c)
  <2>1. IsFiniteSet(Again(p)) /\ Again(p) \in SUBSET Message
    BY <1>1, AgainType
  <2>2. r \in Seq(Message)
    <3>1. r \in Seq(Again(p))
      BY <1>2, <2>1, Enumerations
    <3> QED
      BY <2>1, <3>1
  <2>3. (\A i \in DOMAIN r : r[i] \in Again(p)) /\ (\A m \in Again(p) : \E i \in DOMAIN r : r[i] = m)
    BY <1>2, <2>1, Listed
  <2>4. \A m \in Again(p) : \/ \E c \in OpenAt(p) : m = Reg(c)
                            \/ m.type \notin {"CLIENT_REG", "CLIENT_DEREG", "EOF"}
    BY DEF Again, RegSub
  <2>5. \A c \in OpenAt(p) : Reg(c) \in Again(p)
    BY DEF Again
  <2> QED
    BY <2>2, <2>3, <2>4, <2>5
<1>7. /\ ms \in Seq(Message)
      /\ \A i \in DOMAIN ms : \/ \E c \in OpenAt(p) \cup {p} : ms[i] = Reg(c)
                              \/ ms[i].type \notin {"CLIENT_REG", "CLIENT_DEREG", "EOF"}
      /\ \A c \in OpenAt(p) \cup {p} : \E i \in DOMAIN ms : ms[i] = Reg(c)
  <2> DEFINE s == <<Reg(p)>>
  <2>1. s \in Seq(Message) /\ DOMAIN s = {1} /\ s[1] = Reg(p) /\ Len(s) = 1
    BY <1>1, MessageTypes
  <2>2. ms = s \o r
    OBVIOUS
  <2> HIDE DEF s, ms
  <2>3. ms \in Seq(Message)
    BY <1>6, <2>1, <2>2
  <2>4. MadeOf(ms, s, r)
    BY <1>6, <2>1, <2>2, MessageMembers
  <2>5. Len(ms) = 1 + Len(r) /\ Len(r) \in Nat
        /\ DOMAIN ms = 1..Len(ms) /\ DOMAIN r = 1..Len(r)
    <3>1. r \in Seq(Message)
      BY <1>6
    <3>2. Len(s \o r) = Len(s) + Len(r)
      <4>1. \A S : \A u, v \in Seq(S) : Len(u \o v) = Len(u) + Len(v)
        OBVIOUS
      <4>2. s \in Seq(Message)
        BY <2>1
      <4> QED
        BY ONLY <3>1, <4>1, <4>2
    <3> QED
      BY <2>1, <2>2, <2>3, <3>1, <3>2
  <2>6. 1 \in DOMAIN ms /\ ms[1] = Reg(p)
    BY <1>6, <2>1, <2>2, <2>5
  <2>7. \A i \in DOMAIN r : i + 1 \in DOMAIN ms /\ ms[i + 1] = r[i]
    <3> SUFFICES ASSUME NEW i \in DOMAIN r
                 PROVE  i + 1 \in DOMAIN ms /\ ms[i + 1] = r[i]
      OBVIOUS
    <3>1. i \in Nat /\ 1 <= i /\ i <= Len(r) /\ i + 1 \in 1..Len(ms)
      BY <2>5
    <3> QED
      BY <1>6, <2>1, <2>2, <2>5, <3>1
  <2> QED
    BY <1>6, <2>1, <2>3, <2>4, <2>6, <2>7 DEF MadeOf
<1>8. \A c \in OpenAt(p) \cup {p} : c \in Comp /\ LocationOf(c) = p
  BY <1>1 DEF OpenAt, IInv, TypeOK, Comp, LocationOf
<1> HIDE DEF ms
<1>9. \A i \in DOMAIN ms : /\ ms[i] # EOF
                           /\ \A id : ms[i] # Dereg(id) /\ (ms[i] = Reg(id) => id \in OpenAt(p) \cup {p})
  <2> SUFFICES ASSUME NEW i \in DOMAIN ms
               PROVE  /\ ms[i] # EOF
                      /\ \A id : ms[i] # Dereg(id) /\ (ms[i] = Reg(id) => id \in OpenAt(p) \cup {p})
    OBVIOUS
  <2>1. CASE \E c \in OpenAt(p) \cup {p} : ms[i] = Reg(c)
    BY <2>1, MessagesDiffer
  <2>2. CASE ms[i].type \notin {"CLIENT_REG", "CLIENT_DEREG", "EOF"}
    BY <2>2 DEF Reg, Dereg, EOF
  <2> QED
    BY <1>7, <2>1, <2>2
<1>10. Said(p, ms)
  BY <1>7, <1>8, <1>9 DEF Said
<1>11. attach'[p] = a /\ \A q \in Process \ {p} : attach'[q] = attach[q]
  BY <1>3 DEF Standing, IInv, TypeOK
<1>12. \A b \in Location : sent[b] = IF b = a THEN ms ELSE <<>>
  BY DEF Cast
<1>13. NetStep(p, sent, {attach[p]}, a) /\ Sends(p, sent)
  BY <1>3, <1>10, SaidSends DEF ms
<1> HIDE DEF sent
<1>14. Move(p, sent, {attach[p]}, a)
  <2>1. QueuesShrink
    BY <1>1 DEF QueuesShrink
  <2> QED
    BY <1>1, <1>4, <1>5, <1>11, <1>12, <1>13, <2>1 DEF Move
<1>15. Tells(p, sent)
  <2> SUFFICES ASSUME NEW b \in up \cap Agent, attach'[p] = b, NEW id \in CompsAt(p)
               PROVE  Turned(sent[b], {Reg(id)}, {Dereg(id), EOF}, Belongs(id, b)) <=> Belongs(id, b)'
    BY DEF Tells
  <2>1. b = a /\ sent[b] = ms
    BY <1>11, <1>12, Ids
  <2>2. ~ Belongs(id, b) /\ (Belongs(id, b)' <=> id \in OpenAt(p) \cup {p})
    <3>1. /\ Belongs(id, b) <=> attach[p] = b /\ ((id = p /\ p \in up) \/ id \in handles)
          /\ Belongs(id, b)' <=> attach'[p] = b /\ ((id = p /\ p \in up') \/ id \in handles')
          /\ (id = p /\ id \notin handles /\ id \notin handles') \/ (id \in Client /\ id # p)
      BY <1>1, OwnBelongs
    <3>2. id \in handles <=> id \in OpenAt(p)
      BY <3>1 DEF CompsAt, LocationOf, OpenAt, IInv, TypeOK, Standing
    <3> QED
      BY <1>1, <1>5, <1>11, <2>1, <3>1, <3>2
  <2>3. id \in OpenAt(p) \cup {p} => Turned(ms, {Reg(id)}, {Dereg(id), EOF}, Belongs(id, b))
    BY <1>7, <1>9 DEF Turned
  <2>4. id \notin OpenAt(p) \cup {p} => ~ Turned(ms, {Reg(id)}, {Dereg(id), EOF}, Belongs(id, b))
    BY <1>9, <2>2 DEF Turned
  <2> QED
    BY <2>1, <2>2, <2>3, <2>4
<1> QED
  BY <1>2, <1>4, <1>6, <1>11, <1>14, <1>15 DEF sent, ms

(* It keeps the peers accounted for.                                       *)
LEMMA ReceiveEOFPeers ==
  ASSUME Standing, NEW p \in Process, ReceiveEOF(p)
  PROVE  PeersKept
<1>1. PICK sent, a : Move(p, sent, {attach[p]}, a) /\ Tells(p, sent)
  BY ReceiveEOFMove
<1>2. Links' /\ Accounted' /\ LastWords'
  BY <1>1, ProcessMove
<1> QED
  BY <1>2 DEF PeersKept

(* Reading an event changes nothing an agent is to know.                   *)
LEMMA ReceivePeers ==
  ASSUME Standing, NEW p \in Process, Receive(p)
  PROVE  PeersKept
<1> DEFINE a == attach[p]
<1>1. /\ p \in up /\ p \in Location /\ p \notin Agent /\ a \in Location /\ a # NoAgent
      /\ IInv /\ Links /\ Accounted /\ LastWords
      /\ up' = up /\ gone' = gone /\ info' = info /\ queue' = queue /\ handles' = handles
      /\ attach' = attach /\ conn' = conn
      /\ up \subseteq Location
  <2>1. p \in up /\ up' = up /\ gone' = gone /\ info' = info /\ queue' = queue
        /\ handles' = handles /\ attach' = attach /\ conn' = conn
    BY DEF Receive
  <2>2. IInv /\ Links /\ Accounted /\ LastWords
    BY DEF Standing
  <2>3. p \in Location /\ p \notin Agent /\ up \subseteq Location
    BY <2>2, Ids, IdsAreDistinct DEF IInv, TypeOK
  <2>4. a \in Agent /\ a # NoAgent /\ a \in Location
    BY <2>1, <2>2, Ids DEF IInv, Attached
  <2> QED
    BY <2>1, <2>2, <2>3, <2>4
<1>2. net[a][p] \in Seq(Message) /\ net[a][p] # <<>>
  BY <1>1 DEF IInv, TypeOK, Receive
<1>3. /\ net'[a][p] = Tail(net[a][p])
      /\ \A l \in Location : \A k \in Location : l # a \/ k # p => net'[l][k] = net[l][k]
  BY <1>1 DEF IInv, TypeOK, Receive
<1>4. \A l \in Location : \A b \in Agent : net'[l][b] = net[l][b]
  BY <1>1, <1>3, Ids
<1>5. \A l \in Location : \A k \in Location : \A m : Written(l, k, m)' => Written(l, k, m)
  <2> SUFFICES ASSUME NEW l \in Location, NEW k \in Location, NEW m, Written(l, k, m)'
               PROVE  Written(l, k, m)
    OBVIOUS
  <2>1. CASE l # a \/ k # p
    BY <1>3, <2>1 DEF Written
  <2>2. CASE l = a /\ k = p
    <3>1. PICK i \in DOMAIN net'[a][p] : net'[a][p][i] = m
      BY <2>2 DEF Written
    <3>2. \E j \in DOMAIN net[a][p] : net[a][p][j] = m
      <4> DEFINE n == net[a][p]
      <4>1. n \in Seq(Message) /\ n # <<>> /\ net'[a][p] = Tail(n)
        BY <1>2, <1>3
      <4> HIDE DEF n
      <4>2. i \in DOMAIN Tail(n) /\ Tail(n)[i] = m
        BY <3>1, <4>1
      <4>3. i + 1 \in DOMAIN n /\ n[i + 1] = m
        BY <4>1, <4>2
      <4> QED
        BY <4>3 DEF n
    <3> QED
      BY <2>2, <3>2 DEF Written
  <2> QED
    BY <2>1, <2>2
<1>6. \A l, m : \A b \in Agent : Queued(l, b, m)' <=> Queued(l, b, m)
  BY <1>1 DEF Queued
<1>7. Fresh'
  <2> SUFFICES ASSUME NEW y \in Location, y \notin up, y \notin gone
               PROVE  /\ conn[y] = {}
                      /\ \A z \in Location : net'[y][z] = <<>> /\ net'[z][y] = <<>>
                      /\ \A b \in Agent : \A i \in DOMAIN queue[b] : queue[b][i].from # y
                      /\ y \in Agent => queue[y] = <<>>
                      /\ \A b \in up \cap Agent : info[b].parent # y
                      /\ \A q \in up \cap Process : attach[q] # y
    BY <1>1 DEF Fresh
  <2>1. /\ conn[y] = {}
        /\ \A z \in Location : net[y][z] = <<>> /\ net[z][y] = <<>>
        /\ \A b \in Agent : \A i \in DOMAIN queue[b] : queue[b][i].from # y
        /\ y \in Agent => queue[y] = <<>>
        /\ \A b \in up \cap Agent : info[b].parent # y
        /\ \A q \in up \cap Process : attach[q] # y
    BY <1>1 DEF Links, Fresh
  <2>2. y # a /\ y # p
    BY <1>1, <1>2, <2>1
  <2> QED
    BY <1>3, <2>1, <2>2
<1>8. Own'
  <2>1. \A l \in Location : \A id \in Comp : LocationOf(id) # l =>
          /\ \A k \in Location : ~ Written(l, k, Reg(id))' /\ ~ Written(l, k, Dereg(id))'
          /\ \A b \in Agent : ~ Queued(l, b, Reg(id))' /\ ~ Queued(l, b, Dereg(id))'
    BY <1>1, <1>5, <1>6 DEF Links, Own
  <2> QED
    BY <2>1 DEF Own
<1>9. Open'
  <2>1. \A y, z \in up :
          /\ ~ Written(y, z, EOF)' /\ ~ Written(y, z, Dereg(y))'
          /\ z \in Agent => ~ Queued(y, z, EOF)' /\ ~ Queued(y, z, Dereg(y))'
    BY <1>1, <1>5, <1>6 DEF Links, Open
  <2> QED
    BY <1>1, <2>1 DEF Open
<1>10. Links'
  <2>1. up' \cap gone' = {} /\ NoSelf'
    BY <1>1 DEF Links, NoSelf
  <2>2. Joined'
    BY <1>1 DEF Links, Joined, Belongs, Linked
  <2>3. OnlyAttached'
    BY <1>1, <1>4 DEF Links, OnlyAttached
  <2> QED
    BY <1>7, <1>8, <1>9, <2>1, <2>2, <2>3 DEF Links
<1>11. \A b \in Agent : \A id \in Comp : \A ends : ExpectedAt(id, b, ends)' <=> ExpectedAt(id, b, ends)
  BY <1>1, <1>4, Ids DEF ExpectedAt
<1>12. Accounted'
  <2>1. \A b \in Agent : \A id \in Comp : Belongs(id, b)' <=> Belongs(id, b)
    BY <1>1 DEF Belongs
  <2>2. \A b \in up \cap Agent, id \in Comp : ExpectedAt(id, b, {Dereg(id), EOF})' <=> Belongs(id, b)'
    BY <1>1, <1>11, <2>1 DEF Accounted
  <2> QED
    BY <1>1, <2>2 DEF Accounted
<1>13. LastWords'
  <2> SUFFICES ASSUME NEW b \in up \cap Agent, NEW l \in Location
               PROVE  /\ \A i, j \in DOMAIN net'[l][b] :
                            i < j /\ net'[l][b][i] = Dereg(l) => net'[l][b][j] = EOF
                      /\ Queued(l, b, Dereg(l))' => \A j \in DOMAIN net'[l][b] : net'[l][b][j] = EOF
                      /\ Written(l, b, Dereg(l))' \/ Queued(l, b, Dereg(l))' =>
                           \A id \in CompsAt(l) : ~ ExpectedAt(id, b, {Dereg(id)})'
    BY <1>1 DEF LastWords
  <2>1. net'[l][b] = net[l][b]
    BY <1>4
  <2>2. \A id \in CompsAt(l) : ExpectedAt(id, b, {Dereg(id)})' <=> ExpectedAt(id, b, {Dereg(id)})
    BY <1>11 DEF CompsAt
  <2>3. Written(l, b, Dereg(l))' <=> Written(l, b, Dereg(l))
    BY <2>1 DEF Written
  <2>4. /\ \A i, j \in DOMAIN net[l][b] :
             i < j /\ net[l][b][i] = Dereg(l) => net[l][b][j] = EOF
        /\ Queued(l, b, Dereg(l)) => \A j \in DOMAIN net[l][b] : net[l][b][j] = EOF
        /\ Written(l, b, Dereg(l)) \/ Queued(l, b, Dereg(l)) =>
             \A id \in CompsAt(l) : ~ ExpectedAt(id, b, {Dereg(id)})
    BY <1>1 DEF LastWords
  <2> QED
    BY <1>6, <2>1, <2>2, <2>3, <2>4
<1> QED
  BY <1>10, <1>12, <1>13 DEF PeersKept

-----------------------------------------------------------------------------
(* A process ends.  If it deregisters itself it does so last, and none of  *)
(* its handles is left then; every connection it has ends behind that.     *)
Farewell(x, sent) ==
  /\ sent \in [Location -> Seq(Message)]
  /\ \A k \in Location : \A i \in DOMAIN sent[k] :
       /\ \A id \in Comp : sent[k][i] \in {Reg(id), Dereg(id)} => LocationOf(id) = x
       /\ sent[k][i] = Dereg(x) => i = Len(sent[k])
       /\ \A id \in Comp, m \in Mask : sent[k][i] = CancelSub(id, m) => LocationOf(id) = x
  /\ \A b \in up \cap Agent : \A i \in DOMAIN sent[b] : sent[b][i] = Dereg(x) =>
       \A id \in CompsAt(x) : ~ Turned(sent[b], {Reg(id)}, {Dereg(id)}, Belongs(id, b))

(* A process ends, having said so much.                                    *)
Ends(x, sent) ==
  /\ x \in up /\ Farewell(x, sent)
  /\ NetStep(x, sent, conn[x], NoAgent)
  /\ up' = up \ {x} /\ gone' = gone \cup {x}
  /\ QueuesShrink
  /\ \A b \in Agent \ {x} : info'[b] = info[b] /\ queue'[b] = queue[b]
  /\ \A q \in Process \ {x} : attach'[q] = attach[q]
  /\ \A c \in Client : HostOf[c] # x => (c \in handles' <=> c \in handles)

(* What that leaves of the network.                                        *)
EndsNet(x, sent) ==
  /\ conn'[x] = {}
  /\ \A l \in Location \ {x} : conn'[l] = conn[l]
  /\ \A l, k \in Location \ {x} : net'[l][k] = net[l][k]
  /\ \A k \in Location : ~ Linked(x, k) => net'[x][k] = net[x][k]
  /\ \A k \in Location : Linked(x, k) =>
       k # x /\ net'[x][k] = net[x][k] \o sent[k] \o <<EOF>>
  /\ \A l \in Location \ {x} : net'[l][x] = <<>> \/ net'[l][x] = net[l][x]

(* NetStep leaves that.                                                    *)
LEMMA EndsFacts ==
  ASSUME Standing, NEW x, NEW sent, Ends(x, sent)
  PROVE  EndsNet(x, sent) /\ NetOrigin(x, sent, conn[x])
<1>1. /\ TypeOK /\ x \in Location /\ sent \in [Location -> Seq(Message)]
      /\ NetStep(x, sent, conn[x], NoAgent) /\ x \notin conn[x] /\ NoAgent \notin Location
  BY Ids DEF Standing, IInv, TypeOK, Links, NoSelf, Ends, Farewell
<1>2. NetEffect(x, sent, conn[x], NoAgent)
  BY <1>1, NetFacts
<1>3. NetOrigin(x, sent, conn[x])
  BY <1>1, WrittenFacts
<1>4. conn'[x] = {} /\ \A l \in Location \ {x} : conn'[l] = conn[l]
  BY <1>1, <1>2 DEF NetEffect
<1>5. \A l, k \in Location \ {x} : net'[l][k] = net[l][k]
  BY <1>2 DEF NetEffect
<1>6. \A k \in Location : ~ Linked(x, k) => net'[x][k] = net[x][k]
  BY <1>1, <1>2 DEF NetEffect
<1>7. \A k \in Location : Linked(x, k) =>
        k # x /\ net'[x][k] = net[x][k] \o sent[k] \o <<EOF>>
  <2>1. \A k \in Location : Linked(x, k) => k # x /\ k \in conn[x]
    BY <1>1 DEF Linked
  <2> QED
    BY <1>2, <2>1 DEF NetEffect
<1>8. \A l \in Location \ {x} : net'[l][x] = <<>> \/ net'[l][x] = net[l][x]
  BY <1>2 DEF NetEffect
<1> QED
  BY <1>3, <1>4, <1>5, <1>6, <1>7, <1>8 DEF EndsNet

(* Nothing new is written between the others.                              *)
LEMMA EndsWritten ==
  ASSUME Standing, NEW x, NEW sent, Ends(x, sent)
  PROVE  /\ \A l, k \in Location : \A m : Written(l, k, m)' =>
              \/ Written(l, k, m)
              \/ l = x /\ \E i \in DOMAIN sent[k] : sent[k][i] = m
              \/ l = x /\ m = EOF
         /\ \A l, m : \A a \in Agent : Queued(l, a, m)' => Queued(l, a, m)
<1>1. ASSUME NEW l \in Location, NEW k \in Location, NEW m, Written(l, k, m)'
      PROVE  \/ Written(l, k, m)
             \/ l = x /\ \E i \in DOMAIN sent[k] : sent[k][i] = m
             \/ l = x /\ m = EOF
  <2>1. PICK i \in DOMAIN net'[l][k] : net'[l][k][i] = m
    BY <1>1 DEF Written
  <2>2. \/ \E j \in DOMAIN net[l][k] : net'[l][k][i] = net[l][k][j]
        \/ l = x /\ \E j \in DOMAIN sent[k] : net'[l][k][i] = sent[k][j]
        \/ l = x /\ k \in conn[x] /\ Linked(x, k) /\ net'[l][k][i] = EOF
    <3>1. NetOrigin(x, sent, conn[x])
      BY EndsFacts
    <3> QED
      BY <3>1 DEF NetOrigin
  <2> QED
    BY <2>1, <2>2 DEF Written
<1>2. ASSUME NEW l, NEW m, NEW a \in Agent, NEW i \in DOMAIN queue'[a], queue'[a][i] = Entry(l, m)
      PROVE  \E j \in DOMAIN queue[a] : queue[a][j] = Entry(l, m)
  <2>1. PICK j \in DOMAIN queue[a] : queue'[a][i] = queue[a][j]
    BY DEF Ends, QueuesShrink
  <2> QED
    BY <1>2, <2>1
<1> QED
  BY <1>1, <1>2 DEF Queued

(* A process that has not started stays unknown.                           *)
LEMMA EndsFresh ==
  ASSUME Standing, NEW x, NEW sent, Ends(x, sent)
  PROVE  Fresh'
<1>1. /\ x \in up /\ x \in Location /\ up' = up \ {x} /\ gone' = gone \cup {x}
      /\ QueuesShrink /\ Links
  BY DEF Standing, IInv, TypeOK, Ends
<1>2. EndsNet(x, sent)
  BY EndsFacts
<1> SUFFICES ASSUME NEW y \in Location, y \notin up', y \notin gone'
             PROVE  /\ conn'[y] = {}
                    /\ \A z \in Location : net'[y][z] = <<>> /\ net'[z][y] = <<>>
                    /\ \A a \in Agent : \A i \in DOMAIN queue'[a] : queue'[a][i].from # y
                    /\ y \in Agent => queue'[y] = <<>>
                    /\ \A a \in up' \cap Agent : info'[a].parent # y
                    /\ \A q \in up' \cap Process : attach'[q] # y
  BY DEF Fresh
<1>3. y # x /\ y \notin up /\ y \notin gone
  BY <1>1
<1>4. /\ conn[y] = {}
      /\ \A z \in Location : net[y][z] = <<>> /\ net[z][y] = <<>>
      /\ \A a \in Agent : \A i \in DOMAIN queue[a] : queue[a][i].from # y
      /\ y \in Agent => queue[y] = <<>>
      /\ \A a \in up \cap Agent : info[a].parent # y
      /\ \A q \in up \cap Process : attach[q] # y
  BY <1>1, <1>3 DEF Links, Fresh
<1>5. conn'[y] = {}
  BY <1>2, <1>3, <1>4 DEF EndsNet
<1>6. ASSUME NEW z \in Location PROVE net'[y][z] = <<>> /\ net'[z][y] = <<>>
  <2>1. ~ Linked(x, y)
    BY <1>4 DEF Linked
  <2>2. CASE z = x
    BY <1>2, <1>3, <1>4, <2>1, <2>2 DEF EndsNet
  <2>3. CASE z # x
    BY <1>2, <1>3, <1>4, <2>3 DEF EndsNet
  <2> QED
    BY <2>2, <2>3
<1>7. \A a \in Agent : \A i \in DOMAIN queue'[a] : queue'[a][i].from # y
  BY <1>1, <1>4 DEF QueuesShrink
<1>8. y \in Agent => queue'[y] = <<>>
  BY <1>3, <1>4 DEF Ends
<1>9. \A a \in up' \cap Agent : info'[a].parent # y
  BY <1>1, <1>4 DEF Ends
<1>10. \A q \in up' \cap Process : attach'[q] # y
  BY <1>1, <1>4 DEF Ends
<1> QED
  BY <1>5, <1>6, <1>7, <1>8, <1>9, <1>10

(* Who belongs to an agent after the end of another one did before.        *)
LEMMA EndsBelongs ==
  ASSUME Standing, NEW x, NEW sent, Ends(x, sent),
         NEW b \in up' \cap Agent, NEW id \in Comp
  PROVE  /\ b # x /\ b \in up /\ x \in Location
         /\ LocationOf(id) # x => (Belongs(id, b)' <=> Belongs(id, b))
         /\ LocationOf(id) = x => ~ Belongs(id, b)'
<1>1. b # x /\ b \in up /\ x \in Location /\ x \notin up' /\ up' = up \ {x}
  BY DEF Ends, Standing, IInv, TypeOK
<1>2. ASSUME LocationOf(id) = x PROVE ~ Belongs(id, b)'
  <2>1. ASSUME Belongs(id, b)' PROVE FALSE
    <3>1. CASE id \in up' \cap (Agent \cup Process)
      BY <1>1, <1>2, <3>1, IdsAreDistinct DEF LocationOf
    <3>2. CASE id \in handles'
      <4>1. HostOf[id] \in up' /\ id \in Client
        BY <3>2 DEF Standing, IInv, TypeOK, Attached
      <4> QED
        BY <1>1, <1>2, <4>1 DEF LocationOf
    <3> QED
      BY <2>1, <3>1, <3>2 DEF Belongs
  <2> QED
    BY <2>1
<1>3. ASSUME LocationOf(id) # x PROVE Belongs(id, b)' <=> Belongs(id, b)
  <2>1. id \in Agent => (id \in up' <=> id \in up) /\ info'[id] = info[id]
    BY <1>1, <1>3, IdsAreDistinct DEF LocationOf, Ends
  <2>2. id \in Process => (id \in up' <=> id \in up) /\ attach'[id] = attach[id]
    BY <1>1, <1>3, IdsAreDistinct DEF LocationOf, Ends
  <2>3. id \in Client => (id \in handles' <=> id \in handles) /\ attach'[HostOf[id]] = attach[HostOf[id]]
    BY <1>3, HostOfType DEF LocationOf, Ends
  <2>4. handles \subseteq Client /\ handles' \subseteq Client /\ info'[b] = info[b]
    BY <1>1 DEF Standing, IInv, TypeOK, Ends
  <2> QED
    BY <1>1, <2>1, <2>2, <2>3, <2>4 DEF Belongs
<1> QED
  BY <1>1, <1>2, <1>3

(* What is known of the connections holds for those that still run.        *)
LEMMA EndsLinks ==
  ASSUME Standing, NEW x, NEW sent, Ends(x, sent)
  PROVE  Links'
<1>1. /\ x \in up /\ x \in Location /\ up' = up \ {x} /\ gone' = gone \cup {x}
      /\ Links /\ up \subseteq Location /\ Farewell(x, sent)
  BY DEF Standing, IInv, TypeOK, Ends
<1>2. EndsNet(x, sent)
  BY EndsFacts
<1>3. /\ \A l, k \in Location : \A m : Written(l, k, m)' =>
           \/ Written(l, k, m)
           \/ l = x /\ \E i \in DOMAIN sent[k] : sent[k][i] = m
           \/ l = x /\ m = EOF
      /\ \A l, m : \A a \in Agent : Queued(l, a, m)' => Queued(l, a, m)
  BY EndsWritten
<1>4. up' \cap gone' = {}
  BY <1>1 DEF Links
<1>5. NoSelf'
  BY <1>1, <1>2 DEF Links, NoSelf, EndsNet
<1>6. Own'
  <2>1. \A id : Reg(id) # EOF /\ Dereg(id) # EOF
    BY MessagesDiffer
  <2>2. ASSUME NEW l \in Location, NEW id \in Comp, LocationOf(id) # l,
               NEW k \in Location, NEW m \in {Reg(id), Dereg(id)}
        PROVE  ~ Written(l, k, m)'
    <3>1. ~ Written(l, k, m)
      BY <1>1, <2>2 DEF Links, Own
    <3>2. \A i \in DOMAIN sent[k] : sent[k][i] = m => LocationOf(id) = x
      BY <1>1, <2>2 DEF Farewell
    <3> QED
      BY <1>3, <2>1, <2>2, <3>1, <3>2
  <2>3. \A l \in Location : \A id \in Comp : LocationOf(id) # l =>
          \A a \in Agent : ~ Queued(l, a, Reg(id))' /\ ~ Queued(l, a, Dereg(id))'
    BY <1>1, <1>3 DEF Links, Own
  <2> QED
    BY <2>2, <2>3 DEF Own
<1>7. Open'
  <2> SUFFICES ASSUME NEW y \in up', NEW z \in up'
               PROVE  /\ ~ Written(y, z, EOF)' /\ ~ Written(y, z, Dereg(y))'
                      /\ z \in Agent => ~ Queued(y, z, EOF)' /\ ~ Queued(y, z, Dereg(y))'
    BY DEF Open
  <2>1. y \in up /\ z \in up /\ y # x /\ y \in Location /\ z \in Location
    BY <1>1
  <2>2. /\ ~ Written(y, z, EOF) /\ ~ Written(y, z, Dereg(y))
        /\ z \in Agent => ~ Queued(y, z, EOF) /\ ~ Queued(y, z, Dereg(y))
    BY <1>1, <2>1 DEF Links, Open
  <2> QED
    BY <1>3, <2>1, <2>2
<1>8. Joined'
  <2> SUFFICES ASSUME NEW a \in up' \cap Agent, NEW l \in up', Belongs(l, a)'
               PROVE  Linked(a, l)'
    BY DEF Joined
  <2>1. a \in up \cap Agent /\ a # x /\ l \in up /\ l # x /\ l \in Location /\ a \in Location
        /\ l \in Comp /\ LocationOf(l) = l
    BY <1>1, Ids
  <2>2. Belongs(l, a)
    BY <2>1, EndsBelongs
  <2>3. Linked(a, l)
    BY <1>1, <2>1, <2>2 DEF Links, Joined
  <2> QED
    BY <1>2, <2>1, <2>3 DEF Linked, EndsNet
<1>9. OnlyAttached'
  <2> SUFFICES ASSUME NEW q \in up' \cap Process, NEW a \in up' \cap Agent, attach'[q] # a
               PROVE  net'[q][a] = <<>>
    BY DEF OnlyAttached
  <2>1. q \in up /\ q # x /\ a \in up /\ a # x /\ q \in Location /\ a \in Location
        /\ attach'[q] = attach[q]
    BY <1>1, Ids DEF Ends
  <2>2. net[q][a] = <<>>
    BY <1>1, <2>1 DEF Links, OnlyAttached
  <2> QED
    BY <1>2, <2>1, <2>2 DEF EndsNet
<1> QED
  BY <1>4, <1>5, <1>6, <1>7, <1>8, <1>9, EndsFresh DEF Links

(* What comes from elsewhere comes as before.                              *)
LEMMA EndsElsewhere ==
  ASSUME Standing, NEW x, NEW sent, Ends(x, sent),
         NEW b \in up' \cap Agent, NEW l \in Location, l # x
  PROVE  /\ net'[l][b] = net[l][b] /\ info'[b] = info[b] /\ queue'[b] = queue[b]
         /\ \A id \in CompsAt(l) : \A ends : ExpectedAt(id, b, ends)' <=> ExpectedAt(id, b, ends)
<1>1. b # x /\ b \in Location
  BY Ids DEF Ends
<1>2. EndsNet(x, sent)
  BY EndsFacts
<1>3. net'[l][b] = net[l][b]
  BY <1>1, <1>2 DEF EndsNet
<1>4. info'[b] = info[b] /\ queue'[b] = queue[b]
  BY <1>1 DEF Ends
<1> QED
  BY <1>3, <1>4 DEF ExpectedAt, CompsAt

(* What is expected of the components of the one that ends, at an agent it *)
(* was connected to, follows from what it says.                            *)
LEMMA EndsExpected ==
  ASSUME Standing, NEW x, NEW sent, Ends(x, sent),
         NEW b \in up' \cap Agent, NEW id \in CompsAt(x), Linked(x, b), NEW ends
  PROVE  ExpectedAt(id, b, ends)' <=>
           Turned(<<EOF>>, {Reg(id)}, ends, Turned(sent[b], {Reg(id)}, ends, ExpectedAt(id, b, ends)))
<1> DEFINE n == net[x][b]
           s == sent[b]
           f == <<EOF>>
           i == id \in info[b].peers
<1>1. /\ b \in up \cap Agent /\ b # x /\ b \in Location /\ x \in Location
      /\ LocationOf(id) = x /\ info'[b] = info[b] /\ queue'[b] = queue[b]
  BY Ids DEF Standing, IInv, TypeOK, Ends, CompsAt
<1>2. n \in Seq(Message) /\ s \in Seq(Message) /\ f \in Seq(Message)
  BY <1>1, MessageTypes DEF Standing, IInv, TypeOK, Ends, Farewell
<1>3. net'[x][b] = n \o s \o f
  <2>1. EndsNet(x, sent)
    BY EndsFacts
  <2> QED
    BY <1>1, <2>1 DEF EndsNet
<1>4. /\ ExpectedAt(id, b, ends) <=> Expected(id, n, queue[b], i, ends)
      /\ ExpectedAt(id, b, ends)' <=> Expected(id, n \o s \o f, queue[b], i, ends)
  BY <1>1, <1>3 DEF ExpectedAt
<1>5. i \in BOOLEAN
  OBVIOUS
<1> HIDE DEF n, s, f, i
<1> DEFINE o == n \o s
<1>6. o \in Seq(Message)
  BY <1>2
<1>7. Expected(id, o, queue[b], i, ends)
        <=> Turned(s, {Reg(id)}, ends, Expected(id, n, queue[b], i, ends))
  BY <1>2, <1>5, ExpectedSend
<1>8. n \o s \o f = o \o f
  OBVIOUS
<1> HIDE DEF o
<1>9. Expected(id, o \o f, queue[b], i, ends)
        <=> Turned(f, {Reg(id)}, ends, Expected(id, o, queue[b], i, ends))
  BY <1>2, <1>5, <1>6, ExpectedSend
<1>10. ExpectedAt(id, b, ends)' <=>
         Turned(f, {Reg(id)}, ends, Turned(s, {Reg(id)}, ends, ExpectedAt(id, b, ends)))
  BY <1>4, <1>7, <1>8, <1>9 DEF Turned
<1> QED
  BY <1>10 DEF f, s

(* The others account for the end: behind an end-of-file nobody is         *)
(* expected, and who had no connection to the agent did not belong to it.  *)
LEMMA EndsAccounted ==
  ASSUME Standing, NEW x, NEW sent, Ends(x, sent)
  PROVE  Accounted'
<1> SUFFICES ASSUME NEW b \in up' \cap Agent, NEW id \in Comp
             PROVE  ExpectedAt(id, b, {Dereg(id), EOF})' <=> Belongs(id, b)'
  BY DEF Accounted
<1> DEFINE ends == {Dereg(id), EOF}
<1>1. /\ b # x /\ b \in up /\ x \in Location
      /\ LocationOf(id) # x => (Belongs(id, b)' <=> Belongs(id, b))
      /\ LocationOf(id) = x => ~ Belongs(id, b)'
  BY EndsBelongs
<1>2. IInv /\ Links /\ (ExpectedAt(id, b, ends) <=> Belongs(id, b))
  BY <1>1 DEF Standing, Accounted
<1>3. CASE LocationOf(id) # x
  <2>1. LocationOf(id) \in Location /\ id \in CompsAt(LocationOf(id))
    BY Ids DEF CompsAt
  <2>2. ExpectedAt(id, b, ends)' <=> ExpectedAt(id, b, ends)
    BY <1>3, <2>1, EndsElsewhere
  <2> QED
    BY <1>1, <1>2, <1>3, <2>2
<1>4. CASE LocationOf(id) = x /\ Linked(x, b)
  <2>1. id \in CompsAt(x)
    BY <1>4 DEF CompsAt
  <2> DEFINE c == Turned(sent[b], {Reg(id)}, ends, ExpectedAt(id, b, ends))
  <2>2. ExpectedAt(id, b, ends)' <=> Turned(<<EOF>>, {Reg(id)}, ends, c)
    BY <1>4, <2>1, EndsExpected
  <2>3. c \in BOOLEAN
    BY DEF Turned
  <2> HIDE DEF c
  <2>4. Turned(<<EOF>>, {Reg(id)}, ends, c) <=> EOF \in {Reg(id)} \/ (c /\ EOF \notin ends)
    BY <2>3, TurnedOne
  <2>5. EOF # Reg(id)
    BY MessagesDiffer
  <2> QED
    BY <1>1, <1>4, <2>2, <2>4, <2>5
<1>5. CASE LocationOf(id) = x /\ ~ Linked(x, b)
  <2>1. ~ Belongs(id, b)
    <3>1. ~ Linked(b, LocationOf(id))
      BY <1>5 DEF Linked
    <3> QED
      BY <1>1, <1>2, <3>1, BelongsLinked
  <2>2. net'[x][b] = net[x][b] /\ info'[b] = info[b] /\ queue'[b] = queue[b]
    <3>1. EndsNet(x, sent) /\ b \in Location
      BY EndsFacts, Ids
    <3> QED
      BY <1>1, <1>5, <3>1 DEF EndsNet, Ends
  <2>3. ExpectedAt(id, b, ends)' <=> ExpectedAt(id, b, ends)
    BY <1>5, <2>2 DEF ExpectedAt
  <2> QED
    BY <1>1, <1>2, <1>5, <2>1, <2>3
<1> QED
  BY <1>3, <1>4, <1>5

(* What is put behind a sequence is its last member.                       *)
LEMMA BehindIsLast ==
  ASSUME NEW S, NEW u \in Seq(S), NEW e \in S
  PROVE  /\ Len(u \o <<e>>) = Len(u) + 1
         /\ DOMAIN (u \o <<e>>) = 1..Len(u \o <<e>>)
         /\ (u \o <<e>>)[Len(u) + 1] = e
OBVIOUS

(* A deregistration of x is behind everything else it wrote.               *)
LEMMA LastBefore ==
  ASSUME NEW n \in Seq(Message), NEW s \in Seq(Message), NEW w,
         \A i \in DOMAIN n : n[i] # w,
         \A i \in DOMAIN s : s[i] = w => i = Len(s),
         NEW i \in DOMAIN (n \o s \o <<EOF>>), NEW j \in DOMAIN (n \o s \o <<EOF>>),
         i < j, (n \o s \o <<EOF>>)[i] = w
  PROVE  (n \o s \o <<EOF>>)[j] = EOF
<1> DEFINE f == <<EOF>>
           u == n \o s
<1>1. f \in Seq(Message) /\ Len(f) = 1 /\ f[1] = EOF /\ DOMAIN f = {1}
  BY MessageTypes
<1>2. u \in Seq(Message) /\ Len(u) = Len(n) + Len(s) /\ Len(n) \in Nat /\ Len(s) \in Nat
      /\ DOMAIN u = 1..Len(u) /\ DOMAIN s = 1..Len(s)
  OBVIOUS
<1> HIDE DEF f
<1>3. ASSUME NEW k \in DOMAIN u, u[k] = w PROVE k = Len(u)
  <2>1. \/ \E h \in DOMAIN n : u[k] = n[h] /\ k = h
        \/ \E h \in DOMAIN s : u[k] = s[h] /\ k = Len(n) + h
    BY ConcatMembers
  <2> QED
    BY <1>2, <1>3, <2>1
<1> HIDE DEF u
<1> DEFINE v == u \o f
<1>4. v = n \o s \o <<EOF>>
  BY DEF u, f
<1>5. Len(v) = Len(u) + 1 /\ DOMAIN v = 1..Len(v) /\ Len(u) \in Nat /\ v[Len(v)] = EOF
      /\ \A k \in 1..Len(u) : v[k] = u[k]
  <2>1. Len(u) \in Nat
    BY <1>2
  <2>2. Len(v) = Len(u) + 1 /\ DOMAIN v = 1..Len(v) /\ v[Len(u) + 1] = EOF
    BY <1>2, MessageTypes, BehindIsLast DEF f
  <2>4. \A k \in 1..Len(u) : v[k] = u[k]
    BY <1>1, <1>2
  <2> QED
    BY <2>1, <2>2, <2>4
<1> HIDE DEF v
<1>6. i \in DOMAIN v /\ j \in DOMAIN v /\ v[i] = w
  BY <1>4
<1>7. i \in 1..Len(u)
  BY <1>5, <1>6
<1>8. i = Len(u)
  BY <1>2, <1>3, <1>5, <1>6, <1>7
<1>9. j = Len(v)
  BY <1>5, <1>6, <1>8
<1>10. v[j] = EOF
  BY <1>5, <1>9
<1> QED
  BY <1>4, <1>10

(* What it said last is in order.                                          *)
LEMMA EndsLastWords ==
  ASSUME Standing, NEW x, NEW sent, Ends(x, sent)
  PROVE  LastWords'
<1> SUFFICES ASSUME NEW b \in up' \cap Agent, NEW l \in Location
             PROVE  /\ \A i, j \in DOMAIN net'[l][b] :
                         i < j /\ net'[l][b][i] = Dereg(l) => net'[l][b][j] = EOF
                    /\ Queued(l, b, Dereg(l))' => \A j \in DOMAIN net'[l][b] : net'[l][b][j] = EOF
                    /\ Written(l, b, Dereg(l))' \/ Queued(l, b, Dereg(l))' =>
                         \A id \in CompsAt(l) : ~ ExpectedAt(id, b, {Dereg(id)})'
  BY DEF LastWords
<1>1. b \in up /\ b # x /\ x \in up /\ b \in Location /\ info'[b] = info[b] /\ queue'[b] = queue[b]
  BY Ids DEF Ends
<1>2. CASE l # x
  <2>1. net'[l][b] = net[l][b]
    BY <1>2, EndsElsewhere
  <2>2. \A id \in CompsAt(l) : ExpectedAt(id, b, {Dereg(id)})' <=> ExpectedAt(id, b, {Dereg(id)})
    BY <1>2, EndsElsewhere
  <2>3. /\ \A i, j \in DOMAIN net[l][b] :
             i < j /\ net[l][b][i] = Dereg(l) => net[l][b][j] = EOF
        /\ Queued(l, b, Dereg(l)) => \A j \in DOMAIN net[l][b] : net[l][b][j] = EOF
        /\ Written(l, b, Dereg(l)) \/ Queued(l, b, Dereg(l)) =>
             \A id \in CompsAt(l) : ~ ExpectedAt(id, b, {Dereg(id)})
    BY <1>1 DEF Standing, LastWords
  <2> QED
    BY <1>1, <2>1, <2>2, <2>3 DEF Written, Queued
<1>3. CASE l = x
  <2>1. /\ ~ Written(x, b, EOF) /\ ~ Written(x, b, Dereg(x))
        /\ ~ Queued(x, b, EOF) /\ ~ Queued(x, b, Dereg(x))
    BY <1>1 DEF Standing, Links, Open
  <2>2. ~ Queued(x, b, Dereg(x))'
    BY <1>1, <2>1 DEF Queued
  <2>3. EndsNet(x, sent) /\ Farewell(x, sent)
    BY EndsFacts DEF Ends
  <2>4. CASE ~ Linked(x, b)
    <3>1. net'[x][b] = net[x][b]
      BY <1>1, <2>3, <2>4 DEF EndsNet
    <3> QED
      BY <1>3, <2>1, <2>2, <3>1 DEF Written
  <2>5. CASE Linked(x, b)
    <3>1. net'[x][b] = net[x][b] \o sent[b] \o <<EOF>>
      BY <1>1, <2>3, <2>5 DEF EndsNet
    <3>2. /\ net[x][b] \in Seq(Message) /\ sent[b] \in Seq(Message)
          /\ \A i \in DOMAIN net[x][b] : net[x][b][i] # Dereg(x)
          /\ \A i \in DOMAIN sent[b] : sent[b][i] = Dereg(x) => i = Len(sent[b])
      BY <1>1, <1>3, <2>1, <2>3 DEF Standing, IInv, TypeOK, Farewell, Written
    <3>3. ASSUME NEW i \in DOMAIN net'[x][b], NEW j \in DOMAIN net'[x][b],
                 i < j, net'[x][b][i] = Dereg(x)
          PROVE  net'[x][b][j] = EOF
      <4> DEFINE n == net[x][b]
                 s == sent[b]
      <4>1. /\ n \in Seq(Message) /\ s \in Seq(Message)
            /\ \A h \in DOMAIN n : n[h] # Dereg(x)
            /\ \A h \in DOMAIN s : s[h] = Dereg(x) => h = Len(s)
        BY <3>2
      <4>2. net'[x][b] = n \o s \o <<EOF>>
        BY <3>1
      <4> HIDE DEF n, s
      <4>3. /\ i \in DOMAIN (n \o s \o <<EOF>>) /\ j \in DOMAIN (n \o s \o <<EOF>>)
            /\ (n \o s \o <<EOF>>)[i] = Dereg(x)
        BY <3>3, <4>2
      <4>4. (n \o s \o <<EOF>>)[j] = EOF
        BY <3>3, <4>1, <4>3, LastBefore
      <4> QED
        BY <4>2, <4>4
    <3>4. ASSUME Written(x, b, Dereg(x))', NEW id \in CompsAt(x)
          PROVE  ~ ExpectedAt(id, b, {Dereg(id)})'
      <4>1. \E i \in DOMAIN sent[b] : sent[b][i] = Dereg(x)
        <5>1. Dereg(x) # EOF
          BY MessagesDiffer
        <5> QED
          BY <1>1, <1>3, <2>1, <3>4, <5>1, EndsWritten
      <4>2. ~ Turned(sent[b], {Reg(id)}, {Dereg(id)}, Belongs(id, b))
        BY <1>1, <2>3, <4>1 DEF Farewell
      <4>3. ExpectedAt(id, b, {Dereg(id)}) <=> Belongs(id, b)
        <5>1. LocationOf(id) = x /\ id \in Comp
          BY DEF CompsAt
        <5>2. \A k \in DOMAIN net[x][b] : net[x][b][k] # EOF
          BY <2>1 DEF Written
        <5>3. \A k \in DOMAIN queue[b] : queue[b][k] # Entry(LocationOf(id), EOF)
          BY <2>1, <5>1 DEF Queued
        <5>4. ExpectedAt(id, b, {Dereg(id), EOF}) <=> ExpectedAt(id, b, {Dereg(id)})
          <6> DEFINE n == net[x][b]
                     q == queue[b]
                     c == id \in info[b].peers
          <6>1. /\ \A k \in DOMAIN n : n[k] # EOF
                /\ \A k \in DOMAIN q : q[k] # Entry(LocationOf(id), EOF)
                /\ c \in BOOLEAN
            BY <5>2, <5>3
          <6>2. \A ends : ExpectedAt(id, b, ends) <=> Expected(id, n, q, c, ends)
            BY <5>1 DEF ExpectedAt
          <6> HIDE DEF n, q, c
          <6>3. Expected(id, n, q, c, {Dereg(id), EOF}) <=> Expected(id, n, q, c, {Dereg(id)})
            BY <6>1, ExpectedFewerEnds
          <6> QED
            BY <6>2, <6>3
        <5>5. ExpectedAt(id, b, {Dereg(id), EOF}) <=> Belongs(id, b)
          BY <1>1, <5>1 DEF Standing, Accounted
        <5> QED
          BY <5>4, <5>5
      <4> DEFINE c == Turned(sent[b], {Reg(id)}, {Dereg(id)}, ExpectedAt(id, b, {Dereg(id)}))
      <4>4. ~ c
        BY <4>2, <4>3 DEF Turned
      <4>5. ExpectedAt(id, b, {Dereg(id)})' <=> Turned(<<EOF>>, {Reg(id)}, {Dereg(id)}, c)
        BY <2>5, EndsExpected
      <4>6. c \in BOOLEAN
        BY DEF Turned
      <4> HIDE DEF c
      <4>7. Turned(<<EOF>>, {Reg(id)}, {Dereg(id)}, c) <=> EOF \in {Reg(id)} \/ (c /\ EOF \notin {Dereg(id)})
        BY <4>6, TurnedOne
      <4>8. EOF # Reg(id)
        BY MessagesDiffer
      <4> QED
        BY <4>4, <4>5, <4>7, <4>8
    <3> QED
      BY <1>3, <2>2, <3>3, <3>4
  <2> QED
    BY <2>4, <2>5
<1> QED
  BY <1>2, <1>3

(* Together: an end keeps the peers accounted for.                         *)
LEMMA EndsPeers ==
  ASSUME Standing, NEW x, NEW sent, Ends(x, sent)
  PROVE  PeersKept
BY EndsLinks, EndsAccounted, EndsLastWords DEF PeersKept

(* A crash says nothing.                                                   *)
LEMMA SilentFarewell ==
  ASSUME NEW x
  PROVE  Farewell(x, Silence)
<1>1. DOMAIN <<>> = {}
  OBVIOUS
<1>2. \A k \in Location : Silence[k] = <<>>
  BY DEF Silence
<1>3. up \cap Agent \subseteq Location
  BY Ids
<1> QED
  BY <1>1, <1>2, <1>3, SilenceType DEF Farewell

(* An agent that ends leaves nothing in its queue.                         *)
LEMMA BuryAgentEnds ==
  ASSUME Standing, NEW a \in Agent, BuryAgent(a), a \in up,
         NEW sent, Farewell(a, sent), NetStep(a, sent, conn[a], NoAgent)
  PROVE  Ends(a, sent)
<1>1. /\ up' = up \ {a} /\ gone' = gone \cup {a} /\ attach' = attach /\ handles' = handles
      /\ info' = [info EXCEPT ![a] = EmptyInfo] /\ queue' = [queue EXCEPT ![a] = <<>>]
      /\ TypeOK
  BY DEF BuryAgent, Standing, IInv
<1>2. \A b \in Agent \ {a} : info'[b] = info[b] /\ queue'[b] = queue[b]
  BY <1>1 DEF TypeOK
<1>3. QueuesShrink
  <2>1. queue'[a] = <<>>
    BY <1>1 DEF TypeOK
  <2>2. DOMAIN <<>> = {}
    OBVIOUS
  <2> QED
    BY <1>2, <2>1, <2>2 DEF QueuesShrink
<1> QED
  BY <1>1, <1>2, <1>3 DEF Ends

(* The crash of an agent does,                                             *)
LEMMA CrashAgentEnds ==
  ASSUME Standing, NEW a \in Agent, CrashAgent(a)
  PROVE  \E sent : Ends(a, sent)
BY SilentFarewell, BuryAgentEnds DEF CrashAgent

(* FTBM_Finalize deregisters the agent behind the cancels.                 *)
LEMMA DeregLast ==
  ASSUME NEW a \in Agent, NEW s \in Seq(Message), Inert(s)
  PROVE  /\ \A i \in DOMAIN (s \o <<Dereg(a)>>) :
              /\ \A id \in Comp : (s \o <<Dereg(a)>>)[i] \in {Reg(id), Dereg(id)} => id = a
              /\ (s \o <<Dereg(a)>>)[i] = Dereg(a) => i = Len(s \o <<Dereg(a)>>)
         /\ \A b \in BOOLEAN : ~ Turned(s \o <<Dereg(a)>>, {Reg(a)}, {Dereg(a)}, b)
<1> DEFINE f == <<Dereg(a)>>
           u == s \o f
<1>1. Dereg(a) \in Message /\ f \in Seq(Message)
  BY Ids, MessageTypes
<1>2. Len(u) = Len(s) + 1 /\ DOMAIN u = 1..Len(u) /\ u[Len(s) + 1] = Dereg(a)
  BY <1>1, BehindIsLast
<1>3. ASSUME NEW i \in DOMAIN u
      PROVE  /\ \A id \in Comp : u[i] \in {Reg(id), Dereg(id)} => id = a
             /\ u[i] = Dereg(a) => i = Len(u)
  <2>1. \/ \E j \in DOMAIN s : u[i] = s[j] /\ i = j
        \/ \E j \in DOMAIN f : u[i] = f[j] /\ i = Len(s) + j
    BY <1>1, ConcatMembers
  <2>2. \A j \in DOMAIN s : \A id : s[j] # Reg(id) /\ s[j] # Dereg(id)
    BY InertMessages
  <2>3. DOMAIN f = {1} /\ f[1] = Dereg(a)
    OBVIOUS
  <2> HIDE DEF u, f
  <2>4. CASE \E j \in DOMAIN s : u[i] = s[j] /\ i = j
    BY <2>2, <2>4
  <2>5. CASE \E j \in DOMAIN f : u[i] = f[j] /\ i = Len(s) + j
    <3>1. u[i] = Dereg(a) /\ i = Len(u)
      BY <1>2, <2>3, <2>5
    <3> QED
      BY <3>1, MessagesDiffer
  <2> QED
    BY <2>1, <2>4, <2>5
<1>4. ASSUME NEW b \in BOOLEAN PROVE ~ Turned(u, {Reg(a)}, {Dereg(a)}, b)
  <2> DEFINE c == Turned(s, {Reg(a)}, {Dereg(a)}, b)
  <2> HIDE DEF f
  <2>1. Turned(u, {Reg(a)}, {Dereg(a)}, b) <=> Turned(f, {Reg(a)}, {Dereg(a)}, c)
    BY <1>1, TurnedConcat
  <2>2. c \in BOOLEAN
    BY TurnedType
  <2> HIDE DEF u, c
  <2>3. Turned(f, {Reg(a)}, {Dereg(a)}, c) <=> Dereg(a) \in {Reg(a)} \/ (c /\ Dereg(a) \notin {Dereg(a)})
    BY <2>2, TurnedOne DEF f
  <2>4. Dereg(a) # Reg(a)
    BY MessagesDiffer
  <2> QED
    BY <2>1, <2>3, <2>4
<1> QED
  BY <1>3, <1>4

(* FTBM_Finalize does: every agent among the peers is told CLIENT_DEREG    *)
(* last,                                                                   *)
LEMMA FinalizeAgentEnds ==
  ASSUME Standing, NEW a \in Agent, FinalizeAgent(a)
  PROVE  \E sent : Ends(a, sent)
<1> DEFINE I == info[a]
<1>1. PICK ord \in SetToSeqs(I.peers) :
        LET before(b) == {ord[i] : i \in 1..(CHOOSE k \in DOMAIN ord : ord[k] = b) - 1}
            dropped(b) == {m \in CaughtMasks(I) : I.catchMap[m] \subseteq before(b)}
            told(b) == CancelSubs(a, SetToSeq(dropped(b))) \o <<Dereg(a)>>
        IN NetStep(a,
                   [l \in Location |-> IF l \in I.peers \cap Agent THEN told(l) ELSE <<>>],
                   conn[a], NoAgent)
  BY DEF FinalizeAgent
<1> DEFINE before(b) == {ord[i] : i \in 1..(CHOOSE k \in DOMAIN ord : ord[k] = b) - 1}
           dropped(b) == {m \in CaughtMasks(I) : I.catchMap[m] \subseteq before(b)}
           cancels(b) == CancelSubs(a, SetToSeq(dropped(b)))
           told(b) == cancels(b) \o <<Dereg(a)>>
           out == [l \in Location |-> IF l \in I.peers \cap Agent THEN told(l) ELSE <<>>]
<1>2. ASSUME NEW b
      PROVE  /\ cancels(b) \in Seq(Message) /\ Inert(cancels(b))
             /\ \A i \in DOMAIN cancels(b) : \A id, m : cancels(b)[i] = CancelSub(id, m) => id = a
  <2>1. dropped(b) \in SUBSET Mask
    BY DEF CaughtMasks
  <2> HIDE DEF dropped
  <2>2. SetToSeq(dropped(b)) \in Seq(Mask)
    BY <2>1, MaskOrders
  <2>3. \A i \in DOMAIN cancels(b) : \A id, m : cancels(b)[i] = CancelSub(id, m) => id = a
    BY SubsDiffer DEF CancelSubs
  <2> QED
    BY <2>2, <2>3, Ids, SequenceTypes, InertBatches
<1>3. NetStep(a, out, conn[a], NoAgent)
  BY <1>1
<1> HIDE DEF cancels
<1>4. ASSUME NEW b
      PROVE  /\ told(b) \in Seq(Message)
             /\ \A i \in DOMAIN told(b) :
                  /\ \A id \in Comp : told(b)[i] \in {Reg(id), Dereg(id)} => id = a
                  /\ told(b)[i] = Dereg(a) => i = Len(told(b))
                  /\ \A id \in Comp, m \in Mask : told(b)[i] = CancelSub(id, m) => id = a
             /\ \A c \in BOOLEAN : ~ Turned(told(b), {Reg(a)}, {Dereg(a)}, c)
  <2>1. <<Dereg(a)>> \in Seq(Message)
    BY Ids, MessageTypes
  <2>2. told(b) \in Seq(Message)
    BY <1>2, <2>1
  <2>3. \A i \in DOMAIN told(b) : \A id \in Comp, m \in Mask : told(b)[i] = CancelSub(id, m) => id = a
    <3>1. MadeOf(told(b), cancels(b), <<Dereg(a)>>)
      BY <1>2, <2>1, MessageMembers
    <3>2. \A i \in DOMAIN <<Dereg(a)>> : \A id, m : <<Dereg(a)>>[i] # CancelSub(id, m)
      BY SubsDiffer
    <3> HIDE DEF told
    <3> QED
      BY <1>2, <3>1, <3>2 DEF MadeOf
  <2> QED
    BY <1>2, <2>2, <2>3, DeregLast
<1> HIDE DEF told
<1>5. \A l \in Location : out[l] = told(l) \/ out[l] = <<>>
  OBVIOUS
<1>6. out \in [Location -> Seq(Message)]
  BY <1>4
<1> HIDE DEF out
<1>7. DOMAIN <<>> = {}
  OBVIOUS
<1>8. ASSUME NEW k \in Location, NEW i \in DOMAIN out[k]
      PROVE  /\ \A id \in Comp : out[k][i] \in {Reg(id), Dereg(id)} => LocationOf(id) = a
             /\ out[k][i] = Dereg(a) => i = Len(out[k])
             /\ \A id \in Comp, m \in Mask : out[k][i] = CancelSub(id, m) => LocationOf(id) = a
  <2>1. out[k] = told(k)
    BY <1>5, <1>7, <1>8
  <2>2. LocationOf(a) = a
    BY Ids
  <2> QED
    BY <1>4, <1>8, <2>1, <2>2
<1>9. ASSUME NEW b \in up \cap Agent, NEW i \in DOMAIN out[b], NEW id \in CompsAt(a)
      PROVE  ~ Turned(out[b], {Reg(id)}, {Dereg(id)}, Belongs(id, b))
  <2>1. out[b] = told(b)
    BY <1>5, <1>7, <1>9, Ids
  <2>2. id = a
    BY HostOfType, IdsAreDistinct DEF CompsAt, LocationOf
  <2>3. Belongs(id, b) \in BOOLEAN
    BY DEF Belongs
  <2> QED
    BY <1>4, <2>1, <2>2, <2>3
<1>10. Farewell(a, out)
  BY <1>6, <1>8, <1>9 DEF Farewell
<1> QED
  BY <1>3, <1>10, BuryAgentEnds DEF FinalizeAgent

(* and the crash of a client process.                                      *)
LEMMA CrashProcessEnds ==
  ASSUME Standing, NEW p \in Process, CrashProcess(p)
  PROVE  \E sent : Ends(p, sent)
<1>1. /\ p \in up /\ p \notin Agent /\ up' = up \ {p} /\ gone' = gone \cup {p}
      /\ NetStep(p, Silence, conn[p], NoAgent)
      /\ attach' = [attach EXCEPT ![p] = NoAgent] /\ handles' = handles \ OpenAt(p)
      /\ info' = info /\ queue' = queue /\ TypeOK
  BY IdsAreDistinct DEF CrashProcess, Standing, IInv
<1>2. \A q \in Process \ {p} : attach'[q] = attach[q]
  BY <1>1 DEF TypeOK
<1>3. \A c \in Client : HostOf[c] # p => (c \in handles' <=> c \in handles)
  BY <1>1 DEF OpenAt
<1>4. QueuesShrink
  BY <1>1 DEF QueuesShrink
<1>5. Ends(p, Silence)
  BY <1>1, <1>2, <1>3, <1>4, SilentFarewell DEF Ends
<1> QED
  BY <1>5

(* The last handle of a process deregisters, and the process behind it.    *)
LEMMA DisconnectLastEnds ==
  ASSUME Standing, NEW c \in Client, Disconnect(c), OpenAt(HostOf[c]) = {c}
  PROVE  \E sent : Ends(HostOf[c], sent)
<1> DEFINE p == HostOf[c]
           ms == <<Dereg(c), Dereg(p)>>
           sent == Cast({attach[p]}, ms)
<1>1. /\ c \in handles /\ p \in up \cap Process /\ c \in Comp /\ p \in Comp /\ c # p
      /\ LocationOf(c) = p /\ LocationOf(p) = p /\ TypeOK
  BY HostRuns, Ids, IdsAreDistinct DEF Disconnect, Comp, LocationOf, Standing, IInv
<1>2. /\ NetStep(p, sent, conn[p], NoAgent)
      /\ up' = up \ {p} /\ gone' = gone \cup {p}
      /\ attach' = [attach EXCEPT ![p] = NoAgent] /\ handles' = handles \ {c}
      /\ info' = info /\ queue' = queue
  BY DEF Disconnect
<1>3. ms \in Seq(Message) /\ DOMAIN ms = {1, 2} /\ ms[1] = Dereg(c) /\ ms[2] = Dereg(p) /\ Len(ms) = 2
  BY <1>1, MessageTypes
<1> HIDE DEF ms
<1>4. sent \in [Location -> Seq(Message)]
  BY <1>3, CastType
<1>5. \A l \in Location : \A i \in DOMAIN sent[l] : sent[l] = ms
  <2>1. DOMAIN <<>> = {}
    OBVIOUS
  <2> QED
    BY <2>1 DEF Cast
<1> HIDE DEF sent
<1>6. ASSUME NEW i \in DOMAIN ms
      PROVE  /\ \A id \in Comp : ms[i] \in {Reg(id), Dereg(id)} => LocationOf(id) = p
             /\ ms[i] = Dereg(p) => i = Len(ms)
             /\ \A id, m : ms[i] # CancelSub(id, m)
  <2>1. CASE i = 1
    BY <1>1, <1>3, <2>1, MessagesDiffer, SubsDiffer
  <2>2. CASE i = 2
    BY <1>1, <1>3, <2>2, MessagesDiffer, SubsDiffer
  <2> QED
    BY <1>3, <2>1, <2>2
<1>7. ASSUME NEW b \in Agent, NEW id \in CompsAt(p)
      PROVE  ~ Turned(ms, {Reg(id)}, {Dereg(id)}, Belongs(id, b))
  <2>1. \A i \in DOMAIN ms : ms[i] # Reg(id)
    BY <1>3, MessagesDiffer
  <2>2. id = c \/ id = p \/ ~ Belongs(id, b)
    <3>1. id \in Client => HostOf[id] = p
      BY IdsAreDistinct DEF CompsAt, LocationOf
    <3>2. id \in handles => id \in OpenAt(p)
      BY <1>1, <3>1 DEF OpenAt, TypeOK
    <3>3. Belongs(id, b) => id = p \/ id \in handles
      BY <1>1, OwnBelongs DEF Standing
    <3> QED
      BY <3>2, <3>3
  <2> QED
    BY <1>3, <2>1, <2>2 DEF Turned
<1>8. Farewell(p, sent)
  <2>1. ASSUME NEW k \in Location, NEW i \in DOMAIN sent[k]
        PROVE  /\ \A id \in Comp : sent[k][i] \in {Reg(id), Dereg(id)} => LocationOf(id) = p
               /\ sent[k][i] = Dereg(p) => i = Len(sent[k])
               /\ \A id \in Comp, m \in Mask : sent[k][i] = CancelSub(id, m) => LocationOf(id) = p
    BY <1>5, <1>6, <2>1
  <2>2. ASSUME NEW b \in up \cap Agent, NEW i \in DOMAIN sent[b], NEW id \in CompsAt(p)
        PROVE  ~ Turned(sent[b], {Reg(id)}, {Dereg(id)}, Belongs(id, b))
    <3>1. sent[b] = ms
      BY <1>5, <2>2, Ids
    <3> QED
      BY <1>7, <3>1
  <2> QED
    BY <1>4, <2>1, <2>2 DEF Farewell
<1>9. \A q \in Process \ {p} : attach'[q] = attach[q]
  BY <1>2, <1>1 DEF TypeOK
<1>10. \A d \in Client : HostOf[d] # p => (d \in handles' <=> d \in handles)
  BY <1>2
<1>11. QueuesShrink
  BY <1>2 DEF QueuesShrink
<1>12. Ends(p, sent)
  BY <1>1, <1>2, <1>8, <1>9, <1>10, <1>11 DEF Ends
<1> QED
  BY <1>12

-----------------------------------------------------------------------------
(* Every step.                                                             *)

(* However its handler ends, an agent takes no report of an error back.    *)
LEMMA FinishErrors ==
  ASSUME IInv, NEW a \in Agent, NEW J, NEW out, NEW closed,
         NEW errors \in SUBSET conn[a], NEW lostParent,
         Finish(a, J, out, closed, errors, lostParent)
  PROVE  writeErrors' >= writeErrors
<1>1. PICK failed \in SUBSET (Broken(a, out) \ closed) :
        writeErrors' = writeErrors + Cardinality(errors \cup failed)
  BY DEF Finish
<1>2. errors \cup failed \in SUBSET Location
  <2>1. conn[a] \in SUBSET Location
    BY Ids DEF IInv, TypeOK
  <2> QED
    BY <2>1 DEF Broken
<1>3. Cardinality(errors \cup failed) \in Nat
  BY <1>2, FiniteSubsets, FS_CardinalityType
<1>4. writeErrors \in Nat
  BY DEF IInv, TypeOK
<1> QED
  BY <1>1, <1>3, <1>4

(* This is so of every handler.                                            *)
LEMMA DispatchErrors ==
  ASSUME IInv, NEW a \in Agent, Dispatch(a)
  PROVE  writeErrors' >= writeErrors
<1>1. ASSUME NEW J, NEW out, Answer(a, J, out) PROVE writeErrors' >= writeErrors
  <2>1. {} \in SUBSET conn[a] /\ Finish(a, J, out, {}, {}, FALSE)
    BY <1>1 DEF Answer
  <2> QED
    BY <2>1, FinishErrors
<1>2. ASSUME NEW J, NEW out, NEW closed, NEW errors \in SUBSET conn[a], NEW lostParent,
             Finish(a, J, out, closed, errors, lostParent)
      PROVE  writeErrors' >= writeErrors
  BY <1>2, FinishErrors
<1>3. {} \in SUBSET conn[a] /\ \A S : S \cap conn[a] \in SUBSET conn[a]
  OBVIOUS
<1>4. CASE HandleNotify(a)
  BY <1>2, <1>3, <1>4 DEF HandleNotify
<1>5. CASE HandleClientReg(a)
  BY <1>1, <1>5 DEF HandleClientReg
<1>6. CASE HandleClientDereg(a)
  BY <1>1, <1>2, <1>3, <1>6 DEF HandleClientDereg
<1>7. CASE HandleCleanup(a)
  BY <1>2, <1>3, <1>7 DEF HandleCleanup
<1>8. CASE HandleRegSubscription(a)
  BY <1>1, <1>8 DEF HandleRegSubscription
<1>9. CASE HandleCancel(a)
  BY <1>1, <1>9 DEF HandleCancel
<1> QED
  BY <1>4, <1>5, <1>6, <1>7, <1>8, <1>9 DEF Dispatch

(* An error that was reported stays reported.                              *)
LEMMA ErrorsStay ==
  ASSUME IInv, IInv', [Next]_vars, writeErrors' = 0
  PROVE  Calm /\ \A p \in Process : ~ SendUpFails(p)
<1>0. writeErrors \in Nat
  BY DEF IInv, TypeOK
<1>1. ASSUME NEW a \in Agent, AgentStep(a) PROVE writeErrors = 0
  <2>1. CASE Dispatch(a)
    BY <1>0, <2>1, DispatchErrors
  <2>2. CASE \E x \in Location : Grab(a, x)
    BY <2>2 DEF Grab
  <2> QED
    BY <1>1, <2>1, <2>2 DEF AgentStep
<1>2. ASSUME NEW p \in Process, ProcessStep(p) PROVE writeErrors = 0
  BY <1>2 DEF ProcessStep, Receive, ReceiveEOF
<1>3. \A p \in Process : ~ SendUpFails(p)
  BY <1>0 DEF SendUpFails
<1>4. ASSUME Call PROVE writeErrors = 0
  <2>1. \A p, ms : SendUp(p, ms) => writeErrors' = writeErrors
    BY DEF SendUp
  <2>2. ASSUME NEW c \in Client, Connect(c) \/ Disconnect(c) PROVE writeErrors = 0
    BY <2>1, <2>2 DEF Connect, Disconnect
  <2>3. ASSUME NEW c \in Client, NEW m \in Mask, Subscribe(c, m) \/ Unsubscribe(c, m)
        PROVE  writeErrors = 0
    BY <2>1, <2>3 DEF Subscribe, Unsubscribe
  <2>4. ASSUME NEW c \in Client, NEW e \in Event, Publish(c, e) PROVE writeErrors = 0
    BY <2>1, <2>4 DEF Publish
  <2> QED
    BY <1>3, <1>4, <2>2, <2>3, <2>4 DEF Call
<1>5. ASSUME ComeAndGo PROVE writeErrors = 0
  BY <1>5 DEF ComeAndGo, StartAgent, CrashAgent, FinalizeAgent, BuryAgent, CrashProcess
<1>6. ASSUME UNCHANGED vars PROVE writeErrors = 0
  BY <1>6 DEF vars
<1>7. writeErrors = 0
  BY <1>1, <1>2, <1>4, <1>5, <1>6 DEF Next
<1> QED
  BY <1>3, <1>7 DEF Calm

(* Every step of an agent,                                                 *)
LEMMA AgentPeers ==
  ASSUME Standing, Calm, NEW a \in Agent, AgentStep(a)
  PROVE  PeersKept
<1>1. CASE Dispatch(a)
  <2>1. Handled(a)
    BY <1>1, NotifyHandled, ClientRegHandled, ClientDeregHandled, CleanupHandled,
       RegSubscriptionHandled, CancelHandled DEF Dispatch
  <2>2. a \in up
    BY <1>1 DEF Dispatch, HandleNotify, HandleClientReg, HandleClientDereg, HandleCleanup,
                HandleRegSubscription, HandleCancel, Takes
  <2> QED
    BY <2>1, <2>2, HandledPeers
<1>2. ASSUME NEW x \in Location, Grab(a, x)
      PROVE  PeersKept
  BY <1>2, GrabPeers
<1> QED
  BY <1>1, <1>2 DEF AgentStep

(* every call of an application,                                           *)
LEMMA CallPeers ==
  ASSUME Standing, Calm, Call, \A p \in Process : ~ SendUpFails(p)
  PROVE  PeersKept
BY ConnectPeers, DisconnectOnePeers, DisconnectLastEnds, EndsPeers, SubscribePeers,
   UnsubscribePeers, PublishPeers DEF Call

(* every start and end of a process,                                       *)
LEMMA ComeAndGoPeers ==
  ASSUME Standing, ComeAndGo
  PROVE  PeersKept
BY StartAgentPeers, CrashAgentEnds, FinalizeAgentEnds, CrashProcessEnds, EndsPeers DEF ComeAndGo

(* and standing still keep the peers accounted for.                        *)
LEMMA StillPeers ==
  ASSUME Standing, UNCHANGED vars
  PROVE  PeersKept
<1>1. /\ up' = up /\ gone' = gone /\ info' = info /\ conn' = conn /\ net' = net
      /\ queue' = queue /\ attach' = attach /\ handles' = handles
  BY DEF vars, app
<1>2. Links /\ Accounted /\ LastWords
  BY DEF Standing
<1>3. \A l, k, m : Written(l, k, m)' <=> Written(l, k, m)
  BY <1>1 DEF Written
<1>4. \A l, k, m : Queued(l, k, m)' <=> Queued(l, k, m)
  BY <1>1 DEF Queued
<1>5. \A l, k : Linked(l, k)' <=> Linked(l, k)
  BY <1>1 DEF Linked
<1>6. \A l, k : Belongs(l, k)' <=> Belongs(l, k)
  BY <1>1 DEF Belongs
<1>7. \A l, k, ends : ExpectedAt(l, k, ends)' <=> ExpectedAt(l, k, ends)
  BY <1>1 DEF ExpectedAt
<1>8. NoSelf' /\ Fresh' /\ OnlyAttached'
  BY <1>1, <1>2 DEF Links, NoSelf, Fresh, OnlyAttached
<1>9. Own' /\ Open' /\ Joined'
  BY <1>1, <1>2, <1>3, <1>4, <1>5, <1>6 DEF Links, Own, Open, Joined
<1>10. Accounted'
  BY <1>1, <1>2, <1>6, <1>7 DEF Accounted
<1>11. LastWords'
  BY <1>1, <1>2, <1>3, <1>4, <1>7 DEF LastWords
<1> QED
  BY <1>1, <1>2, <1>8, <1>9, <1>10, <1>11 DEF PeersKept, Links

(* Every step keeps the invariant.                                         *)
LEMMA PeersStep ==
  ASSUME IInv, IInv', PeersInv, [Next]_vars
  PROVE  PeersInv'
<1> SUFFICES ASSUME writeErrors' = 0 PROVE PeersKept
  BY DEF PeersInv, PeersKept
<1>1. Calm /\ \A p \in Process : ~ SendUpFails(p)
  BY ErrorsStay
<1>2. Standing
  BY <1>1 DEF Standing, Calm, PeersInv
<1>3. CASE \E a \in Agent : AgentStep(a)
  BY <1>1, <1>2, <1>3, AgentPeers
<1>4. CASE \E p \in Process : ProcessStep(p)
  BY <1>2, <1>4, ReceivePeers, ReceiveEOFPeers DEF ProcessStep
<1>5. CASE Call
  BY <1>1, <1>2, <1>5, CallPeers
<1>6. CASE ComeAndGo
  BY <1>2, <1>6, ComeAndGoPeers
<1>7. CASE UNCHANGED vars
  BY <1>2, <1>7, StillPeers
<1> QED
  BY <1>3, <1>4, <1>5, <1>6, <1>7 DEF Next

(* In the initial tree, the peers are the parent and the children.         *)
LEMMA PeersInit ==
  ASSUME Init
  PROVE  PeersInv
<1>1. /\ up = Running /\ gone = {} /\ handles = {} /\ Running \subseteq Agent
      /\ \A a \in Agent : info[a].peers = BootPeers(a) /\ info[a].parent = Boot[a].parent
      /\ \A a \in Agent : conn[a] = BootPeers(a) /\ queue[a] = <<>>
      /\ \A p \in Process : conn[p] = {}
      /\ \A l, k \in Location : net[l][k] = <<>>
  BY Ids, IdsAreDistinct DEF Init, Running, EmptyInfo
<1>2. DOMAIN <<>> = {}
  OBVIOUS
<1>3. \A l, k \in Location : \A m : ~ Written(l, k, m)
  BY <1>1, <1>2 DEF Written
<1>4. \A l, m : \A a \in Agent : ~ Queued(l, a, m)
  BY <1>1, <1>2 DEF Queued
<1>5. \A a \in Agent : a \notin BootPeers(a)
  BY BootTree DEF BootPeers
<1>6. \A a \in Agent : a \notin Running => BootPeers(a) = {}
  BY BootTree DEF BootPeers, Running
<1>7. \A a, b \in Running : b \in BootPeers(a) <=> Boot[b].parent = a \/ Boot[a].parent = b
  BY DEF BootPeers
<1>8. NoSelf
  BY <1>1, <1>5 DEF NoSelf, Location
<1>9. Fresh
  <2> SUFFICES ASSUME NEW x \in Location, x \notin up
               PROVE  /\ conn[x] = {}
                      /\ \A y \in Location : net[x][y] = <<>> /\ net[y][x] = <<>>
                      /\ \A a \in Agent : \A i \in DOMAIN queue[a] : queue[a][i].from # x
                      /\ x \in Agent => queue[x] = <<>>
                      /\ \A a \in up \cap Agent : info[a].parent # x
                      /\ \A p \in up \cap Process : attach[p] # x
    BY DEF Fresh
  <2>1. conn[x] = {}
    BY <1>1, <1>6 DEF Location
  <2>2. \A a \in up \cap Agent : info[a].parent # x
    BY <1>1, BootTree, Ids
  <2>3. up \cap Process = {}
    BY <1>1, IdsAreDistinct
  <2> QED
    BY <1>1, <1>2, <2>1, <2>2, <2>3
<1>10. \A a \in Running, id \in Comp :
         Belongs(id, a) <=> id \in Running /\ id \in BootPeers(a)
  BY <1>1, <1>7, IdsAreDistinct DEF Belongs
<1>11. Joined
  <2> SUFFICES ASSUME NEW a \in up \cap Agent, NEW l \in up, Belongs(l, a)
               PROVE  Linked(a, l)
    BY DEF Joined
  <2>1. a \in Running /\ l \in Running /\ l \in Comp /\ l \in Agent
    BY <1>1, Ids
  <2>2. l \in BootPeers(a) /\ a \in BootPeers(l)
    BY <1>7, <1>10, <2>1
  <2> QED
    BY <1>1, <2>1, <2>2 DEF Linked
<1>12. Own /\ Open /\ OnlyAttached
  <2>1. up \subseteq Location /\ up \cap Process = {}
    BY <1>1, Ids, IdsAreDistinct
  <2> QED
    BY <1>3, <1>4, <2>1 DEF Own, Open, OnlyAttached
<1>13. Links
  BY <1>1, <1>8, <1>9, <1>11, <1>12 DEF Links
<1>14. Accounted
  <2> SUFFICES ASSUME NEW a \in up \cap Agent, NEW id \in Comp
               PROVE  ExpectedAt(id, a, {Dereg(id), EOF}) <=> Belongs(id, a)
    BY DEF Accounted
  <2> DEFINE n == net[LocationOf(id)][a]
             q == queue[a]
             b == id \in info[a].peers
  <2>1. n = <<>> /\ q = <<>> /\ b \in BOOLEAN
    BY <1>1, Ids
  <2>2. ExpectedAt(id, a, {Dereg(id), EOF}) <=> Expected(id, n, q, b, {Dereg(id), EOF})
    BY DEF ExpectedAt
  <2> HIDE DEF n, q, b
  <2>3. Expected(id, n, q, b, {Dereg(id), EOF}) <=> b
    BY <1>2, <2>1, ExpectedNow
  <2>4. b <=> id \in BootPeers(a)
    BY <1>1 DEF b
  <2>5. id \in BootPeers(a) => id \in Running
    BY DEF BootPeers
  <2> QED
    BY <1>1, <1>10, <2>2, <2>3, <2>4, <2>5
<1>15. LastWords
  BY <1>1, <1>2, <1>3, <1>4, Ids DEF LastWords
<1> QED
  BY <1>13, <1>14, <1>15 DEF PeersInv

(* Whatever comes and goes, the peers stay accounted for.                  *)
THEOREM PeersAccounted == Spec => []PeersInv
<1>1. Init => PeersInv
  BY PeersInit
<1>2. IInv /\ IInv' /\ PeersInv /\ [Next]_vars => PeersInv'
  BY PeersStep
<1> QED
  BY <1>1, <1>2, Invariance, PTL DEF Spec

(* Once nothing is in flight, the peers of an agent are those that belong  *)
(* to it.                                                                  *)
LEMMA QuietPeers ==
  ASSUME Quiet, Accounted, NEW a \in up \cap Agent, NEW id \in Comp
  PROVE  id \in info[a].peers <=> Belongs(id, a)
<1> DEFINE n == net[LocationOf(id)][a]
           q == queue[a]
           b == id \in info[a].peers
<1>1. n = <<>> /\ q = <<>> /\ b \in BOOLEAN /\ DOMAIN <<>> = {}
  BY Ids DEF Quiet
<1>2. ExpectedAt(id, a, {Dereg(id), EOF}) <=> Expected(id, n, q, b, {Dereg(id), EOF})
  BY DEF ExpectedAt
<1> HIDE DEF n, q, b
<1>3. Expected(id, n, q, b, {Dereg(id), EOF}) <=> b
  BY <1>1, ExpectedNow
<1>4. ExpectedAt(id, a, {Dereg(id), EOF}) <=> Belongs(id, a)
  BY DEF Accounted
<1> QED
  BY <1>2, <1>3, <1>4 DEF b

(* Once nothing is in flight, who was accounted for is a peer.             *)
LEMMA AccountsSettle ==
  ASSUME IInv, PeersInv
  PROVE  PeersSettle
<1> SUFFICES ASSUME Quiet, writeErrors = 0, NEW a \in up \cap Agent
             PROVE  info[a].peers =
                      ({info[a].parent} \ {NoAgent})
                        \cup {b \in up \cap Agent : info[b].parent = a}
                        \cup {p \in up \cap Process : attach[p] = a}
                        \cup {c \in handles : attach[HostOf[c]] = a}
  BY DEF PeersSettle
<1>1. Accounted
  BY DEF PeersInv
<1>2. \A id \in Comp : id \in info[a].peers <=> Belongs(id, a)
  BY <1>1, QuietPeers
<1>3. /\ info[a].peers \subseteq Comp /\ info[a].parent \in Agent \cup {NoAgent}
      /\ info[a].parent # NoAgent => info[a].parent \in info[a].peers
      /\ handles \subseteq Comp /\ up \subseteq Comp
  BY Ids DEF IInv, TypeOK, Info, ParentIsPeer, ParentInPeers, Comp
<1>4. ASSUME NEW id \in Comp
      PROVE  Belongs(id, a) <=>
               \/ id = info[a].parent /\ id # NoAgent
               \/ id \in up \cap Agent /\ info[id].parent = a
               \/ id \in up \cap Process /\ attach[id] = a
               \/ id \in handles /\ attach[HostOf[id]] = a
  <2>1. ASSUME id = info[a].parent, id # NoAgent PROVE Belongs(id, a)
    BY <1>2, <1>3, <2>1
  <2> QED
    BY <2>1, Ids DEF Belongs
<1>5. NoAgent \notin Comp
  BY Ids
<1> QED
  BY <1>2, <1>3, <1>4, <1>5

(* Once nothing is in flight, the peers of an agent are its parent, its    *)
(* children, the processes attached to it and their open handles, as long  *)
(* as no write reported an error.                                          *)
THEOREM PeersAlwaysSettle == Spec => []PeersSettle
<1>1. IInv /\ PeersInv => PeersSettle
  BY AccountsSettle
<1> QED
  BY <1>1, Invariance, PeersAccounted, PTL

-----------------------------------------------------------------------------
(***************************************************************************)
(* The interest reaches.  Who is to know of an interest learns it one      *)
(* message at a time, from agent to agent; the invariant says what each    *)
(* agent will know of its neighbours and its clients once everything on    *)
(* its way was handled, at any moment.                                     *)
(***************************************************************************)

(* Words after which the interest of id in m does not count any more:      *)
(* registering anew takes all of them away, too, if it follows an end.     *)
Retracts(id, m) == {CancelSub(id, m), Reg(id), Dereg(id), EOF}

(* Whether agent a will know of the interest of id in m, once what is on   *)
(* its way from there was handled.                                         *)
KnownAt(id, m, a) ==
  Heard(RegSub(id, m), LocationOf(id), net[LocationOf(id)][a], queue[a],
        id \in info[a].catchMap[m], Retracts(id, m))

(* Whether agent a is to know of it: a neighbour is to know of what any    *)
(* other component asks for, the agent of a client of its subscriptions.   *)
Wants(id, m, a) ==
  \/ id \in up \cap Agent /\ a \in info[id].peers /\ Asks(info[id], a, m)
  \/ id \in handles /\ m \in subs[id] /\ attach[HostOf[id]] = a

(* Who is to know will know;                                               *)
Heeded ==
  \A a \in up \cap Agent, id \in Comp, m \in Mask : Wants(id, m, a) => KnownAt(id, m, a)

(* a location cancels the interests of its own components only,            *)
OwnCancels ==
  \A l \in Location : \A id \in Comp, m \in Mask : LocationOf(id) # l =>
    /\ \A k \in Location : ~ Written(l, k, CancelSub(id, m))
    /\ \A a \in Agent : ~ Queued(l, a, CancelSub(id, m))

(* a process whose agent ended will be told,                               *)
Noticed == \A p \in up \cap Process : attach[p] \notin up => Written(attach[p], p, EOF)

(* and a handle that is not open holds no subscription.                    *)
Shut == \A c \in Client : c \notin handles => subs[c] = {}

(* The invariant: as long as no write reported an error.                   *)
Known == Heeded /\ OwnCancels /\ Noticed /\ Shut
InterestInv == writeErrors = 0 => Known

-----------------------------------------------------------------------------
(* What is known.                                                          *)

(* What comes before the last word of either kind does not count.          *)
LEMMA TurnedForgets ==
  ASSUME NEW s, NEW yes, NEW no, NEW b \in BOOLEAN, NEW c \in BOOLEAN,
         Turned(s, yes, no, b), \E i \in DOMAIN s : s[i] \in no
  PROVE  Turned(s, yes, no, c)
BY DEF Turned

(* So is it with what is on its way: once something there retracts, what   *)
(* was known before does not count.                                        *)
LEMMA HeardForgets ==
  ASSUME NEW w, NEW l, NEW n, NEW q, NEW b \in BOOLEAN, NEW c \in BOOLEAN, NEW ends,
         Heard(w, l, n, q, b, ends),
         \/ \E i \in DOMAIN n : n[i] \in ends
         \/ \E i \in DOMAIN q : q[i] \in Entries(l, ends)
  PROVE  Heard(w, l, n, q, c, ends)
<1> DEFINE before(d) == Turned(q, {Entry(l, w)}, Entries(l, ends), d)
<1>1. before(b) \in BOOLEAN /\ before(c) \in BOOLEAN
  BY TurnedType
<1>2. \A d : Heard(w, l, n, q, d, ends) <=> Turned(n, {w}, ends, before(d))
  BY DEF Heard
<1>3. CASE \E i \in DOMAIN n : n[i] \in ends
  <2> HIDE DEF before
  <2> QED
    BY <1>1, <1>2, <1>3, TurnedForgets
<1>4. CASE \E i \in DOMAIN q : q[i] \in Entries(l, ends)
  <2>1. before(b) => before(c)
    BY <1>4, TurnedForgets
  <2> HIDE DEF before
  <2> QED
    BY <1>1, <1>2, <2>1, TurnedMonotone DEF Turned
<1> QED
  BY <1>3, <1>4

(* A component of an agent is a component of its location.                 *)
LEMMA AgentLocation ==
  /\ \A a \in Agent : LocationOf(a) = a /\ a \in Comp /\ a \in Location
  /\ \A id \in Comp : LocationOf(id) \in Agent => id = LocationOf(id)
  /\ \A c \in Client : LocationOf(c) = HostOf[c] /\ HostOf[c] \in Process /\ c \in Comp
                       /\ c \notin Agent /\ c \notin Process
  /\ \A p \in Process : LocationOf(p) = p /\ p \notin Agent /\ p \in Location
BY IdsAreDistinct, HostOfType DEF LocationOf, Comp, Location

(* Whether agent a knows is the truth of a formula, whatever is on its way.*)
LEMMA KnownType ==
  ASSUME NEW id, NEW m, NEW a
  PROVE  KnownAt(id, m, a) \in BOOLEAN
BY HeardType DEF KnownAt

(* Two agents that run are connected if one lists the other: whoever it    *)
(* lists that runs belongs to it.                                          *)
LEMMA ListedBelongs ==
  ASSUME IInv, Links, Accounted, NEW a \in up \cap Agent, NEW b \in up \cap Agent,
         b \in info[a].peers
  PROVE  Belongs(b, a) /\ Belongs(a, b)
<1>1. LocationOf(b) = b /\ b \in Comp
  BY AgentLocation
<1>2. /\ \A k \in DOMAIN net[b][a] : net[b][a][k] \notin {Dereg(b), EOF}
      /\ \A k \in DOMAIN queue[a] : queue[a][k] \notin Entries(b, {Dereg(b), EOF})
  BY DEF Links, Open, Written, Queued, Entries
<1>3. Expected(b, net[b][a], queue[a], TRUE, {Dereg(b), EOF})
  BY <1>1, <1>2, ExpectedStays
<1>4. ExpectedAt(b, a, {Dereg(b), EOF})
  BY <1>1, <1>3 DEF ExpectedAt
<1>5. Belongs(b, a)
  BY <1>1, <1>4 DEF Accounted
<1>6. b \notin Process /\ b \notin handles
  BY AgentLocation DEF IInv, TypeOK
<1> QED
  BY <1>5, <1>6 DEF Belongs

(* So does an agent that is not listed yet, if its registration is next.   *)
LEMMA StaysBelongs ==
  ASSUME IInv, Links, Accounted, NEW a \in up \cap Agent, NEW b \in up \cap Agent,
         queue[a] # <<>>, Stays(b, a)
  PROVE  Belongs(b, a) /\ Belongs(a, b)
<1>1. LocationOf(b) = b /\ b \in Comp /\ queue[a] \in Seq(QueueEntry)
  BY AgentLocation DEF IInv, TypeOK
<1>2. /\ \A k \in DOMAIN net[b][a] : net[b][a][k] \notin {Dereg(b), EOF}
      /\ \A k \in DOMAIN queue[a] : queue[a][k] \notin Entries(b, {Dereg(b), EOF})
  BY DEF Links, Open, Written, Queued, Entries
<1>3. \A k \in DOMAIN Tail(queue[a]) : Tail(queue[a])[k] \notin Entries(b, {Dereg(b), EOF})
  <2>1. \A k \in DOMAIN Tail(queue[a]) : k + 1 \in DOMAIN queue[a] /\ Tail(queue[a])[k] = queue[a][k + 1]
    BY <1>1
  <2> QED
    BY <1>2, <2>1
<1>4. Expected(b, net[b][a], Tail(queue[a]), TRUE, {Dereg(b), EOF})
  <2> HIDE DEF Stays
  <2> QED
    BY <1>1, <1>2, <1>3, ExpectedStays
<1>5. Expected(b, net[b][a], queue[a], b \in info[a].peers, {Dereg(b), EOF})
  <2>1. TRUE <=> \/ Head(queue[a]) = Entry(LocationOf(b), Reg(b))
                 \/ (b \in info[a].peers) /\ Head(queue[a]) \notin Entries(LocationOf(b), {Dereg(b), EOF})
    BY DEF Stays
  <2>2. ASSUME NEW c \in BOOLEAN, c <=> b \in info[a].peers, NEW d \in BOOLEAN, d
        PROVE  Expected(b, net[b][a], Tail(queue[a]), d, {Dereg(b), EOF})
                 <=> Expected(b, net[b][a], queue[a], c, {Dereg(b), EOF})
    <3>1. d <=> \/ Head(queue[a]) = Entry(LocationOf(b), Reg(b))
                \/ c /\ Head(queue[a]) \notin Entries(LocationOf(b), {Dereg(b), EOF})
      BY <2>1, <2>2
    <3> HIDE DEF Stays
    <3> QED
      BY <1>1, <3>1, ExpectedTake
  <2>3. (b \in info[a].peers) \in BOOLEAN
    OBVIOUS
  <2> QED
    BY <1>4, <2>2, <2>3
<1>6. ExpectedAt(b, a, {Dereg(b), EOF})
  BY <1>1, <1>5 DEF ExpectedAt
<1>7. Belongs(b, a)
  BY <1>1, <1>6 DEF Accounted
<1>8. b \notin Process /\ b \notin handles
  BY AgentLocation DEF IInv, TypeOK
<1> QED
  BY <1>7, <1>8 DEF Belongs

(* Who is to be known at an agent belongs to it.                           *)
LEMMA WantsBelongs ==
  ASSUME IInv, Links, Accounted, NEW a \in up \cap Agent, NEW id \in Comp, NEW m \in Mask,
         Wants(id, m, a)
  PROVE  /\ Belongs(id, a) /\ LocationOf(id) \in up /\ LocationOf(id) # a
         /\ Linked(a, LocationOf(id))
<1>1. Belongs(id, a)
  <2>1. CASE id \in up \cap Agent /\ a \in info[id].peers
    BY <2>1, ListedBelongs
  <2>2. CASE id \in handles /\ attach[HostOf[id]] = a
    BY <2>2 DEF Belongs
  <2> QED
    BY <2>1, <2>2 DEF Wants
<1>2. LocationOf(id) \in up /\ Linked(a, LocationOf(id))
  BY <1>1, BelongsLinked
<1>3. LocationOf(id) # a
  BY <1>2, Ids DEF Links, NoSelf, Linked
<1> QED
  BY <1>1, <1>2, <1>3

(* The step is taken in a state of both invariants, and keeps the first.   *)
Watched == Standing /\ PeersKept /\ Known

(* What others of the tree know of each other is not affected.             *)
LEMMA MoveUntouched ==
  ASSUME Watched, NEW x, NEW sent, NEW closed, NEW p, Move(x, sent, closed, p),
         NEW a \in up' \cap Agent, a # x, NEW id \in Comp, LocationOf(id) # x, NEW m \in Mask,
         id \in Client => subs'[id] = subs[id]
  PROVE  Wants(id, m, a)' => KnownAt(id, m, a)'
<1>1. LocationOf(id) \in Location /\ Standing
  BY Ids DEF Watched
<1>2. a \in up /\ net'[LocationOf(id)][a] = net[LocationOf(id)][a]
      /\ info'[a] = info[a] /\ queue'[a] = queue[a]
  BY <1>1, MoveElsewhere
<1>3. KnownAt(id, m, a)' <=> KnownAt(id, m, a)
  BY <1>2 DEF KnownAt
<1>4. Wants(id, m, a)' => Wants(id, m, a)
  <2>1. CASE id \in Agent
    <3>1. id # x /\ LocationOf(id) = id /\ id \notin Client
      BY <2>1, AgentLocation
    <3>2. info'[id] = info[id] /\ (id \in up' => id \in up) /\ id \notin handles'
      BY <2>1, <3>1 DEF Move, Watched, Standing, IInv, TypeOK
    <3> QED
      BY <2>1, <3>2 DEF Wants
  <2>2. CASE id \notin Agent
    <3>1. Wants(id, m, a)' => id \in Client /\ HostOf[id] # x /\ HostOf[id] \in Process
      BY <2>2, AgentLocation DEF Wants, Watched, Standing, IInv, TypeOK
    <3> QED
      BY <2>2, <3>1 DEF Wants, Move
  <2> QED
    BY <2>1, <2>2
<1>5. Wants(id, m, a) => KnownAt(id, m, a)
  BY <1>2 DEF Watched, Known, Heeded
<1> QED
  BY <1>3, <1>4, <1>5

-----------------------------------------------------------------------------
(* An agent handles a message.                                             *)

(* What a handler did, in full.                                            *)
Did(a, J, out, closed, lostParent, p, sent) ==
  /\ Leaves(a, J, out, closed, lostParent) /\ Keeps(a, J, out)
  /\ Move(a, sent, closed, p) /\ AgentTells(a, sent, p)
  /\ Settled(a, closed, p) /\ Ended(a, J, out, lostParent, p, sent)
  /\ UNCHANGED <<up, gone, attach, app>>

(* Every handler did such things.                                          *)
LEMMA HandledDid ==
  ASSUME Standing, Calm, NEW a \in up \cap Agent, Handled(a)
  PROVE  \E J, out, closed, lostParent, p, sent : Did(a, J, out, closed, lostParent, p, sent)
<1>1. PICK J, out, closed, lostParent : \E errors \in SUBSET conn[a] :
        /\ Finish(a, J, out, closed, errors, lostParent)
        /\ Leaves(a, J, out, closed, lostParent) /\ Keeps(a, J, out)
  BY DEF Handled
<1>2. PICK errors \in SUBSET conn[a] :
        /\ Finish(a, J, out, closed, errors, lostParent)
        /\ Leaves(a, J, out, closed, lostParent) /\ Keeps(a, J, out)
  BY <1>1
<1>3. \E p, sent : /\ Move(a, sent, closed, p) /\ AgentTells(a, sent, p)
                   /\ Settled(a, closed, p) /\ Ended(a, J, out, lostParent, p, sent)
  BY <1>2, FinishMoves DEF Calm
<1>4. UNCHANGED <<up, gone, attach, app>>
  BY <1>2 DEF Finish
<1> QED
  BY <1>2, <1>3, <1>4 DEF Did

(* What is caught is what the handler left, whoever the parent is.         *)
LEMMA DidCatch ==
  ASSUME NEW a \in Agent, info \in [Agent -> Info], info' \in [Agent -> Info],
         NEW J, NEW out, NEW closed, NEW lostParent, NEW p, NEW sent,
         Did(a, J, out, closed, lostParent, p, sent)
  PROVE  /\ J \in Info
         /\ \A m \in Mask : info'[a].catchMap[m] = J.catchMap[m]
         /\ info'[a].peers = J.peers \cup ({p} \cap Agent)
<1>1. J \in Info
  BY DEF Did, Leaves
<1>2. CASE info'[a] = J /\ p = NoAgent
  BY <1>1, <1>2, Ids DEF Info
<1>3. CASE info'[a] = [J EXCEPT !.parent = NoAgent] /\ p = NoAgent
  BY <1>1, <1>3, Ids DEF Info
<1>4. CASE info'[a] = AddParent(J, p) /\ p \in Agent
  <2>1. CASE p \in J.peers
    BY <1>1, <1>4, <2>1 DEF AddParent, Info
  <2>2. CASE p \notin J.peers
    BY <1>1, <1>4, <2>2 DEF AddParent, AddPeer, Info
  <2> QED
    BY <2>1, <2>2
<1> QED
  BY <1>1, <1>2, <1>3, <1>4 DEF Did, Ended

(* It goes on knowing of everybody else what it is to know: whatever the   *)
(* message says of somebody, it says at its turn.                          *)
LEMMA DidHear ==
  ASSUME Watched, NEW a \in up \cap Agent,
         NEW J, NEW out, NEW closed, NEW lostParent, NEW p, NEW sent,
         Did(a, J, out, closed, lostParent, p, sent),
         NEW id \in Comp, id # a, NEW m \in Mask, Wants(id, m, a)'
  PROVE  KnownAt(id, m, a)'
<1> DEFINE l == LocationOf(id)
           w == RegSub(id, m)
           ends == Retracts(id, m)
           q == queue[a]
           n == net[l][a]
           b == id \in info[a].catchMap[m]
           c == id \in info'[a].catchMap[m]
           stays == Head(q) = Entry(l, w) \/ (b /\ Head(q) \notin Entries(l, ends))
<1>1. /\ IInv /\ IInv' /\ Links /\ Accounted /\ Standing
      /\ info \in [Agent -> Info] /\ info' \in [Agent -> Info]
  BY DEF Watched, Standing, IInv, TypeOK
<1>2. Wants(id, m, a)
  <2>1. id \in Agent => info'[id] = info[id]
    BY DEF Did, Move
  <2> QED
    BY <2>1 DEF Did, Wants, app
<1>3. KnownAt(id, m, a)
  BY <1>2 DEF Watched, Known, Heeded
<1>4. Belongs(id, a) /\ l \in up /\ l \in Location
  BY <1>1, <1>2, WantsBelongs, Ids
<1>5. l \notin closed /\ net'[l][a] = n
  <2>1. l \notin closed
    BY <1>4 DEF Did, Move
  <2>2. Move(a, sent, closed, p)
    BY DEF Did
  <2> QED
    BY <1>1, <1>4, <2>1, <2>2, SettledNet
<1>6. queue'[a] = Tail(q) /\ q \in Seq(QueueEntry) /\ q # <<>>
  BY <1>1 DEF Did, Settled, IInv, TypeOK
<1>7. Heard(w, l, n, q, b, ends)
  BY <1>3 DEF KnownAt
<1>8. b \in BOOLEAN /\ c \in BOOLEAN /\ stays \in BOOLEAN
  OBVIOUS
<1>9. Heard(w, l, n, Tail(q), stays, ends)
  <2>1. stays <=> Head(q) = Entry(l, w) \/ (b /\ Head(q) \notin Entries(l, ends))
    OBVIOUS
  <2> HIDE DEF w, l, n, q, b, ends, stays
  <2> QED
    BY <1>6, <1>7, <1>8, <2>1, HeardTake
<1>10. CASE stays => c
  <2>1. ends \in SUBSET ends
    OBVIOUS
  <2>2. Heard(w, l, n, Tail(q), c, ends)
    <3> HIDE DEF w, l, n, q, b, c, ends, stays
    <3> QED
      BY <1>8, <1>9, <1>10, <2>1, HeardMonotone
  <2> QED
    BY <1>5, <1>6, <2>2 DEF KnownAt
<1>11. CASE stays /\ ~ c
  <2>1. c <=> id \in J.catchMap[m]
    BY <1>1, DidCatch
  <2>2. Head(q) = Entry(Head(q).from, Head(q).msg) /\ Queued(Head(q).from, a, Head(q).msg)
        /\ Head(q).from \in Location
    BY <1>1, <1>6, HeadQueued DEF IInv
  <2>3. Head(q).msg \in {CancelSub(id, m), Dereg(id)} => Head(q).from = l
    BY <1>1, <1>4, <2>2 DEF Watched, Known, OwnCancels, Links, Own
  <2>4. Head(q) \notin Entries(l, ends) =>
          Head(q).msg \notin {CancelSub(id, m), Dereg(id)} /\ Head(q) # Entry(l, EOF)
    BY <2>2, <2>3 DEF Entries, Entry, Retracts
  <2>5. ~ (b /\ Head(q) \notin Entries(l, ends))
    BY <1>4, <1>11, <2>1, <2>4 DEF Did, Keeps
  <2>6. Head(q) = Entry(l, w)
    BY <1>11, <2>5
  <2>7. id \notin info[a].peers
    <3>1. Head(q).msg = RegSub(id, m)
      BY <2>6 DEF Entry
    <3> QED
      BY <1>4, <1>11, <2>1, <3>1 DEF Did, Keeps
  <2>8. Expected(id, n, q, FALSE, {Dereg(id), EOF})
    <3>1. ExpectedAt(id, a, {Dereg(id), EOF})
      BY <1>1, <1>4 DEF Accounted
    <3> QED
      BY <2>7, <3>1 DEF ExpectedAt, Expected, Heard, Turned
  <2>9. Expected(id, n, Tail(q), FALSE, {Dereg(id), EOF})
    <3>1. Head(q) # Entry(LocationOf(id), Reg(id))
      BY <2>6, EntriesDiffer, SubsDiffer
    <3>2. ASSUME NEW d \in BOOLEAN, ~ d, Expected(id, n, q, d, {Dereg(id), EOF})
          PROVE  Expected(id, n, Tail(q), d, {Dereg(id), EOF})
      <4>1. d <=> \/ Head(q) = Entry(LocationOf(id), Reg(id))
                  \/ d /\ Head(q) \notin Entries(LocationOf(id), {Dereg(id), EOF})
        BY <3>1, <3>2
      <4> HIDE DEF n, q
      <4> QED
        BY <1>6, <3>2, <4>1, ExpectedTake
    <3> QED
      BY <2>8, <3>2
  <2>10. \/ \E i \in DOMAIN n : n[i] \in ends
         \/ \E i \in DOMAIN Tail(q) : Tail(q)[i] \in Entries(l, ends)
    <3>1. \/ \E i \in DOMAIN n : n[i] = Reg(id)
          \/ \E i \in DOMAIN Tail(q) : Tail(q)[i] = Entry(l, Reg(id))
      BY <2>9 DEF Expected, Heard, Turned
    <3>2. Reg(id) \in ends /\ Entry(l, Reg(id)) \in Entries(l, ends)
      BY EntriesDiffer DEF Retracts
    <3> QED
      BY <3>1, <3>2
  <2>11. Heard(w, l, n, Tail(q), c, ends)
    <3> HIDE DEF w, l, n, q, b, c, ends, stays
    <3> QED
      BY <1>8, <1>9, <2>10, HeardForgets
  <2> QED
    BY <1>5, <1>6, <2>11 DEF KnownAt
<1> QED
  BY <1>10, <1>11

(* The agent an agent is offered is not one that lists it: they would be   *)
(* connected.                                                              *)
LEMMA OfferedIsNew ==
  ASSUME Links, NEW a \in up \cap Agent, NEW p \in Offers(a) \cap Agent
  PROVE  p \in up /\ ~ Belongs(p, a)
<1>1. NoAgent \notin Agent
  BY Ids
<1>2. p \in up /\ ~ Linked(a, p)
  BY <1>1 DEF Offers
<1> QED
  BY <1>2 DEF Links, Joined

(* A greeting tells all that is caught, whatever was known before.         *)
LEMMA GreetingTurns ==
  ASSUME NEW a \in Agent, NEW s \in Seq(Message), NEW S \in SUBSET Mask, NEW q \in SetToSeqs(S),
         NEW m \in S, NEW b \in BOOLEAN
  PROVE  Turned(s \o (<<Reg(a)>> \o RegSubs(a, q)), {RegSub(a, m)}, Retracts(a, m), b)
<1> DEFINE t == RegSubs(a, q)
           g == <<Reg(a)>>
           w == RegSub(a, m)
           ends == Retracts(a, m)
<1>1. g \in Seq(Message) /\ t \in Seq(Message)
  BY Ids, MaskOrders, MessageTypes, SequenceTypes
<1>2. \E i \in DOMAIN t : t[i] = w
  BY BatchesOf
<1>3. \A k \in DOMAIN t : t[k] \notin ends
  <2>1. ASSUME NEW k \in DOMAIN t
        PROVE  t[k] \notin ends
    <3>1. t[k] # CancelSub(a, m)
      BY BatchesOf
    <3>2. t[k] # Reg(a) /\ t[k] # Dereg(a) /\ t[k] # EOF
      BY InertBatches, InertMessages
    <3> QED
      BY <3>1, <3>2 DEF Retracts
  <2> QED
    BY <2>1
<1>4. ASSUME NEW d \in BOOLEAN PROVE Turned(t, {w}, ends, d)
  BY <1>2, <1>3 DEF Turned
<1>5. ASSUME NEW d \in BOOLEAN PROVE Turned(g \o t, {w}, ends, d)
  <2>1. Turned(g, {w}, ends, d) \in BOOLEAN
    BY TurnedType
  <2> HIDE DEF g, t, w, ends
  <2> QED
    BY <1>1, <1>4, <2>1, TurnedConcat
<1>6. g \o t \in Seq(Message)
  BY <1>1
<1>7. Turned(s, {w}, ends, b) \in BOOLEAN
  BY TurnedType
<1>8. Turned(s \o (g \o t), {w}, ends, b)
  <2> HIDE DEF g, t, w, ends
  <2> QED
    BY <1>5, <1>6, <1>7, TurnedConcat
<1> QED
  BY <1>8

(* What it is to tell a neighbour, it has told, or told before.            *)
LEMMA DidTell ==
  ASSUME Watched, NEW a \in up \cap Agent,
         NEW J, NEW out, NEW closed, NEW lostParent, NEW p, NEW sent,
         Did(a, J, out, closed, lostParent, p, sent),
         NEW b \in up \cap Agent, b # a, NEW m \in Mask, Wants(a, m, b)'
  PROVE  KnownAt(a, m, b)'
<1> DEFINE w == RegSub(a, m)
           ends == Retracts(a, m)
           n == net[a][b]
           known == a \in info[b].catchMap[m]
<1>1. /\ IInv /\ IInv' /\ Links /\ Accounted /\ Standing /\ TypeOK
      /\ info \in [Agent -> Info] /\ info' \in [Agent -> Info]
      /\ a \in Location /\ b \in Location /\ a \in Comp /\ b \in Comp /\ LocationOf(a) = a
      /\ NoAgent \notin Agent /\ a \notin Client
  BY AgentLocation, Ids DEF Watched, Standing, IInv, TypeOK
<1>2. /\ Move(a, sent, closed, p) /\ Keeps(a, J, out) /\ J \in Info
      /\ out \in [Location -> Seq(Message)] /\ \A k \in Location : Inert(out[k])
      /\ sent \in [Location -> Seq(Message)] /\ closed \cap up = {} /\ queue[a] # <<>>
      /\ \A k \in Location : out[k] \in Seq(Message) /\ sent[k] \in Seq(Message)
  BY DEF Did, Leaves, Move, Sends
<1>3. b \in J.peers \cup ({p} \cap Agent) /\ Asks(J, b, m)
  <2>1. a \notin handles'
    BY <1>1 DEF IInv, TypeOK
  <2>2. b \in info'[a].peers /\ Asks(info'[a], b, m)
    BY <2>1 DEF Wants
  <2> QED
    BY <1>1, <2>2, DidCatch DEF Asks
<1>4. NetEffect(a, sent, closed, p)
  BY <1>1, <1>2, NetFacts DEF Move
<1>5. KnownAt(a, m, b)' <=> Heard(w, a, net'[a][b], queue[b], known, ends)
  BY <1>1, <1>2 DEF KnownAt, Move
<1>6. known \in BOOLEAN
  OBVIOUS
<1>7. KnownAt(a, m, b) <=> Heard(w, a, n, queue[b], known, ends)
  BY <1>1 DEF KnownAt
<1>8. n \in Seq(Message)
  BY <1>1 DEF TypeOK
<1>9. CASE b \in J.peers
  <2>1. Belongs(b, a) /\ Stays(b, a)
    <3>1. Stays(b, a)
      BY <1>1, <1>9 DEF Did, Leaves
    <3> QED
      BY <1>1, <1>2, <3>1, StaysBelongs
  <2>2. Linked(a, b) /\ b \notin closed
    BY <1>1, <1>2, <2>1 DEF Links, Joined
  <2>3. sent[b] = out[b]
    <3>1. CASE sent = out
      BY <3>1
    <3>2. CASE lostParent /\ p \in Offers(a) \cap Agent
      <4>1. ~ Belongs(p, a)
        BY <1>1, <3>2, OfferedIsNew
      <4>2. b # p
        BY <2>1, <4>1
      <4>3. PICK subscriptions : sent = Greeting(a, p, out, subscriptions)
        BY <3>2, <1>1 DEF Did, Ended
      <4> QED
        BY <1>1, <4>2, <4>3 DEF Greeting
    <3> QED
      BY <3>1, <3>2 DEF Did, Ended
  <2>4. net'[a][b] = n \o out[b]
    BY <1>1, <1>4, <2>2, <2>3 DEF NetEffect
  <2>5. \A k \in DOMAIN out[b] : out[b][k] \notin ends
    <3>1. ASSUME NEW k \in DOMAIN out[b]
          PROVE  out[b][k] \notin ends
      <4>1. out[b][k] # CancelSub(a, m)
        BY <1>1, <1>2, <1>3 DEF Keeps, Asks
      <4>2. out[b][k] # Reg(a) /\ out[b][k] # Dereg(a) /\ out[b][k] # EOF
        BY <1>1, <1>2, InertMessages
      <4> QED
        BY <4>1, <4>2 DEF Retracts
    <3> QED
      BY <3>1
  <2>6. \/ Heard(w, a, n, queue[b], known, ends)
        \/ \E i \in DOMAIN out[b] : out[b][i] = w
    <3>1. \/ b \in info[a].peers /\ Asks(info[a], b, m)
          \/ \E i \in DOMAIN out[b] : out[b][i] = w
      BY <1>2, <1>3, <1>9 DEF Keeps
    <3>2. b \in info[a].peers /\ Asks(info[a], b, m) => Wants(a, m, b)
      BY DEF Wants
    <3> QED
      BY <1>1, <1>7, <3>1, <3>2 DEF Watched, Known, Heeded
  <2>7. Turned(out[b], {w}, ends, Heard(w, a, n, queue[b], known, ends))
    BY <2>5, <2>6 DEF Turned
  <2>8. Heard(w, a, n \o out[b], queue[b], known, ends)
    <3>1. out[b] \in Seq(Message)
      BY <1>1, <1>2
    <3> HIDE DEF w, ends, n, known
    <3> QED
      BY <1>6, <1>8, <2>7, <3>1, HeardSend
  <2> QED
    BY <1>5, <2>4, <2>8
<1>10. CASE b \notin J.peers
  <2>1. b = p /\ p \in Agent
    BY <1>3, <1>10
  <2>2. PICK q \in SetToSeqs(CaughtMasks(J)) : sent = Greeting(a, p, out, RegSubs(a, q))
    BY <1>1, <1>10, <2>1 DEF Did, Ended
  <2>3. sent[b] = out[b] \o (<<Reg(a)>> \o RegSubs(a, q))
    BY <1>1, <2>1, <2>2 DEF Greeting
  <2>4. CaughtMasks(J) \in SUBSET Mask /\ m \in CaughtMasks(J)
    BY <1>3 DEF CaughtMasks, Asks
  <2>5. ASSUME NEW d \in BOOLEAN PROVE Turned(sent[b], {w}, ends, d)
    <3>1. out[b] \in Seq(Message)
      BY <1>1, <1>2
    <3>2. Turned(out[b] \o (<<Reg(a)>> \o RegSubs(a, q)), {w}, ends, d)
      <4> DEFINE S == CaughtMasks(J)
      <4>1. S \in SUBSET Mask /\ m \in S /\ q \in SetToSeqs(S)
        BY <2>2, <2>4
      <4> HIDE DEF S
      <4> QED
        BY <3>1, <4>1, GreetingTurns
    <3> QED
      BY <2>3, <3>2
  <2>6. b \notin closed
    BY <1>2
  <2>7. CASE Linked(a, b)
    <3>1. net'[a][b] = n \o sent[b]
      BY <1>1, <1>4, <2>6, <2>7 DEF NetEffect
    <3>2. Heard(w, a, n, queue[b], known, ends) \in BOOLEAN
      BY HeardType
    <3>3. sent[b] \in Seq(Message)
      BY <1>1, <1>2
    <3>4. Heard(w, a, n \o sent[b], queue[b], known, ends)
      <4> HIDE DEF w, ends, n, known
      <4> QED
        BY <1>6, <1>8, <2>5, <3>2, <3>3, HeardSend
    <3> QED
      BY <1>5, <3>1, <3>4
  <2>8. CASE ~ Linked(a, b)
    <3>1. net'[a][b] = sent[b]
      BY <1>1, <1>4, <2>1, <2>8 DEF NetEffect
    <3>2. Turned(queue[b], {Entry(a, w)}, Entries(a, ends), known) \in BOOLEAN
      BY TurnedType
    <3>3. Heard(w, a, sent[b], queue[b], known, ends)
      BY <2>5, <3>2 DEF Heard
    <3> QED
      BY <1>5, <3>1, <3>3
  <2> QED
    BY <2>7, <2>8
<1> QED
  BY <1>9, <1>10

(* x cancels the interests of its own components only.                     *)
CancelsOwn(x, sent) ==
  \A k \in Location : \A i \in DOMAIN sent[k] : \A id \in Comp, m \in Mask :
    sent[k][i] = CancelSub(id, m) => LocationOf(id) = x

(* Then so it stays.                                                       *)
LEMMA MoveCancels ==
  ASSUME Watched, NEW x, NEW sent, NEW closed, NEW p, Move(x, sent, closed, p),
         CancelsOwn(x, sent)
  PROVE  OwnCancels'
<1>1. IInv /\ Links
  BY DEF Watched, Standing
<1>2. /\ \A l, k \in Location : \A m : Written(l, k, m)' =>
              \/ Written(l, k, m)
              \/ l = x /\ \E i \in DOMAIN sent[k] : sent[k][i] = m
              \/ l = x /\ m = EOF /\ k \in closed /\ k # x
      /\ \A l, m : \A a \in Agent : Queued(l, a, m)' => Queued(l, a, m)
  BY <1>1, MoveWritten
<1> SUFFICES ASSUME NEW l \in Location, NEW id \in Comp, NEW m \in Mask, LocationOf(id) # l
             PROVE  /\ \A k \in Location : ~ Written(l, k, CancelSub(id, m))'
                    /\ \A a \in Agent : ~ Queued(l, a, CancelSub(id, m))'
  BY DEF OwnCancels
<1>3. /\ \A k \in Location : ~ Written(l, k, CancelSub(id, m))
      /\ \A a \in Agent : ~ Queued(l, a, CancelSub(id, m))
  BY DEF Watched, Known, OwnCancels
<1>4. CancelSub(id, m) # EOF
  BY SubsDiffer
<1> QED
  BY <1>2, <1>3, <1>4 DEF CancelsOwn

(* A process goes on being noticed.                                        *)
LEMMA MoveNoticed ==
  ASSUME Watched, NEW x, NEW sent, NEW closed, NEW p, Move(x, sent, closed, p),
         p = NoAgent /\ x \in Process => closed = {}
  PROVE  Noticed'
<1>1. TypeOK /\ Attached /\ Links /\ Noticed /\ x \in Location /\ sent \in [Location -> Seq(Message)]
      /\ NetStep(x, sent, closed, p) /\ up' = up \cup {x}
  BY DEF Watched, Standing, IInv, Known, Move, Sends
<1>2. NetEffect(x, sent, closed, p)
  BY <1>1, NetFacts
<1> SUFFICES ASSUME NEW d \in up' \cap Process, attach'[d] \notin up'
             PROVE  Written(attach[d], d, EOF)' /\ attach'[d] = attach[d]
  BY DEF Noticed, Written
<1>3. d \in up /\ attach'[d] = attach[d]
  <2>1. CASE d = x
    BY <1>1, <2>1 DEF Move
  <2>2. CASE d # x
    BY <1>1, <2>2 DEF Move
  <2> QED
    BY <2>1, <2>2
<1>4. Written(attach[d], d, EOF) /\ attach[d] \in Agent /\ attach[d] # x /\ attach[d] \in Location
      /\ d \in Location
  BY <1>1, <1>3, Ids DEF Noticed, Attached
<1>5. net'[attach[d]][d] = net[attach[d]][d]
  <2>1. CASE d # x
    BY <1>2, <1>4, <2>1 DEF NetEffect
  <2>2. CASE d = x
    <3>1. p = NoAgent
      BY <1>1, <1>3, <1>4, <2>2 DEF Move
    <3> QED
      BY <1>2, <1>4, <2>2, <3>1 DEF NetEffect
  <2> QED
    BY <2>1, <2>2
<1> QED
  BY <1>3, <1>4, <1>5 DEF Written

(* Handling a message keeps what is known.                                 *)
LEMMA HandledKnown ==
  ASSUME Watched, Calm, NEW a \in up \cap Agent, Handled(a)
  PROVE  Known'
<1>1. Standing /\ Links /\ Known /\ info \in [Agent -> Info] /\ info' \in [Agent -> Info]
      /\ a \in Location /\ LocationOf(a) = a /\ NoAgent \notin Agent
  BY AgentLocation, Ids DEF Watched, Standing, IInv, TypeOK
<1>2. PICK J, out, closed, lostParent, p, sent : Did(a, J, out, closed, lostParent, p, sent)
  BY <1>1, HandledDid
<1>3. Move(a, sent, closed, p) /\ up' = up /\ UNCHANGED <<up, gone, attach, app>>
  BY <1>2 DEF Did
<1>4. Heeded'
  <2> SUFFICES ASSUME NEW b \in up' \cap Agent, NEW id \in Comp, NEW m \in Mask, Wants(id, m, b)'
               PROVE  KnownAt(id, m, b)'
    BY DEF Heeded
  <2>1. b \in up
    BY <1>3
  <2>2. CASE LocationOf(id) # a /\ b # a
    BY <1>3, <2>2, MoveUntouched DEF app
  <2>3. CASE id = a /\ b # a
    BY <1>2, <2>1, <2>3, DidTell
  <2>4. CASE id # a /\ b = a
    BY <1>2, <2>4, DidHear
  <2>5. CASE id = a /\ b = a
    <3>1. a \in info'[a].peers
      BY <1>1, <2>5, AgentLocation DEF Wants, Watched, Standing, IInv, TypeOK
    <3>2. Links' /\ Accounted' /\ IInv'
      BY DEF Watched, PeersKept, Standing
    <3>3. a \in J.peers \cup ({p} \cap Agent)
      BY <1>1, <1>2, <3>1, DidCatch
    <3>4. a # p
      BY <1>1, <1>3 DEF Move
    <3>5. Stays(a, a) /\ queue[a] # <<>>
      BY <1>1, <1>2, <3>3, <3>4, AgentLocation DEF Did, Leaves
    <3>6. Belongs(a, a)
      BY <1>1, <3>5, StaysBelongs DEF Watched, Standing
    <3> QED
      BY <1>1, <3>6 DEF Links, Joined, NoSelf, Linked
  <2>6. LocationOf(id) = a => id = a
    BY AgentLocation
  <2> QED
    BY <2>2, <2>3, <2>4, <2>5, <2>6
<1>5. OwnCancels'
  <2>1. CancelsOwn(a, out)
    BY <1>1, <1>2 DEF CancelsOwn, Did, Keeps
  <2>2. ASSUME NEW q \in Seq(Message), Inert(q), NEW k \in Location,
               \A i \in DOMAIN q : \A id \in Comp, m \in Mask : q[i] # CancelSub(id, m),
               sent = Greeting(a, p, out, q)
        PROVE  \A i \in DOMAIN sent[k] : \A id \in Comp, m \in Mask :
                 sent[k][i] = CancelSub(id, m) => LocationOf(id) = a
    <3>1. CASE k # p
      BY <2>1, <2>2, <3>1 DEF Greeting, CancelsOwn
    <3>2. CASE k = p
      <4>1. sent[k] = out[k] \o (<<Reg(a)>> \o q)
        BY <2>2, <3>2 DEF Greeting
      <4>2. out[k] \in Seq(Message) /\ <<Reg(a)>> \in Seq(Message) /\ <<Reg(a)>> \o q \in Seq(Message)
        BY <1>1, <1>2, <2>2, Ids, MessageTypes DEF Did, Leaves
      <4>3. \A i \in DOMAIN (<<Reg(a)>> \o q) : \A id \in Comp, m \in Mask :
              (<<Reg(a)>> \o q)[i] # CancelSub(id, m)
        <5>1. \A id \in Comp, m \in Mask : \A i \in DOMAIN <<Reg(a)>> : <<Reg(a)>>[i] # CancelSub(id, m)
          BY SubsDiffer
        <5> QED
          BY <2>2, <4>2, <5>1, MessageMembers DEF MadeOf
      <4>4. \A i \in DOMAIN (out[k] \o (<<Reg(a)>> \o q)) :
              \/ \E j \in DOMAIN out[k] : (out[k] \o (<<Reg(a)>> \o q))[i] = out[k][j]
              \/ \E j \in DOMAIN (<<Reg(a)>> \o q) : (out[k] \o (<<Reg(a)>> \o q))[i] = (<<Reg(a)>> \o q)[j]
        BY <4>2, MessageMembers DEF MadeOf
      <4> SUFFICES ASSUME NEW i \in DOMAIN sent[k], NEW id \in Comp, NEW m \in Mask,
                          sent[k][i] = CancelSub(id, m)
                   PROVE  LocationOf(id) = a
        OBVIOUS
      <4>5. \E j \in DOMAIN out[k] : out[k][j] = CancelSub(id, m)
        BY <4>1, <4>3, <4>4
      <4> QED
        BY <2>1, <4>5 DEF CancelsOwn
    <3> QED
      BY <3>1, <3>2
  <2>3. CancelsOwn(a, sent)
    <3>1. CASE sent = out
      BY <2>1, <3>1
    <3>2. CASE p \in Agent /\ \E q \in SetToSeqs(CaughtMasks(J)) :
                 sent = Greeting(a, p, out, IF p \in J.peers THEN <<>> ELSE RegSubs(a, q))
      <4>1. PICK q \in SetToSeqs(CaughtMasks(J)) :
              sent = Greeting(a, p, out, IF p \in J.peers THEN <<>> ELSE RegSubs(a, q))
        BY <3>2
      <4>2. CaughtMasks(J) \in SUBSET Mask
        BY DEF CaughtMasks
      <4>3. RegSubs(a, q) \in Seq(Message) /\ Inert(RegSubs(a, q)) /\ Inert(<<>>)
        BY <4>2, Ids, MaskOrders, SequenceTypes, InertBatches
      <4>4. \A i \in DOMAIN RegSubs(a, q) : \A id, m : RegSubs(a, q)[i] # CancelSub(id, m)
        BY <4>2, BatchesOf
      <4>5. <<>> \in Seq(Message) /\ DOMAIN <<>> = {}
        OBVIOUS
      <4>6. PICK s \in Seq(Message) :
              /\ Inert(s) /\ sent = Greeting(a, p, out, s)
              /\ \A i \in DOMAIN s : \A id \in Comp, m \in Mask : s[i] # CancelSub(id, m)
        <5>1. CASE p \in J.peers
          BY <4>1, <4>3, <4>5, <5>1
        <5>2. CASE p \notin J.peers
          BY <4>1, <4>3, <4>4, <5>2
        <5> QED
          BY <5>1, <5>2
      <4> QED
        BY <2>2, <4>6 DEF CancelsOwn
    <3> QED
      BY <1>2, <3>1, <3>2 DEF Did, Ended
  <2> QED
    BY <1>3, <2>3, MoveCancels
<1>6. Noticed'
  BY <1>1, <1>3, AgentLocation, MoveNoticed
<1>7. Shut'
  BY <1>1, <1>3 DEF Known, Shut, app
<1> QED
  BY <1>4, <1>5, <1>6, <1>7 DEF Known

-----------------------------------------------------------------------------
(* The reader, and reading an event.                                       *)

(* What is known does not depend on where it is.                           *)
LEMMA GrabKnownAt ==
  ASSUME IInv, NEW a \in Agent, NEW x \in Location, Grab(a, x),
         NEW b \in Agent, NEW id \in Comp, NEW m
  PROVE  KnownAt(id, m, b)' <=> KnownAt(id, m, b)
<1> DEFINE l == LocationOf(id)
           q == queue[a]
           c == id \in info[a].catchMap[m]
           h == Head(net[x][a])
           w == RegSub(id, m)
           ends == Retracts(id, m)
<1>1. Moved(a, x)
  BY GrabMoves
<1>2. l \in Location /\ a \in Location /\ b \in Location /\ info' = info
  BY Ids DEF Grab
<1>3. CASE b # a
  BY <1>1, <1>2, <1>3 DEF Moved, KnownAt
<1>4. CASE b = a /\ l # x
  <2>1. net'[l][a] = net[l][a] /\ queue'[a] = Append(q, Entry(x, h)) /\ q \in Seq(QueueEntry)
    BY <1>1, <1>2, <1>4 DEF Moved
  <2>2. h \in Message
    <3>1. net[x][a] \in Seq(Message) /\ net[x][a] # <<>>
      BY <1>1 DEF Moved
    <3> QED
      BY <3>1
  <2>3. c \in BOOLEAN
    OBVIOUS
  <2> HIDE DEF h, q, c, w, ends
  <2>4. Heard(w, l, net[l][a], Append(q, Entry(x, h)), c, ends) <=> Heard(w, l, net[l][a], q, c, ends)
    BY <1>4, <2>1, <2>2, <2>3, HeardGrabOther
  <2> QED
    BY <1>2, <1>4, <2>1, <2>4 DEF KnownAt, q, c, w, ends
<1>5. CASE b = a /\ l = x
  <2> DEFINE n == net[l][a]
  <2>1. /\ net'[l][a] = Tail(n) /\ queue'[a] = Append(q, Entry(l, Head(n))) /\ q \in Seq(QueueEntry)
        /\ n \in Seq(Message) /\ n # <<>> /\ c \in BOOLEAN
    BY <1>1, <1>5 DEF Moved
  <2> HIDE DEF n, q, c, w, ends
  <2>2. Heard(w, l, Tail(n), Append(q, Entry(l, Head(n))), c, ends) <=> Heard(w, l, n, q, c, ends)
    BY <1>2, <2>1, HeardGrab
  <2> QED
    BY <1>2, <1>5, <2>1, <2>2 DEF KnownAt, q, c, n, w, ends
<1> QED
  BY <1>3, <1>4, <1>5

(* Reading a connection keeps what is known.                               *)
LEMMA GrabKnown ==
  ASSUME Watched, NEW a \in Agent, NEW x \in Location, Grab(a, x)
  PROVE  Known'
<1>1. IInv /\ Known /\ Moved(a, x) /\ a \in Location /\ a \notin Process /\ TypeOK /\ Attached
  BY GrabMoves, AgentLocation, IdsAreDistinct DEF Watched, Standing, IInv
<1>2. /\ up' = up /\ info' = info /\ attach' = attach /\ handles' = handles /\ subs' = subs
      /\ gone' = gone
  BY DEF Grab, app
<1>3. Heeded'
  <2> SUFFICES ASSUME NEW b \in up \cap Agent, NEW id \in Comp, NEW m \in Mask, Wants(id, m, b)'
               PROVE  KnownAt(id, m, b)'
    BY <1>2 DEF Heeded
  <2>1. Wants(id, m, b)
    BY <1>2 DEF Wants
  <2>2. KnownAt(id, m, b)
    BY <1>1, <2>1 DEF Known, Heeded
  <2> QED
    BY <1>1, <2>2, GrabKnownAt
<1>4. OwnCancels'
  BY <1>1, MovedWords DEF Known, OwnCancels
<1>5. Shut'
  BY <1>1, <1>2 DEF Known, Shut
<1>6. Noticed'
  <2> SUFFICES ASSUME NEW p \in up \cap Process, attach[p] \notin up
               PROVE  Written(attach[p], p, EOF)'
    BY <1>2 DEF Noticed, Written
  <2>1. Written(attach[p], p, EOF) /\ attach[p] \in Location /\ p \in Location /\ p # a
    BY <1>1, Ids DEF Known, Noticed, Attached
  <2>2. net'[attach[p]][p] = net[attach[p]][p]
    BY <1>1, <2>1 DEF Moved
  <2> QED
    BY <1>2, <2>1, <2>2 DEF Written
<1> QED
  BY <1>3, <1>4, <1>5, <1>6 DEF Known

(* A process that reads an event keeps it: the end of the connection       *)
(* remains to be read.                                                     *)
LEMMA ReceiveKnown ==
  ASSUME Watched, NEW p \in Process, Receive(p)
  PROVE  Known'
<1>1. /\ IInv /\ Known /\ p \in Location /\ p \notin Agent /\ TypeOK /\ Attached
      /\ p \in up /\ attach[p] \in Agent /\ attach[p] \in Location
      /\ net[attach[p]][p] \in Seq(Message)
      /\ net[attach[p]][p] # <<>> /\ Head(net[attach[p]][p]) # EOF
      /\ net' = [net EXCEPT ![attach[p]][p] = Tail(@)]
      /\ up' = up /\ info' = info /\ attach' = attach /\ handles' = handles /\ subs' = subs
      /\ gone' = gone /\ queue' = queue
  <2>1. IInv /\ Known /\ TypeOK /\ Attached
    BY DEF Watched, Standing, IInv
  <2>2. p \in Location /\ p \notin Agent
    BY AgentLocation
  <2>3. /\ p \in up /\ net[attach[p]][p] # <<>> /\ Head(net[attach[p]][p]) # EOF
        /\ net' = [net EXCEPT ![attach[p]][p] = Tail(@)]
        /\ up' = up /\ info' = info /\ attach' = attach /\ handles' = handles /\ subs' = subs
        /\ gone' = gone /\ queue' = queue
    BY DEF Receive
  <2>4. attach[p] \in Agent /\ attach[p] \in Location
    BY <2>1, <2>3, Ids DEF Attached
  <2>5. net[attach[p]][p] \in Seq(Message)
    BY <2>1, <2>2, <2>4 DEF TypeOK
  <2> QED
    BY <2>1, <2>2, <2>3, <2>4, <2>5
<1>2. /\ \A l \in Location, k \in Location : l # attach[p] \/ k # p => net'[l][k] = net[l][k]
      /\ net'[attach[p]][p] = Tail(net[attach[p]][p])
  BY <1>1 DEF TypeOK
<1>3. /\ \A i \in DOMAIN Tail(net[attach[p]][p]) :
           i + 1 \in DOMAIN net[attach[p]][p] /\ Tail(net[attach[p]][p])[i] = net[attach[p]][p][i + 1]
      /\ \A i \in DOMAIN net[attach[p]][p] : i # 1 =>
           i - 1 \in DOMAIN Tail(net[attach[p]][p]) /\ Tail(net[attach[p]][p])[i - 1] = net[attach[p]][p][i]
      /\ Head(net[attach[p]][p]) = net[attach[p]][p][1]
  <2> DEFINE s == net[attach[p]][p]
  <2>1. s \in Seq(Message) /\ s # <<>>
    BY <1>1
  <2> HIDE DEF s
  <2>2. /\ \A i \in DOMAIN Tail(s) : i + 1 \in DOMAIN s /\ Tail(s)[i] = s[i + 1]
        /\ \A i \in DOMAIN s : i # 1 => i - 1 \in DOMAIN Tail(s) /\ Tail(s)[i - 1] = s[i]
        /\ Head(s) = s[1]
    BY <2>1
  <2> QED
    BY <2>2 DEF s
<1>4. \A l \in Location, k \in Location : \A m : Written(l, k, m)' => Written(l, k, m)
  <2> SUFFICES ASSUME NEW l \in Location, NEW k \in Location, NEW m, Written(l, k, m)'
               PROVE  Written(l, k, m)
    OBVIOUS
  <2>1. CASE l # attach[p] \/ k # p
    BY <1>2, <2>1 DEF Written
  <2>2. CASE l = attach[p] /\ k = p
    <3>1. PICK i \in DOMAIN net'[l][k] : net'[l][k][i] = m
      BY DEF Written
    <3>2. i + 1 \in DOMAIN net[l][k] /\ net[l][k][i + 1] = m
      BY <1>2, <1>3, <2>2, <3>1
    <3> QED
      BY <3>2 DEF Written
  <2> QED
    BY <2>1, <2>2
<1>5. Heeded'
  <2> SUFFICES ASSUME NEW b \in up \cap Agent, NEW id \in Comp, NEW m \in Mask, Wants(id, m, b)'
               PROVE  KnownAt(id, m, b)'
    BY <1>1 DEF Heeded
  <2>1. Wants(id, m, b)
    BY <1>1 DEF Wants
  <2>2. KnownAt(id, m, b)
    BY <1>1, <2>1 DEF Known, Heeded
  <2>3. net'[LocationOf(id)][b] = net[LocationOf(id)][b]
    BY <1>1, <1>2, Ids
  <2> QED
    BY <1>1, <2>2, <2>3 DEF KnownAt
<1>6. OwnCancels'
  BY <1>1, <1>4 DEF Known, OwnCancels, Queued
<1>7. Shut'
  BY <1>1 DEF Known, Shut
<1>8. Noticed'
  <2> SUFFICES ASSUME NEW d \in up \cap Process, attach[d] \notin up
               PROVE  Written(attach[d], d, EOF)'
    BY <1>1 DEF Noticed, Written
  <2>1. Written(attach[d], d, EOF) /\ attach[d] \in Location /\ d \in Location
    BY <1>1, Ids DEF Known, Noticed, Attached
  <2>2. CASE d # p
    BY <1>1, <1>2, <2>1, <2>2 DEF Written
  <2>3. CASE d = p
    <3>1. PICK i \in DOMAIN net[attach[p]][p] : net[attach[p]][p][i] = EOF
      BY <2>1, <2>3 DEF Written
    <3>2. i # 1
      BY <1>1, <1>3, <3>1
    <3>3. i - 1 \in DOMAIN net'[attach[p]][p] /\ net'[attach[p]][p][i - 1] = EOF
      BY <1>2, <1>3, <3>1, <3>2
    <3> QED
      BY <1>1, <2>3, <3>3 DEF Written
  <2> QED
    BY <2>2, <2>3
<1> QED
  BY <1>5, <1>6, <1>7, <1>8 DEF Known

-----------------------------------------------------------------------------
(* The client processes.                                                   *)

(* A process says what its handles want: what they wanted before it        *)
(* attached elsewhere does not count.                                      *)
Asserts(x, ms, p) ==
  \A c \in handles', m \in Mask, b \in BOOLEAN :
    /\ HostOf[c] = x /\ m \in subs'[c]
    /\ p = NoAgent /\ c \in handles /\ m \in subs[c] => b
    => Turned(ms, {RegSub(c, m)}, Retracts(c, m), b)

(* A process that says so keeps what is known.                             *)
LEMMA ProcessMoveKnown ==
  ASSUME Watched, NEW x \in Process, NEW sent, NEW closed, NEW p, Move(x, sent, closed, p),
         NEW ms \in Seq(Message), attach'[x] \in Location => sent[attach'[x]] = ms,
         CancelsOwn(x, sent), Asserts(x, ms, p), p = NoAgent => closed = {},
         \A c \in Client : HostOf[c] # x => subs'[c] = subs[c], Shut'
  PROVE  Known'
<1>1. /\ Standing /\ IInv /\ IInv' /\ Known /\ x \notin Agent /\ x \in Location /\ TypeOK
      /\ handles' \subseteq Client /\ up' = up \cup {x} /\ gone' = gone
      /\ \A b \in Agent : info'[b] = info[b] /\ queue'[b] = queue[b]
  <2>1. Standing /\ IInv /\ IInv' /\ Known
    BY DEF Watched, Standing
  <2>2. x \notin Agent /\ x \in Location
    BY AgentLocation
  <2>3. TypeOK
    BY <2>1 DEF IInv
  <2>4. handles' \subseteq Client
    BY <2>1 DEF IInv, TypeOK
  <2>5. up' = up \cup {x} /\ gone' = gone
    BY DEF Move
  <2>6. \A b \in Agent : info'[b] = info[b] /\ queue'[b] = queue[b]
    BY <2>2 DEF Move
  <2> QED
    BY <2>1, <2>2, <2>3, <2>4, <2>5, <2>6
<1>2. Heeded'
  <2> SUFFICES ASSUME NEW b \in up' \cap Agent, NEW id \in Comp, NEW m \in Mask, Wants(id, m, b)'
               PROVE  KnownAt(id, m, b)'
    BY DEF Heeded
  <2>1. b \in up \cap Agent /\ b # x /\ b \in Location
    BY <1>1, Ids
  <2>2. CASE LocationOf(id) # x
    <3>1. id \in Client => HostOf[id] # x
      BY <2>2, AgentLocation
    <3> QED
      BY <2>1, <2>2, <3>1, MoveUntouched
  <2>3. CASE LocationOf(id) = x
    <3> DEFINE w == RegSub(id, m)
               ends == Retracts(id, m)
               known == id \in info[b].catchMap[m]
               n == net[x][b]
    <3>1. id \notin Agent
      BY <1>1, <2>3, AgentLocation
    <3>2. id \in handles' /\ m \in subs'[id] /\ attach'[HostOf[id]] = b
      BY <3>1 DEF Wants
    <3>3. id \in Client /\ HostOf[id] = x
      BY <1>1, <2>3, <3>2, AgentLocation
    <3>4. net'[x][b] = n \o ms
      <4>1. attach'[x] = b
        BY <3>2, <3>3
      <4>2. sent[b] = ms
        BY <2>1, <4>1
      <4>3. Standing /\ b \in up \cap Agent
        BY <1>1, <2>1
      <4>4. net'[x][b] = net[x][b] \o sent[b]
        BY <4>1, <4>3, ProcessMoveOwn
      <4> QED
        BY <4>2, <4>4
    <3>5. p = NoAgent /\ id \in handles /\ m \in subs[id] => KnownAt(id, m, b)
      <4> SUFFICES ASSUME p = NoAgent, id \in handles, m \in subs[id]
                   PROVE  KnownAt(id, m, b)
        OBVIOUS
      <4>1. attach[x] = b
        BY <3>2, <3>3, <2>1, Ids DEF Move
      <4>2. Wants(id, m, b)
        BY <3>3, <4>1 DEF Wants
      <4> QED
        BY <1>1, <2>1, <4>2 DEF Known, Heeded
    <3>6. Turned(ms, {w}, ends, KnownAt(id, m, b))
      <4>1. KnownAt(id, m, b) \in BOOLEAN
        BY KnownType
      <4> QED
        BY <3>2, <3>3, <3>5, <4>1 DEF Asserts
    <3>7. KnownAt(id, m, b) <=> Heard(w, x, n, queue[b], known, ends)
      BY <2>3 DEF KnownAt
    <3>8. KnownAt(id, m, b)' <=> Heard(w, x, n \o ms, queue[b], known, ends)
      BY <1>1, <2>1, <2>3, <3>4 DEF KnownAt
    <3>9. n \in Seq(Message) /\ known \in BOOLEAN
      BY <1>1, <2>1 DEF TypeOK
    <3>10. Turned(ms, {w}, ends, Heard(w, x, n, queue[b], known, ends))
      <4>1. KnownAt(id, m, b) \in BOOLEAN /\ Heard(w, x, n, queue[b], known, ends) \in BOOLEAN
        BY KnownType, HeardType
      <4> HIDE DEF w, ends, n, known
      <4> QED
        BY <3>6, <3>7, <4>1
    <3>11. Heard(w, x, n \o ms, queue[b], known, ends)
      <4> HIDE DEF w, ends, n, known
      <4> QED
        BY <3>9, <3>10, HeardSend
    <3> QED
      BY <3>8, <3>11
  <2> QED
    BY <2>2, <2>3
<1>3. OwnCancels' /\ Noticed'
  BY MoveCancels, MoveNoticed
<1> QED
  BY <1>2, <1>3 DEF Known

(* What is sent to one agent cancels what the words do.                    *)
LEMMA CastCancels ==
  ASSUME NEW x, NEW b, NEW ms,
         \A i \in DOMAIN ms : \A id \in Comp, m \in Mask : ms[i] = CancelSub(id, m) => LocationOf(id) = x
  PROVE  CancelsOwn(x, Cast({b}, ms))
<1>1. DOMAIN <<>> = {}
  OBVIOUS
<1> QED
  BY <1>1 DEF CancelsOwn, Cast

(* FTBM_Send of a client process does, if what it says is so.              *)
LEMMA SendUpKnown ==
  ASSUME Watched, NEW p \in up \cap Process, NEW ms, Said(p, ms), SendUp(p, ms),
         \A i \in DOMAIN ms : \A id \in Comp, m \in Mask : ms[i] = CancelSub(id, m) => LocationOf(id) = p,
         \A c \in Client : HostOf[c] # p => (c \in handles' <=> c \in handles) /\ subs'[c] = subs[c],
         Asserts(p, ms, NoAgent), Shut'
  PROVE  Known'
<1> DEFINE sent == Cast({attach[p]}, ms)
<1>1. Move(p, sent, {}, NoAgent)
  BY SendUpMove DEF Watched
<1>2. ms \in Seq(Message) /\ attach' = attach
  BY DEF Said, SendUp
<1>3. CancelsOwn(p, sent)
  BY CastCancels
<1>4. attach'[p] \in Location => sent[attach'[p]] = ms
  BY <1>2 DEF Cast
<1> HIDE DEF sent
<1> QED
  BY <1>1, <1>2, <1>3, <1>4, ProcessMoveKnown

(* A message that retracts nothing is one of these.                        *)
LEMMA OneWord ==
  ASSUME NEW w, NEW id, NEW m, NEW b \in BOOLEAN
  PROVE  Turned(<<w>>, {RegSub(id, m)}, Retracts(id, m), b)
           <=> w = RegSub(id, m) \/ (b /\ w \notin Retracts(id, m))
BY TurnedOne

(* Subscribing says what is wanted,                                        *)
LEMMA SubscribeKnown ==
  ASSUME Watched, NEW c \in Client, NEW m \in Mask, Subscribe(c, m)
  PROVE  Known'
<1> DEFINE ms == <<RegSub(c, m)>>
           p == HostOf[c]
<1>1. /\ c \in handles /\ p \in up \cap Process /\ c \in Comp /\ handles' = handles
      /\ subs' = [subs EXCEPT ![c] = @ \cup {m}] /\ SendUp(p, ms)
      /\ subs \in [Client -> SUBSET Mask] /\ Shut /\ handles \subseteq Client
  BY HostRuns DEF Subscribe, Comp, Watched, Standing, IInv, TypeOK, Known
<1>2. Said(p, ms)
  BY <1>1, MessageTypes, SubsDiffer DEF Said
<1>3. \A i \in DOMAIN ms : \A id, n : ms[i] # CancelSub(id, n)
  BY SubsDiffer
<1>4. Asserts(p, ms, NoAgent)
  <2> SUFFICES ASSUME NEW d \in handles, NEW n \in Mask, NEW b \in BOOLEAN,
                      n \in subs'[d], n \in subs[d] => b
               PROVE  Turned(ms, {RegSub(d, n)}, Retracts(d, n), b)
    BY <1>1 DEF Asserts
  <2>1. RegSub(c, m) \notin Retracts(d, n)
    BY SubsDiffer DEF Retracts
  <2>2. n \in subs[d] \/ (d = c /\ n = m)
    BY <1>1
  <2> QED
    BY <2>1, <2>2, OneWord
<1>5. Shut'
  BY <1>1 DEF Shut
<1>6. \A d \in Client : HostOf[d] # p => (d \in handles' <=> d \in handles) /\ subs'[d] = subs[d]
  BY <1>1
<1> HIDE DEF ms
<1> QED
  BY <1>1, <1>2, <1>3, <1>4, <1>5, <1>6, SendUpKnown

(* a cancel what is not,                                                   *)
LEMMA UnsubscribeKnown ==
  ASSUME Watched, NEW c \in Client, NEW m \in Mask, Unsubscribe(c, m)
  PROVE  Known'
<1> DEFINE ms == <<CancelSub(c, m)>>
           p == HostOf[c]
<1>1. /\ c \in handles /\ p \in up \cap Process /\ c \in Comp /\ handles' = handles
      /\ subs' = [subs EXCEPT ![c] = @ \ {m}] /\ SendUp(p, ms)
      /\ subs \in [Client -> SUBSET Mask] /\ Shut /\ handles \subseteq Client
  BY HostRuns DEF Unsubscribe, Comp, Watched, Standing, IInv, TypeOK, Known
<1>2. Said(p, ms)
  BY <1>1, MessageTypes, SubsDiffer DEF Said
<1>3. \A i \in DOMAIN ms : \A id, n : ms[i] = CancelSub(id, n) => id = c
  BY SubsDiffer
<1>4. Asserts(p, ms, NoAgent)
  <2> SUFFICES ASSUME NEW d \in handles, NEW n \in Mask, NEW b \in BOOLEAN,
                      n \in subs'[d], n \in subs[d] => b
               PROVE  Turned(ms, {RegSub(d, n)}, Retracts(d, n), b)
    BY <1>1 DEF Asserts
  <2>1. n \in subs[d] /\ ~ (d = c /\ n = m)
    BY <1>1
  <2>2. CancelSub(c, m) \notin Retracts(d, n)
    BY <2>1, SubsDiffer DEF Retracts
  <2> QED
    BY <2>1, <2>2, OneWord
<1>5. Shut'
  BY <1>1 DEF Shut
<1>6. \A d \in Client : HostOf[d] # p => (d \in handles' <=> d \in handles) /\ subs'[d] = subs[d]
  BY <1>1
<1>7. LocationOf(c) = p
  BY AgentLocation
<1> HIDE DEF ms
<1> QED
  BY <1>1, <1>2, <1>3, <1>4, <1>5, <1>6, <1>7, SendUpKnown

(* and an event says nothing of it.                                        *)
LEMMA PublishKnown ==
  ASSUME Watched, NEW c \in Client, NEW e \in Event, Publish(c, e)
  PROVE  Known'
<1> DEFINE p == HostOf[c]
           w == Notify(e, attach[p])
           ms == <<w>>
<1>1. /\ c \in handles /\ p \in up \cap Process /\ handles' = handles /\ subs' = subs
      /\ SendUp(p, ms) /\ Shut /\ handles \subseteq Client
  BY HostRuns DEF Publish, Watched, Standing, IInv, TypeOK, Known
<1>2. attach[p] \in Comp
  BY <1>1, Ids DEF Watched, Standing, IInv, Attached
<1>3. \A id, n : w # CancelSub(id, n) /\ w # RegSub(id, n) /\ w # Reg(id) /\ w # Dereg(id) /\ w # EOF
  BY DEF Notify, CancelSub, RegSub, Reg, Dereg, EOF
<1>4. w \in Message
  BY <1>2, MessageTypes
<1> HIDE DEF w
<1>5. Said(p, ms)
  BY <1>3, <1>4 DEF Said
<1>6. Asserts(p, ms, NoAgent)
  <2> SUFFICES ASSUME NEW d \in handles, NEW n \in Mask, NEW b \in BOOLEAN,
                      n \in subs[d], n \in subs[d] => b
               PROVE  Turned(ms, {RegSub(d, n)}, Retracts(d, n), b)
    BY <1>1 DEF Asserts
  <2>1. w \notin Retracts(d, n)
    BY <1>3 DEF Retracts
  <2> QED
    BY <2>1, OneWord
<1>7. Shut'
  BY <1>1 DEF Shut
<1>8. \A i \in DOMAIN ms : \A id, n : ms[i] # CancelSub(id, n)
  BY <1>3
<1> HIDE DEF ms
<1> QED
  BY <1>1, <1>5, <1>6, <1>7, <1>8, SendUpKnown

(* Registering a handle, the first of the process or another one, says     *)
(* nothing of the subscriptions of the others: it has none itself.         *)
LEMMA ConnectKnown ==
  ASSUME Watched, NEW c \in Client, Connect(c)
  PROVE  Known'
<1> DEFINE p == HostOf[c]
<1>1. /\ c \notin handles /\ handles' = handles \cup {c} /\ subs' = subs
      /\ Shut /\ Attached /\ Standing /\ handles \subseteq Client
  BY DEF Connect, SendUp, Watched, Standing, IInv, TypeOK, Known
<1>2. /\ p \in Process /\ p \in Comp /\ c \in Comp /\ c # p /\ LocationOf(c) = p /\ LocationOf(p) = p
      /\ p \in Location
  BY AgentLocation, Ids
<1>3. subs[c] = {} /\ Shut'
  BY <1>1 DEF Shut
<1>4. \A d \in Client : HostOf[d] # p => (d \in handles' <=> d \in handles) /\ subs'[d] = subs[d]
  BY <1>1
<1>5. CASE p \in up /\ SendUp(p, <<Reg(c)>>)
  <2> DEFINE ms == <<Reg(c)>>
  <2>1. ms \in Seq(Message) /\ DOMAIN ms = {1} /\ ms[1] = Reg(c)
    BY <1>2, MessageTypes
  <2>2. Said(p, ms)
    BY <1>2, <2>1, MessagesDiffer DEF Said
  <2>3. \A i \in DOMAIN ms : \A id, m : ms[i] # CancelSub(id, m)
    BY <2>1, SubsDiffer
  <2>4. Asserts(p, ms, NoAgent)
    <3> SUFFICES ASSUME NEW d \in handles', NEW m \in Mask, NEW b \in BOOLEAN, m \in subs'[d],
                        d \in handles /\ m \in subs[d] => b
                 PROVE  Turned(ms, {RegSub(d, m)}, Retracts(d, m), b)
      BY DEF Asserts
    <3>1. b /\ d # c
      BY <1>1, <1>3
    <3>2. Reg(c) \notin Retracts(d, m)
      BY <3>1, SubsDiffer, MessagesDiffer DEF Retracts
    <3>3. Turned(ms, {RegSub(d, m)}, Retracts(d, m), b)
            <=> Reg(c) = RegSub(d, m) \/ (b /\ Reg(c) \notin Retracts(d, m))
      BY OneWord
    <3> QED
      BY <3>1, <3>2, <3>3
  <2>5. p \in up \cap Process /\ SendUp(p, ms)
    BY <1>2, <1>5
  <2> HIDE DEF ms
  <2> QED
    BY <1>3, <1>4, <2>2, <2>3, <2>4, <2>5, SendUpKnown
<1>6. CASE p \notin up
  <2>1. PICK a \in up \cap Agent :
          LET sent == Cast({a}, <<Reg(p), Reg(c)>>)
          IN Move(p, sent, {}, a) /\ attach'[p] = a
    BY <1>1, <1>6, ConnectFirst
  <2> DEFINE ms == <<Reg(p), Reg(c)>>
             sent == Cast({a}, ms)
  <2>2. Move(p, sent, {}, a) /\ attach'[p] = a
    BY <2>1
  <2>3. ms \in Seq(Message) /\ DOMAIN ms = {1, 2} /\ ms[1] = Reg(p) /\ ms[2] = Reg(c)
    BY <1>2, MessageTypes
  <2>4. \A i \in DOMAIN ms : \A id, m : ms[i] # CancelSub(id, m)
    BY <2>3, SubsDiffer
  <2>5. Asserts(p, ms, a)
    <3>1. ASSUME NEW d \in handles', NEW m \in Mask, HostOf[d] = p, m \in subs'[d] PROVE FALSE
      BY <1>1, <1>3, <1>6, <3>1 DEF Attached
    <3> QED
      BY <3>1 DEF Asserts
  <2>6. sent[a] = ms
    BY <2>1, AgentLocation DEF Cast
  <2>7. CancelsOwn(p, sent)
    <3> HIDE DEF ms
    <3> QED
      BY <2>4, CastCancels
  <2> HIDE DEF ms, sent
  <2> QED
    BY <1>1, <1>2, <1>3, <1>4, <2>2, <2>3, <2>5, <2>6, <2>7, ProcessMoveKnown
<1> QED
  BY <1>5, <1>6 DEF Connect

(* Nor does deregistering one.                                             *)
LEMMA DisconnectOneKnown ==
  ASSUME Watched, NEW c \in Client, Disconnect(c), OpenAt(HostOf[c]) # {c}
  PROVE  Known'
<1> DEFINE p == HostOf[c]
           ms == <<Dereg(c)>>
<1>1. /\ c \in handles /\ p \in up \cap Process /\ c \in Comp /\ c # p
      /\ handles' = handles \ {c} /\ LocationOf(c) = p /\ subs' = [subs EXCEPT ![c] = {}]
      /\ SendUp(p, ms) /\ subs \in [Client -> SUBSET Mask] /\ Shut /\ handles \subseteq Client
  <2>1. IInv /\ Shut
    BY DEF Watched, Standing, Known
  <2>2. c \in handles /\ handles' = handles \ {c} /\ subs' = [subs EXCEPT ![c] = {}]
    BY DEF Disconnect
  <2>3. SendUp(p, ms)
    BY DEF Disconnect
  <2>4. subs \in [Client -> SUBSET Mask] /\ handles \subseteq Client
    BY <2>1 DEF IInv, TypeOK
  <2>5. p \in up \cap Process
    BY <2>1, <2>2, HostRuns
  <2>6. c \in Comp /\ c # p /\ LocationOf(c) = p
    BY AgentLocation
  <2> QED
    BY <2>1, <2>2, <2>3, <2>4, <2>5, <2>6
<1>2. \A d \in Client : HostOf[d] # p => (d \in handles' <=> d \in handles) /\ subs'[d] = subs[d]
  BY <1>1
<1>3. ms \in Seq(Message) /\ DOMAIN ms = {1} /\ ms[1] = Dereg(c)
  BY <1>1, MessageTypes
<1>4. Said(p, ms)
  BY <1>1, <1>3, MessagesDiffer DEF Said
<1>5. \A i \in DOMAIN ms : \A id, m : ms[i] # CancelSub(id, m)
  BY <1>3, SubsDiffer
<1>6. Asserts(p, ms, NoAgent)
  <2> SUFFICES ASSUME NEW d \in handles', NEW m \in Mask, NEW b \in BOOLEAN, m \in subs'[d],
                      d \in handles /\ m \in subs[d] => b
               PROVE  Turned(ms, {RegSub(d, m)}, Retracts(d, m), b)
    BY DEF Asserts
  <2>1. b /\ d # c
    BY <1>1
  <2>2. Dereg(c) \notin Retracts(d, m)
    BY <2>1, SubsDiffer, MessagesDiffer DEF Retracts
  <2>3. Turned(ms, {RegSub(d, m)}, Retracts(d, m), b)
          <=> Dereg(c) = RegSub(d, m) \/ (b /\ Dereg(c) \notin Retracts(d, m))
    BY OneWord
  <2> QED
    BY <2>1, <2>2, <2>3
<1>7. Shut'
  BY <1>1 DEF Shut
<1> HIDE DEF ms
<1> QED
  BY <1>1, <1>2, <1>4, <1>5, <1>6, <1>7, SendUpKnown

(* A process that attaches anew registers everything again.                *)
LEMMA ReceiveEOFKnown ==
  ASSUME Watched, NEW p \in Process, ReceiveEOF(p)
  PROVE  Known'
<1>1. /\ handles' = handles /\ subs' = subs /\ Shut /\ Standing
      /\ handles \subseteq Client /\ IInv /\ subs \in [Client -> SUBSET Mask]
  BY DEF ReceiveEOF, app, Watched, Standing, IInv, TypeOK, Known
<1>2. PICK r \in SetToSeqs(Again(p)), a \in up \cap Agent :
        LET sent == Cast({a}, <<Reg(p)>> \o r)
        IN /\ \A i, j \in DOMAIN r :
                r[i].type = "CLIENT_REG" /\ r[j].type = "REG_SUBSCRIPTION"
                  /\ r[i].src = r[j].src => i < j
           /\ r \in Seq(Message) /\ attach'[p] = a
           /\ Move(p, sent, {attach[p]}, a)
  BY <1>1, ReceiveEOFMove
<1> DEFINE ms == <<Reg(p)>> \o r
           sent == Cast({a}, ms)
<1>3. /\ Move(p, sent, {attach[p]}, a) /\ attach'[p] = a /\ r \in Seq(Message)
      /\ \A i, j \in DOMAIN r :
           r[i].type = "CLIENT_REG" /\ r[j].type = "REG_SUBSCRIPTION"
             /\ r[i].src = r[j].src => i < j
  BY <1>2
<1>4. IsFiniteSet(Again(p))
  BY <1>1, AgainType
<1>5. /\ \A i \in DOMAIN r : r[i] \in Again(p)
      /\ \A w \in Again(p) : \E i \in DOMAIN r : r[i] = w
  BY <1>2, <1>4, Listed
<1>6. Reg(p) \in Message
  BY AgentLocation, Ids, MessageTypes
<1>7. /\ ms \in Seq(Message) /\ DOMAIN ms = 1..(Len(r) + 1) /\ DOMAIN r = 1..Len(r) /\ Len(r) \in Nat
      /\ ms[1] = Reg(p)
      /\ \A i \in DOMAIN r : ms[i + 1] = r[i]
      /\ \A i \in DOMAIN ms : i = 1 \/ (i - 1 \in DOMAIN r /\ ms[i] = r[i - 1])
  BY <1>3, <1>6
<1>8. \A w \in Again(p) : \/ \E c \in OpenAt(p) : w = Reg(c)
                          \/ \E c \in OpenAt(p), m \in Mask : w = RegSub(c, m)
  BY <1>1 DEF Again, OpenAt
<1>9. \A i \in DOMAIN ms : \A id, m : ms[i] # CancelSub(id, m)
  <2>1. \A w \in Again(p) : \A id, m : w # CancelSub(id, m)
    BY <1>8, SubsDiffer
  <2>2. \A id, m : Reg(p) # CancelSub(id, m)
    BY SubsDiffer
  <2> HIDE DEF ms
  <2> QED
    BY <1>5, <1>7, <2>1, <2>2
<1>10. Asserts(p, ms, a)
  <2> SUFFICES ASSUME NEW c \in handles', NEW m \in Mask, NEW b \in BOOLEAN,
                      HostOf[c] = p, m \in subs'[c]
               PROVE  Turned(ms, {RegSub(c, m)}, Retracts(c, m), b)
    BY DEF Asserts
  <2>1. c \in OpenAt(p) /\ m \in subs[c]
    BY <1>1 DEF OpenAt
  <2>2. Reg(c) \in Again(p) /\ RegSub(c, m) \in Again(p)
    BY <2>1 DEF Again
  <2>3. PICK j \in DOMAIN r : r[j] = RegSub(c, m)
    BY <1>5, <2>2
  <2>4. j + 1 \in DOMAIN ms /\ ms[j + 1] = RegSub(c, m)
    <3> HIDE DEF ms
    <3> QED
      BY <1>7, <2>3
  <2>5. ASSUME NEW k \in DOMAIN ms, k > j + 1 PROVE ms[k] \notin Retracts(c, m)
    <3>1. k - 1 \in DOMAIN r /\ ms[k] = r[k - 1] /\ ~ (k - 1 < j) /\ j \in Nat /\ k \in Nat
      <4> HIDE DEF ms
      <4> QED
        BY <1>7, <2>3, <2>5
    <3>2. r[k - 1] # Reg(c)
      <4> SUFFICES ASSUME r[k - 1] = Reg(c) PROVE FALSE
        OBVIOUS
      <4>1. r[k - 1].type = "CLIENT_REG" /\ r[k - 1].src = c
        BY DEF Reg
      <4>2. r[j].type = "REG_SUBSCRIPTION" /\ r[j].src = c
        BY <2>3 DEF RegSub
      <4> QED
        BY <1>3, <2>3, <3>1, <4>1, <4>2
    <3>3. \A w \in Again(p) : w # Reg(c) => w \notin Retracts(c, m)
      BY <1>8, SubsDiffer, MessagesDiffer DEF Retracts
    <3> QED
      BY <1>5, <3>1, <3>2, <3>3
  <2> HIDE DEF ms
  <2> QED
    BY <2>4, <2>5 DEF Turned
<1>11. sent[a] = ms
  BY <1>2, AgentLocation DEF Cast
<1>12. CancelsOwn(p, sent)
  <2> HIDE DEF ms
  <2> QED
    BY <1>9, CastCancels
<1>13. a # NoAgent /\ Shut'
  BY <1>1, Ids DEF Shut
<1> HIDE DEF ms, sent
<1> QED
  BY <1>1, <1>3, <1>7, <1>10, <1>11, <1>12, <1>13, ProcessMoveKnown

-----------------------------------------------------------------------------
(* Processes that come and go.                                             *)

(* Nobody knows an agent that starts, and it knows nothing.                *)
LEMMA StartAgentKnown ==
  ASSUME Watched, NEW a \in Agent, StartAgent(a)
  PROVE  Known'
<1>1. /\ Standing /\ Links /\ Fresh /\ Accounted /\ Shut /\ IInv /\ IInv' /\ Attached
      /\ a \notin up /\ a \notin gone
      /\ handles \subseteq Client
  BY DEF StartAgent, Watched, Standing, Links, Known, IInv, TypeOK
<1>2. a \in Location /\ LocationOf(a) = a /\ a \in Comp /\ a \notin Process /\ a \notin Client
  BY AgentLocation, IdsAreDistinct
<1>3. PICK p, sent : Move(a, sent, {}, p) /\ Started(a, p, sent)
  BY <1>1, StartMove
<1>4. /\ up' = up \cup {a} /\ gone' = gone
      /\ \A b \in Agent \ {a} : info'[b] = info[b]
  BY <1>3 DEF Move
<1>5. /\ p \in Offers(a) /\ info'[a].parent = p /\ \A m \in Mask : info'[a].catchMap[m] = {}
      /\ attach' = attach /\ handles' = handles /\ subs' = subs
  BY <1>3 DEF Started
<1>6. Heeded'
  <2> SUFFICES ASSUME NEW b \in up' \cap Agent, NEW id \in Comp, NEW m \in Mask, Wants(id, m, b)'
               PROVE  KnownAt(id, m, b)'
    BY DEF Heeded
  <2>1. CASE b # a /\ LocationOf(id) # a
    BY <1>3, <1>5, <2>1, MoveUntouched
  <2>2. CASE b # a /\ LocationOf(id) = a
    <3>1. id = a
      BY <1>2, <2>2, AgentLocation
    <3>2. a \notin handles'
      BY <1>1, <1>2, <1>5
    <3> QED
      BY <1>5, <3>1, <3>2 DEF Wants, Asks
  <2>3. CASE b = a /\ id \in handles'
    <3>1. HostOf[id] \in up \cap Process
      BY <1>1, <1>5, <2>3, HostOfType DEF Attached
    <3>2. attach[HostOf[id]] # a
      BY <1>1, <1>2, <3>1 DEF Fresh
    <3>3. id \notin Agent
      BY <1>1, <1>5, <2>3, AgentLocation
    <3> QED
      BY <1>5, <2>3, <3>2, <3>3 DEF Wants
  <2>4. CASE b = a /\ id \notin handles'
    <3>1. id \in up' \cap Agent /\ a \in info'[id].peers /\ Asks(info'[id], a, m)
      BY <2>4 DEF Wants
    <3>2. id # a
      BY <1>5, <3>1 DEF Asks
    <3>3. id \in up \cap Agent /\ a \in info[id].peers /\ id \in Location
      BY <1>4, <3>1, <3>2, Ids
    <3>4. net[a][id] = <<>> /\ \A i \in DOMAIN queue[id] : queue[id][i].from # a
      BY <1>1, <1>2, <3>3 DEF Fresh
    <3>5. /\ \A k \in DOMAIN net[a][id] : net[a][id][k] \notin {Dereg(a), EOF}
          /\ \A k \in DOMAIN queue[id] : queue[id][k] \notin Entries(a, {Dereg(a), EOF})
      BY <3>4 DEF Entries, Entry
    <3>6. Expected(a, net[a][id], queue[id], TRUE, {Dereg(a), EOF})
      BY <1>2, <3>5, ExpectedStays
    <3>7. ExpectedAt(a, id, {Dereg(a), EOF})
      BY <1>2, <3>3, <3>6 DEF ExpectedAt
    <3>8. Belongs(a, id)
      BY <1>1, <1>2, <3>3, <3>7 DEF Accounted
    <3>9. a \notin handles
      BY <1>1, <1>2
    <3> QED
      BY <1>1, <1>2, <3>8, <3>9 DEF Belongs
  <2> QED
    BY <2>1, <2>2, <2>3, <2>4
<1>7. OwnCancels'
  <2>1. CancelsOwn(a, sent)
    BY <1>3 DEF Started, CancelsOwn
  <2> QED
    BY <1>3, <2>1, MoveCancels
<1>8. Noticed'
  BY <1>3, MoveNoticed
<1>9. Shut'
  BY <1>1, <1>5 DEF Shut
<1> QED
  BY <1>6, <1>7, <1>8, <1>9 DEF Known

(* When a process ends, what the others know stays; who was attached to it *)
(* will be told.                                                           *)
LEMMA EndsKnown ==
  ASSUME Watched, NEW x, NEW sent, Ends(x, sent),
         \A c \in Client : HostOf[c] # x => subs'[c] = subs[c], Shut'
  PROVE  Known'
<1>1. /\ Standing /\ Links /\ Joined /\ IInv /\ IInv' /\ TypeOK /\ Attached /\ Attached'
      /\ x \in up /\ up' = up \ {x} /\ gone' = gone \cup {x} /\ Known
      /\ up \subseteq Location /\ handles' \subseteq Client
  BY DEF Watched, Standing, Links, IInv, TypeOK, Ends
<1>2. /\ \A b \in Agent \ {x} : info'[b] = info[b]
      /\ \A q \in Process \ {x} : attach'[q] = attach[q]
      /\ \A c \in Client : HostOf[c] # x => (c \in handles' <=> c \in handles)
  BY DEF Ends
<1>3. Heeded'
  <2> SUFFICES ASSUME NEW b \in up' \cap Agent, NEW id \in Comp, NEW m \in Mask, Wants(id, m, b)'
               PROVE  KnownAt(id, m, b)'
    BY DEF Heeded
  <2> DEFINE l == LocationOf(id)
  <2>1. id \in up' \cap Agent => l = id
    BY AgentLocation
  <2>2. id \in handles' => id \in Client /\ l = HostOf[id] /\ l \in Process /\ l \in up'
    BY <1>1, AgentLocation DEF Attached
  <2>3. l # x /\ l \in Location /\ id \in CompsAt(l)
    BY <1>1, <2>1, <2>2, Ids DEF Wants, CompsAt
  <2>4. net'[l][b] = net[l][b] /\ info'[b] = info[b] /\ queue'[b] = queue[b]
    BY <1>1, <2>3, EndsElsewhere
  <2>7. Wants(id, m, b)
    <3>1. CASE id \in up' \cap Agent /\ b \in info'[id].peers /\ Asks(info'[id], b, m)
      <4>1. id \in up \cap Agent /\ info'[id] = info[id]
        BY <1>1, <1>2, <2>1, <2>3, <3>1
      <4> QED
        BY <3>1, <4>1 DEF Wants
    <3>2. CASE id \in handles' /\ m \in subs'[id] /\ attach'[HostOf[id]] = b
      <4>1. id \in handles /\ subs'[id] = subs[id] /\ attach'[HostOf[id]] = attach[HostOf[id]]
        BY <1>2, <2>2, <2>3, <3>2
      <4> QED
        BY <3>2, <4>1 DEF Wants
    <3> QED
      BY <3>1, <3>2 DEF Wants
  <2>8. KnownAt(id, m, b)
    BY <1>1, <2>7 DEF Known, Heeded
  <2> QED
    BY <2>4, <2>8 DEF KnownAt
<1>4. OwnCancels'
  <2> SUFFICES ASSUME NEW l \in Location, NEW id \in Comp, NEW m \in Mask, LocationOf(id) # l
               PROVE  /\ \A k \in Location : ~ Written(l, k, CancelSub(id, m))'
                      /\ \A a \in Agent : ~ Queued(l, a, CancelSub(id, m))'
    BY DEF OwnCancels
  <2>1. CancelSub(id, m) # EOF
    BY SubsDiffer
  <2>2. \A k \in Location : ~ Written(l, k, CancelSub(id, m))
    BY <1>1 DEF Known, OwnCancels
  <2>3. \A a \in Agent : ~ Queued(l, a, CancelSub(id, m))
    BY <1>1 DEF Known, OwnCancels
  <2>4. l = x => \A k \in Location : \A i \in DOMAIN sent[k] : sent[k][i] # CancelSub(id, m)
    BY DEF Ends, Farewell
  <2>5. \A k \in Location : ~ Written(l, k, CancelSub(id, m))'
    BY <1>1, <2>1, <2>2, <2>4, EndsWritten
  <2>6. \A a \in Agent : ~ Queued(l, a, CancelSub(id, m))'
    BY <1>1, <2>3, EndsWritten
  <2> QED
    BY <2>5, <2>6
<1>5. Noticed'
  <2> SUFFICES ASSUME NEW q \in up' \cap Process, attach'[q] \notin up'
               PROVE  \E i \in DOMAIN net'[attach'[q]][q] : net'[attach'[q]][q][i] = EOF
    BY DEF Noticed, Written
  <2> DEFINE a == attach[q]
  <2>1. q \in up \cap Process /\ q # x /\ attach'[q] = a /\ a \in Agent /\ q \in Location /\ a \in Location
    BY <1>1, <1>2, Ids DEF Attached
  <2>2. EndsNet(x, sent)
    BY <1>1, EndsFacts
  <2>3. CASE a \notin up
    <3>1. Written(a, q, EOF)
      BY <1>1, <2>1, <2>3 DEF Known, Noticed
    <3>2. net'[a][q] = net[a][q]
      BY <1>1, <2>1, <2>2, <2>3 DEF EndsNet
    <3> QED
      BY <2>1, <3>1, <3>2 DEF Written
  <2>4. CASE a \in up
    <3>1. a = x
      BY <1>1, <2>1, <2>4
    <3>2. Belongs(q, x)
      BY <2>1, <3>1 DEF Belongs
    <3>3. Linked(x, q)
      BY <1>1, <2>1, <3>1, <3>2 DEF Joined
    <3>4. net'[x][q] = net[x][q] \o sent[q] \o <<EOF>>
      BY <2>1, <2>2, <3>3 DEF EndsNet
    <3>5. net[x][q] \in Seq(Message) /\ sent[q] \in Seq(Message) /\ EOF \in Message
      BY <1>1, <2>1, <3>1, MessageTypes DEF TypeOK, Ends, Farewell
    <3>6. /\ Len(net[x][q] \o sent[q]) + 1 \in DOMAIN net'[x][q]
          /\ net'[x][q][Len(net[x][q] \o sent[q]) + 1] = EOF
      <4> DEFINE u == net[x][q] \o sent[q]
      <4>0. \A s, t \in Seq(Message) : s \o t \in Seq(Message) /\ Len(s) \in Nat
        OBVIOUS
      <4>1. u \in Seq(Message) /\ Len(u) \in Nat
        BY <3>5, <4>0
      <4>2. net'[x][q] = u \o <<EOF>>
        BY <3>4
      <4> HIDE DEF u
      <4>3. /\ Len(u \o <<EOF>>) = Len(u) + 1
            /\ DOMAIN (u \o <<EOF>>) = 1..Len(u \o <<EOF>>)
            /\ (u \o <<EOF>>)[Len(u) + 1] = EOF
        BY <3>5, <4>1, BehindIsLast
      <4>4. Len(u) + 1 \in DOMAIN net'[x][q] /\ net'[x][q][Len(u) + 1] = EOF
        BY <4>1, <4>2, <4>3
      <4> QED
        BY <4>4 DEF u
    <3> QED
      BY <2>1, <3>1, <3>6 DEF Written
  <2> QED
    BY <2>3, <2>4
<1> QED
  BY <1>3, <1>4, <1>5 DEF Known

(* What stands still stays known.                                          *)
LEMMA StillKnown ==
  ASSUME Known, UNCHANGED vars
  PROVE  Known'
<1>1. /\ up' = up /\ gone' = gone /\ info' = info /\ net' = net
      /\ queue' = queue /\ attach' = attach /\ handles' = handles /\ subs' = subs
  BY DEF vars, app
<1>2. \A l, k, m : Written(l, k, m)' <=> Written(l, k, m)
  BY <1>1 DEF Written
<1>3. \A l, k, m : Queued(l, k, m)' <=> Queued(l, k, m)
  BY <1>1 DEF Queued
<1>4. \A id, m, a : (Wants(id, m, a)' <=> Wants(id, m, a)) /\ (KnownAt(id, m, a)' <=> KnownAt(id, m, a))
  BY <1>1 DEF Wants, KnownAt
<1>5. Heeded' /\ OwnCancels'
  BY <1>1, <1>2, <1>3, <1>4 DEF Known, Heeded, OwnCancels
<1>6. Noticed' /\ Shut'
  BY <1>1, <1>2 DEF Known, Noticed, Shut
<1> QED
  BY <1>5, <1>6 DEF Known

(* Every step of an agent,                                                 *)
LEMMA AgentKnown ==
  ASSUME Watched, Calm, NEW a \in Agent, AgentStep(a)
  PROVE  Known'
<1>1. CASE Dispatch(a)
  <2>1. Standing
    BY DEF Watched
  <2>2. Handled(a)
    BY <1>1, <2>1, NotifyHandled, ClientRegHandled, ClientDeregHandled, CleanupHandled,
       RegSubscriptionHandled, CancelHandled DEF Dispatch
  <2>3. a \in up
    BY <1>1 DEF Dispatch, HandleNotify, HandleClientReg, HandleClientDereg, HandleCleanup,
                HandleRegSubscription, HandleCancel, Takes
  <2> QED
    BY <2>2, <2>3, HandledKnown
<1>2. ASSUME NEW x \in Location, Grab(a, x)
      PROVE  Known'
  BY <1>2, GrabKnown
<1> QED
  BY <1>1, <1>2 DEF AgentStep

(* every call of an application,                                           *)
LEMMA DisconnectKnown ==
  ASSUME Watched, NEW c \in Client, Disconnect(c)
  PROVE  Known'
<1>1. CASE OpenAt(HostOf[c]) # {c}
  BY <1>1, DisconnectOneKnown
<1>2. CASE OpenAt(HostOf[c]) = {c}
  <2>1. Standing /\ Shut /\ subs \in [Client -> SUBSET Mask]
    BY DEF Watched, Known, Standing, IInv, TypeOK
  <2>2. PICK sent : Ends(HostOf[c], sent)
    BY <1>2, <2>1, DisconnectLastEnds
  <2>3. subs' = [subs EXCEPT ![c] = {}] /\ handles' = handles \ {c}
    BY <1>2 DEF Disconnect
  <2>4. (\A d \in Client : HostOf[d] # HostOf[c] => subs'[d] = subs[d]) /\ Shut'
    BY <2>1, <2>3 DEF Shut
  <2> QED
    BY <2>2, <2>3, <2>4, EndsKnown
<1> QED
  BY <1>1, <1>2

LEMMA CallKnown ==
  ASSUME Watched, Call, \A p \in Process : ~ SendUpFails(p)
  PROVE  Known'
BY ConnectKnown, DisconnectKnown, SubscribeKnown, UnsubscribeKnown, PublishKnown DEF Call

(* and every start and end of a process keeps what is known.               *)
LEMMA AgentEndsKnown ==
  ASSUME Watched, NEW a \in Agent, CrashAgent(a) \/ FinalizeAgent(a)
  PROVE  Known'
<1>1. Standing /\ Shut
  BY DEF Watched, Known
<1>2. \E sent : Ends(a, sent)
  BY <1>1, CrashAgentEnds, FinalizeAgentEnds
<1>3. subs' = subs /\ handles' = handles
  BY DEF CrashAgent, FinalizeAgent, BuryAgent
<1>4. Shut'
  BY <1>1, <1>3 DEF Shut
<1> QED
  BY <1>2, <1>3, <1>4, EndsKnown

LEMMA CrashProcessKnown ==
  ASSUME Watched, NEW p \in Process, CrashProcess(p)
  PROVE  Known'
<1>1. Standing /\ Shut /\ handles \subseteq Client
  BY DEF Watched, Known, Standing, IInv, TypeOK
<1>2. \E sent : Ends(p, sent)
  BY <1>1, CrashProcessEnds
<1>3. /\ handles' = handles \ OpenAt(p)
      /\ subs' = [c \in Client |-> IF c \in OpenAt(p) THEN {} ELSE subs[c]]
  BY DEF CrashProcess
<1>4. \A c \in Client : HostOf[c] # p => subs'[c] = subs[c]
  BY <1>3 DEF OpenAt
<1>5. Shut'
  BY <1>1, <1>3 DEF Shut
<1> QED
  BY <1>2, <1>3, <1>4, <1>5, EndsKnown

LEMMA ComeAndGoKnown ==
  ASSUME Watched, ComeAndGo
  PROVE  Known'
BY StartAgentKnown, AgentEndsKnown, CrashProcessKnown DEF ComeAndGo

(* Every step keeps the invariant.                                         *)
LEMMA InterestStep ==
  ASSUME IInv, IInv', PeersInv, PeersInv', InterestInv, [Next]_vars
  PROVE  InterestInv'
<1> SUFFICES ASSUME writeErrors' = 0 PROVE Known'
  BY DEF InterestInv
<1>1. Calm /\ \A p \in Process : ~ SendUpFails(p)
  BY ErrorsStay
<1>2. Watched /\ Known
  <2>1. Standing
    BY <1>1 DEF Standing, Calm, PeersInv
  <2>2. PeersKept
    BY DEF PeersInv, PeersKept
  <2>3. Known
    BY <1>1 DEF InterestInv, Calm
  <2> QED
    BY <2>1, <2>2, <2>3 DEF Watched
<1>3. CASE \E a \in Agent : AgentStep(a)
  BY <1>1, <1>2, <1>3, AgentKnown
<1>4. CASE \E p \in Process : ProcessStep(p)
  BY <1>2, <1>4, ReceiveKnown, ReceiveEOFKnown DEF ProcessStep
<1>5. CASE Call
  BY <1>1, <1>2, <1>5, CallKnown
<1>6. CASE ComeAndGo
  BY <1>2, <1>6, ComeAndGoKnown
<1>7. CASE UNCHANGED vars
  BY <1>2, <1>7, StillKnown
<1> QED
  BY <1>3, <1>4, <1>5, <1>6, <1>7 DEF Next

(* At first nobody asks for anything.                                      *)
LEMMA InterestInit ==
  ASSUME Init
  PROVE  InterestInv
<1>1. /\ up = Running /\ gone = {} /\ handles = {} /\ Running \subseteq Agent
      /\ \A a \in Agent : info[a].parent = Boot[a].parent
      /\ \A a \in Agent : \A m \in Mask : info[a].catchMap[m] = {}
      /\ \A a \in Agent : queue[a] = <<>>
      /\ \A l, k \in Location : net[l][k] = <<>>
      /\ subs = [c \in Client |-> {}]
  <2>1. \A a \in Agent : info[a] = [EmptyInfo EXCEPT !.peers = BootPeers(a), !.parent = Boot[a].parent]
    BY DEF Init
  <2>2. \A a \in Agent : info[a].parent = Boot[a].parent
    BY <2>1 DEF EmptyInfo
  <2>3. \A a \in Agent : \A m \in Mask : info[a].catchMap[m] = {}
    <3>1. \A a \in Agent : info[a].catchMap = EmptyInfo.catchMap
      BY <2>1 DEF EmptyInfo
    <3>2. \A m \in Mask : EmptyInfo.catchMap[m] = {}
      BY DEF EmptyInfo
    <3> QED
      BY <3>1, <3>2
  <2> QED
    BY <2>2, <2>3 DEF Init, Running
<1>2. DOMAIN <<>> = {}
  OBVIOUS
<1>3. Heeded
  BY <1>1 DEF Heeded, Wants, Asks
<1>4. OwnCancels
  BY <1>1, <1>2 DEF OwnCancels, Written, Queued
<1>5. Noticed /\ Shut
  BY <1>1, AgentLocation DEF Noticed, Shut
<1> QED
  BY <1>3, <1>4, <1>5 DEF InterestInv, Known

(* As long as no write reported an error, everything that is asked for is  *)
(* known to who is to know of it, or on its way there.                     *)
THEOREM InterestKept == Spec => []InterestInv
<1>1. Init => InterestInv
  BY InterestInit
<1>2. IInv /\ IInv' /\ PeersInv /\ PeersInv' /\ InterestInv /\ [Next]_vars => InterestInv'
  BY InterestStep
<1> QED
  BY <1>1, <1>2, Invariance, PeersAccounted, PTL DEF Spec

-----------------------------------------------------------------------------
(* The routes to a subscription.                                           *)

(* The agent that lists the subscriber itself,                             *)
Homes(c, m) == {a \in up \cap Agent : Linked(a, HostOf[c]) /\ c \in info[a].catchMap[m]}

(* the agents that list one of S,                                          *)
Hops(m, S) ==
  {b \in up \cap Agent : \E a \in S : Linked(b, a) /\ a \in info[b].catchMap[m]}

(* and f[k] the agents at most k hops away.                                *)
Routes(f, c, m, n) ==
  f = [k \in 0..n |-> IF k = 0 THEN Homes(c, m) ELSE f[k-1] \cup Hops(m, f[k-1])]

LEMMA RoutesExist ==
  ASSUME NEW c, NEW m, NEW n \in Nat
  PROVE  \E f : Routes(f, c, m, n)
<1> DEFINE T == {k \in Nat : \E f : Routes(f, c, m, k)}
<1>1. 0 \in T
  <2> DEFINE f == [k \in 0..0 |-> Homes(c, m)]
  <2>1. f = [k \in 0..0 |-> IF k = 0 THEN Homes(c, m) ELSE f[k-1] \cup Hops(m, f[k-1])]
    OBVIOUS
  <2> HIDE DEF f
  <2> QED
    BY <2>1 DEF Routes
<1>2. ASSUME NEW i \in 0..n-1, i \in T PROVE i + 1 \in T
  <2>1. PICK f : Routes(f, c, m, i)
    BY <1>2
  <2> DEFINE g == [k \in 0..i+1 |-> IF k = i + 1 THEN f[i] \cup Hops(m, f[i]) ELSE f[k]]
  <2>2. \A k \in 0..i : f[k] = IF k = 0 THEN Homes(c, m) ELSE f[k-1] \cup Hops(m, f[k-1])
    BY <2>1 DEF Routes
  <2>3. g[i+1] = f[i] \cup Hops(m, f[i]) /\ \A k \in 0..i : g[k] = f[k]
    OBVIOUS
  <2>4. ASSUME NEW k \in 0..i+1
        PROVE  g[k] = IF k = 0 THEN Homes(c, m) ELSE g[k-1] \cup Hops(m, g[k-1])
    <3>1. CASE k = i + 1
      <4>1. k # 0 /\ k - 1 = i /\ g[i] = f[i]
        BY <2>3, <3>1
      <4> HIDE DEF g
      <4> QED
        BY <2>3, <3>1, <4>1
    <3>2. CASE k # i + 1
      <4>1. k \in 0..i /\ (k # 0 => k - 1 \in 0..i)
        BY <3>2
      <4> HIDE DEF g
      <4> QED
        BY <2>2, <2>3, <4>1
    <3> QED
      BY <3>1, <3>2
  <2>5. g = [k \in 0..i+1 |-> g[k]]
    OBVIOUS
  <2> HIDE DEF g
  <2>6. Routes(g, c, m, i + 1)
    BY <2>4, <2>5 DEF Routes
  <2> QED
    BY <2>6
<1> HIDE DEF T
<1>3. n \in T
  BY <1>1, <1>2, UpTo
<1> QED
  BY <1>3 DEF T

LEMMA RoutedIsRoutes ==
  ASSUME NEW c, NEW m, Cardinality(Agent) \in Nat
  PROVE  \E f : Routes(f, c, m, Cardinality(Agent)) /\ RoutedFrom(c, m) = f[Cardinality(Agent)]
<1> DEFINE f == CHOOSE g : Routes(g, c, m, Cardinality(Agent))
<1>1. Routes(f, c, m, Cardinality(Agent))
  BY RoutesExist
<1>2. RoutedFrom(c, m) = f[Cardinality(Agent)]
  BY Zenon DEF RoutedFrom, Routes, Homes, Hops
<1> QED
  BY <1>1, <1>2

(* There is one hop at least for each step, so the last one adds nothing.  *)
LEMMA RoutedClosed ==
  ASSUME NEW c, NEW m
  PROVE  LET R == RoutedFrom(c, m) IN
         /\ R \subseteq up \cap Agent
         /\ Homes(c, m) \subseteq R /\ Hops(m, R) \subseteq R
         /\ R \subseteq Homes(c, m) \cup Hops(m, R)
<1> DEFINE N == Cardinality(Agent)
<1>1. IsFiniteSet(Agent) /\ N \in Nat
  BY Ids, FiniteSubsets, FS_CardinalityType
<1>2. PICK f : Routes(f, c, m, N) /\ RoutedFrom(c, m) = f[N]
  BY <1>1, RoutedIsRoutes
<1> HIDE DEF N
<1>3. f[0] = Homes(c, m) /\ \A k \in 0..N-1 : f[k+1] = f[k] \cup Hops(m, f[k])
  <2>1. \A k \in 0..N : f[k] = IF k = 0 THEN Homes(c, m) ELSE f[k-1] \cup Hops(m, f[k-1])
    BY <1>2 DEF Routes
  <2>2. f[0] = Homes(c, m)
    <3>1. 0 \in 0..N
      BY <1>1
    <3>2. f[0] = IF 0 = 0 THEN Homes(c, m) ELSE f[0-1] \cup Hops(m, f[0-1])
      BY <2>1, <3>1
    <3> QED
      BY <3>2
  <2>3. ASSUME NEW k \in 0..N-1 PROVE f[k+1] = f[k] \cup Hops(m, f[k])
    <3>1. k + 1 \in 0..N /\ k + 1 # 0 /\ (k + 1) - 1 = k
      BY <1>1
    <3>2. f[k+1] = f[(k + 1) - 1] \cup Hops(m, f[(k + 1) - 1])
      BY <2>1, <3>1
    <3> QED
      BY <3>1, <3>2
  <2> QED
    BY <2>2, <2>3
<1> DEFINE Good(k) == /\ f[k] \subseteq up \cap Agent /\ Homes(c, m) \subseteq f[k]
                      /\ f[k] \subseteq Homes(c, m) \cup Hops(m, f[k])
                      /\ Hops(m, f[k]) \subseteq f[k] \/ Cardinality(f[k]) >= k
           T == {k \in Nat : Good(k)}
<1>4. 0 \in T
  <2>1. f[0] \subseteq Agent
    BY <1>3 DEF Homes
  <2>2. Cardinality(f[0]) >= 0
    BY <1>1, <2>1, FS_Subset, FS_CardinalityType
  <2> QED
    BY <1>3, <2>2 DEF Homes
<1>5. ASSUME NEW i \in 0..N-1, i \in T PROVE i + 1 \in T
  <2> DEFINE S == f[i]
             new == f[i+1]
  <2>1. Good(i) /\ new = S \cup Hops(m, S) /\ i \in Nat /\ i + 1 \in Nat
    BY <1>1, <1>3, <1>5
  <2>2. Hops(m, S) \subseteq Hops(m, new) /\ Hops(m, S) \subseteq up \cap Agent
    BY <2>1 DEF Hops
  <2>3. CASE Hops(m, S) \subseteq S
    <3>1. new = S
      BY <2>1, <2>3
    <3> QED
      BY <2>1, <2>3, <3>1
  <2>4. CASE ~ (Hops(m, S) \subseteq S)
    <3>1. PICK b \in Hops(m, S) : b \notin S
      BY <2>4
    <3>2. S \subseteq new /\ b \in new /\ new \subseteq Agent /\ Cardinality(S) >= i
      BY <2>1, <2>2, <2>4, <3>1
    <3>3. IsFiniteSet(new) /\ IsFiniteSet(S) /\ Cardinality(new) \in Nat /\ Cardinality(S) \in Nat
      BY <1>1, <3>2, FS_Subset, FS_CardinalityType
    <3>4. Cardinality(S) <= Cardinality(new) /\ (Cardinality(new) = Cardinality(S) => new = S)
      BY <3>2, <3>3, FS_Subset
    <3>5. Cardinality(new) >= i + 1
      BY <2>1, <3>1, <3>2, <3>3, <3>4
    <3> QED
      BY <2>1, <2>2, <3>5
  <2> QED
    BY <2>3, <2>4
<1> HIDE DEF T
<1>6. N \in T
  BY <1>1, <1>4, <1>5, UpTo
<1>7. Good(N)
  BY <1>6 DEF T
<1>8. Hops(m, f[N]) \subseteq f[N]
  <2>1. CASE Cardinality(f[N]) >= N
    <3>1. f[N] \subseteq Agent
      BY <1>7
    <3>2. Cardinality(f[N]) <= N /\ (N = Cardinality(f[N]) => Agent = f[N])
      BY <1>1, <3>1, FS_Subset DEF N
    <3>3. Cardinality(f[N]) \in Nat
      BY <1>1, <3>1, FS_Subset, FS_CardinalityType
    <3>4. Agent = f[N]
      BY <1>1, <2>1, <3>2, <3>3
    <3> QED
      BY <3>4 DEF Hops
  <2> QED
    BY <1>7, <2>1
<1> QED
  BY <1>2, <1>7, <1>8

(* Once nothing is in flight, who is to know of an interest knows.         *)
LEMMA QuietKnows ==
  ASSUME Quiet, Heeded, NEW a \in up \cap Agent, NEW id \in Comp, NEW m \in Mask, Wants(id, m, a)
  PROVE  id \in info[a].catchMap[m]
<1> DEFINE n == net[LocationOf(id)][a]
           q == queue[a]
           l == LocationOf(id)
           b == id \in info[a].catchMap[m]
           ends == Retracts(id, m)
           w == RegSub(id, m)
<1>1. n = <<>> /\ q = <<>> /\ b \in BOOLEAN
  BY Ids DEF Quiet
<1>2. Heard(w, l, n, q, b, ends)
  BY DEF Heeded, KnownAt
<1> HIDE DEF n, q, b, ends, w, l
<1>3. b
  <2> DEFINE before == Turned(<<>>, {Entry(l, w)}, Entries(l, ends), b)
  <2>1. before \in BOOLEAN
    BY TurnedType
  <2>2. before <=> b
    BY <1>1, TurnedEmpty
  <2>3. Turned(<<>>, {w}, ends, before)
    BY <1>1, <1>2 DEF Heard
  <2> HIDE DEF before
  <2> QED
    BY <2>1, <2>2, <2>3, TurnedEmpty
<1> QED
  BY <1>3 DEF b

(* An agent with a route to c offers it to its neighbours: what it catches *)
(* for c it catches for c itself or for another agent on the way, and all  *)
(* its neighbours but that one know of it.                                 *)
LEMMA RouteSpreads ==
  ASSUME IInv, Quiet, Links, Accounted, Heeded, NEW c \in handles, NEW m \in Mask,
         NEW a \in RoutedFrom(c, m), NEW b \in up \cap Agent,
         info[a].parent = b \/ info[b].parent = a
  PROVE  b \in RoutedFrom(c, m)
<1> DEFINE R == RoutedFrom(c, m)
<1>1. /\ R \subseteq up \cap Agent /\ Hops(m, R) \subseteq R
      /\ R \subseteq Homes(c, m) \cup Hops(m, R)
  BY RoutedClosed
<1> HIDE DEF R
<1>2. a \in R /\ a \in up \cap Agent /\ b \in Comp /\ c \in Client /\ c \notin Agent /\ a \in Comp
      /\ a \in up /\ b \in up
  BY <1>1, AgentLocation DEF R, IInv, TypeOK
<1>3. Belongs(b, a) /\ Belongs(a, b)
  BY <1>2 DEF Belongs
<1>4. b \in info[a].peers
  BY <1>2, <1>3, QuietPeers
<1>5. PICK k : k \in info[a].catchMap[m] /\ (k = c \/ k \in R)
  BY <1>1, <1>2 DEF Homes, Hops
<1>6. CASE k = b
  BY <1>2, <1>5, <1>6, AgentLocation DEF R
<1>7. CASE k # b
  <2>1. Wants(a, m, b)
    BY <1>2, <1>4, <1>5, <1>7 DEF Wants, Asks
  <2>2. a \in info[b].catchMap[m]
    BY <1>2, <2>1, QuietKnows
  <2>3. Linked(b, a)
    BY <1>2, <1>3 DEF Links, Joined
  <2>4. b \in Hops(m, R)
    BY <1>2, <2>2, <2>3 DEF Hops
  <2> QED
    BY <1>1, <2>4 DEF R
<1> QED
  BY <1>6, <1>7

(* So everybody that is joined with its agent has a route to a subscriber. *)
LEMMA KnownReaches ==
  ASSUME IInv, PeersInv, InterestInv
  PROVE  InterestReaches
<1> SUFFICES ASSUME Quiet, writeErrors = 0, NEW c \in handles, NEW m \in subs[c]
             PROVE  JoinedWith(attach[HostOf[c]]) \subseteq RoutedFrom(c, m)
  BY DEF InterestReaches
<1>1. Links /\ Accounted /\ Heeded /\ Noticed
  BY DEF PeersInv, InterestInv, Known
<1>2. m \in Mask /\ c \in Client /\ c \in Comp
  BY AgentLocation DEF IInv, TypeOK
<1> DEFINE p == HostOf[c]
           h == attach[p]
<1>3. p \in up \cap Process /\ h \in Agent /\ p \in Location /\ h \in Location
  BY HostRuns, Ids
<1>4. h \in up
  <2>1. DOMAIN <<>> = {}
    OBVIOUS
  <2> QED
    BY <1>1, <1>3, <2>1 DEF Noticed, Quiet, Written
<1>5. c \in info[h].catchMap[m]
  <2>1. Wants(c, m, h)
    BY <1>2 DEF Wants
  <2> QED
    BY <1>1, <1>2, <1>3, <1>4, <2>1, QuietKnows
<1>6. Linked(h, p)
  <2>1. Belongs(p, h)
    BY <1>3 DEF Belongs
  <2> QED
    BY <1>1, <1>3, <1>4, <2>1 DEF Links, Joined
<1>7. h \in RoutedFrom(c, m) /\ RoutedFrom(c, m) \in SUBSET (up \cap Agent)
  <2>1. h \in Homes(c, m)
    BY <1>3, <1>4, <1>5, <1>6 DEF Homes
  <2> QED
    BY <2>1, RoutedClosed
<1>8. \A a \in RoutedFrom(c, m), b \in up \cap Agent :
        info[a].parent = b \/ info[b].parent = a => b \in RoutedFrom(c, m)
  BY <1>1, <1>2, RouteSpreads
<1> QED
  BY <1>7, <1>8 DEF JoinedWith

(* Once nothing is in flight, and as long as no write reported an error,   *)
(* every subscription is routed to its holder from every agent that its    *)
(* agent is joined with: the agents that connections to parents, in either *)
(* direction, lead to.  Those need not be all that run.  FTBN_Connect may  *)
(* leave several roots, or a ring apart from the rest, and this speaks for *)
(* each of those parts on its own; nothing is said of an agent that gives  *)
(* up, or takes a child of its own for its parent, as no step does either. *)
THEOREM InterestAlwaysReaches == Spec => []InterestReaches
<1>1. IInv /\ PeersInv /\ InterestInv => InterestReaches
  BY KnownReaches
<1> QED
  BY <1>1, Invariance, PeersAccounted, InterestKept, PTL

=============================================================================
