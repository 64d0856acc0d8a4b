------------------------------ MODULE Manager ------------------------------
(***************************************************************************)
(* The routing tables of one FTB agent: the data of FTBMI_node_info        *)
(* (manager_lib/ftb_manager_lib.c) and what each FTBM_ routine does to it. *)
(*                                                                         *)
(* An FTB_id is abstracted to a member of Comp.  An agent process is known *)
(* to its peers under one id (FTB_COMP_MANAGER, ext 0), a client process   *)
(* under the id of its manager library (FTB_COMP_MANAGER, ext 1) and under *)
(* one id for each client handle it opened.  A location id is an agent or  *)
(* a client process, and so is the manager id found there.  A mask is a    *)
(* subscription as FTBU_is_equal_event_mask tells masks apart.             *)
(*                                                                         *)
(* An operator whose comment starts with "Slip:" is a wrong variant of the *)
(* one after it, of the kind a change to the code could introduce; nothing *)
(* uses it, it is there to check that the properties would notice.         *)
(***************************************************************************)
EXTENDS Naturals, Sequences, FiniteSets

CONSTANTS
  Agent,      \* agent processes
  Process,    \* processes linked with the client library
  Client,     \* client handles
  HostOf,     \* the process that opens each client handle
  Mask,       \* subscription masks
  Event,      \* events, each of them published at most once
  MatchedBy,  \* the masks that FTBU_match_mask accepts for each event
  NoAgent     \* a parent location whose pid is 0: there is no parent

ASSUME IdsAreDistinct ==
  /\ Agent \cap Process = {} /\ Agent \cap Client = {} /\ Process \cap Client = {}
  /\ NoAgent \notin Agent \cup Process \cup Client
ASSUME HostOfType == HostOf \in [Client -> Process]
ASSUME MatchedByType == MatchedBy \in [Event -> SUBSET Mask]
ASSUME Finiteness == IsFiniteSet(Mask) /\ IsFiniteSet(Agent \cup Process \cup Client)

ManagerId == Agent \cup Process   \* ids with comp = FTB_COMP_MANAGER
Location == Agent \cup Process
Comp == Agent \cup Process \cup Client

LocationOf(id) == IF id \in Client THEN HostOf[id] ELSE id

(* Slip: only the manager at a location, not the handles it opened.        *)
ManagerAt(loc) == {loc} \cap Comp

CompsAt(loc) == {id \in Comp : LocationOf(id) = loc}

(***************************************************************************)
(* The tables.  catchSet[c] is the catch_event_set of component c, and     *)
(* catchMap[m] the map of components that catch_event_map holds for mask   *)
(* m; the key m is present exactly when that map is not empty, since no    *)
(* routine leaves an empty map behind.                                     *)
(***************************************************************************)
Info == [peers    : SUBSET Comp,
         catchSet : [Comp -> SUBSET Mask],
         catchMap : [Mask -> SUBSET Comp],
         parent   : Agent \cup {NoAgent}]

EmptyInfo == [peers    |-> {},
              catchSet |-> [c \in Comp |-> {}],
              catchMap |-> [m \in Mask |-> {}],
              parent   |-> NoAgent]

CaughtMasks(I) == {m \in Mask : I.catchMap[m] # {}}

(* Slip: the agent that sent the registration gets it back.                *)
PropagateToAll(I, incoming) == I.peers \cap Agent

(* Slip: a registration only climbs the tree.                              *)
PropagateUp(I, incoming) == ({I.parent} \cap Agent) \ {incoming}

(* FTBMI_util_reg_propagation sends to agents only, and not back.          *)
PropagateTo(I, incoming) == (I.peers \cap Agent) \ {incoming}

(* Slip: a mask is cancelled when any of its catchers goes away.           *)
Thinned(I, J) == {m \in Mask : J.catchMap[m] # I.catchMap[m]}

(* The masks whose last catcher went away between I and J: each of them is *)
(* cancelled at the other agents.                                          *)
Emptied(I, J) == CaughtMasks(I) \ CaughtMasks(J)

AddPeer(I, id) ==
  [I EXCEPT !.peers = @ \cup {id}, !.catchSet[id] = {}]

(* Slip: the new parent is recorded, and is no peer.                       *)
ParentOnly(I, p) == [I EXCEPT !.parent = p]

(* Slip: the new parent is a peer, and is not recorded.                    *)
ParentAsPeer(I, p) == IF p \in I.peers THEN I ELSE AddPeer(I, p)

AddParent(I, p) ==
  IF p \in I.peers
  THEN [I EXCEPT !.parent = p]
  ELSE [AddPeer(I, p) EXCEPT !.parent = p]

AddCatch(I, id, m) ==
  [I EXCEPT !.catchSet[id] = @ \cup {m},
            !.catchMap[m] = @ \cup {id}]

DropCatch(I, id, m) ==
  [I EXCEPT !.catchSet[id] = @ \ {m},
            !.catchMap[m] = @ \ {id}]

(* Slip: the components are freed, and stay in the catch map.              *)
FreeComps(I, C) ==
  [I EXCEPT !.peers    = @ \ C,
            !.catchSet = [c \in Comp |-> IF c \in C THEN {} ELSE @[c]]]

(***************************************************************************)
(* FTBMI_util_clean_component for every component of C, each followed by   *)
(* its removal from peers.  A component leaves the catch map of the masks  *)
(* in its own catch set, and of those only: were the two tables to         *)
(* disagree, catch_event_map would keep a pointer to a freed component.    *)
(***************************************************************************)
RemoveComps(I, C) ==
  [I EXCEPT !.peers    = @ \ C,
            !.catchSet = [c \in Comp |-> IF c \in C THEN {} ELSE @[c]],
            !.catchMap = [m \in Mask |->
                            {c \in @[m] : ~ (c \in C /\ m \in I.catchSet[c])}]]

(* Slip: the search stops at the first mask that matches.                  *)
FirstCatchers(I, e) ==
  LET hits == {m \in MatchedBy[e] : I.catchMap[m] # {}}
  IN IF hits = {} THEN {} ELSE I.catchMap[CHOOSE m \in hits : TRUE]

(* FTBM_Get_catcher_comp_list: each component once, whatever it matched.   *)
Catchers(I, e) == UNION {I.catchMap[m] : m \in MatchedBy[e]}

(* Slip: an event goes back to the agent it came from.                     *)
NoEchoes(from) == {}

(* progress_loop does not send an event back to the manager it came from;  *)
(* a handle of the process that published it is told.                      *)
Echoes(from) == {from} \cap ManagerId

-----------------------------------------------------------------------------
(***************************************************************************)
(* The tables agree: a mask is in the catch set of a component exactly     *)
(* when the component is in the catch map of the mask ("Every mask in the  *)
(* catch_event_set is also present in the catch_event_map map"), and only  *)
(* components that are in peers, hence not freed, are found in either.     *)
(***************************************************************************)
TablesAgree(I) ==
  /\ \A c \in Comp, m \in Mask : m \in I.catchSet[c] <=> c \in I.catchMap[m]
  /\ \A m \in Mask : I.catchMap[m] \subseteq I.peers

(* "the map of peers includes parent"                                      *)
ParentInPeers(I) == I.parent # NoAgent => I.parent \in I.peers
=============================================================================
