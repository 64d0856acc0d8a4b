------------------------------ MODULE Matching ------------------------------
(***************************************************************************)
(* The comparisons of events, masks and ids, and the maps that are keyed   *)
(* with them (util/ftb_util.c).                                            *)
(*                                                                         *)
(* An event and a mask are records with the fields of FTB_event_t that are *)
(* compared.  Strings are compared by strcasecmp: a value stands for all   *)
(* spellings of a string.  A map is the sequence of its entries, in the    *)
(* order of the doubly linked list; entries carry their own key.           *)
(*                                                                         *)
(* Slips are wrong variants that nothing uses.                             *)
(***************************************************************************)
EXTENDS Naturals, SequencesExt

CONSTANT All      \* the wildcard, "ALL"

EventKey == {"severity", "comp_cat", "comp", "event_name"}
Field == EventKey \cup {"region", "client_jobid", "client_name", "hostname"}

Agree(a, b, fields) == \A f \in fields : a[f] = b[f]

Fits(event, mask, fields) ==
  \A f \in fields : event[f] = mask[f] \/ mask[f] = All

(* A mask that names an event asks for nothing that goes with the name:    *)
(* neither severity nor component are compared.                            *)
FTBU_match_mask(event, mask) ==
  /\ Fits(event, mask, Field \ EventKey)
  /\ IF mask.event_name # All
     THEN event.event_name = mask.event_name
     ELSE Fits(event, mask, EventKey)

FTBU_is_equal_event(a, b) == Agree(a, b, EventKey)
FTBU_is_equal_event_mask(a, b) == Agree(a, b, Field)

-----------------------------------------------------------------------------
(* Maps.  The function a map is initialised with compares some fields,     *)
(* which are its key.                                                      *)

Holds(map, key, entry) == \E i \in DOMAIN map : Agree(map[i], entry, key)

(* The first entry that is equal.  Meaningful if there is one.             *)
FTBU_map_find_key(map, key, entry) ==
  CHOOSE i \in DOMAIN map :
    Agree(map[i], entry, key) /\ \A j \in 1..(i - 1) : ~ Agree(map[j], entry, key)

(* An entry is refused if an equal one is there.                           *)
FTBU_map_insert(map, key, entry) ==
  IF Holds(map, key, entry) THEN map ELSE Append(map, entry)

FTBU_map_remove_key(map, key, entry) ==
  IF Holds(map, key, entry) THEN RemoveAt(map, FTBU_map_find_key(map, key, entry)) ELSE map
=============================================================================
