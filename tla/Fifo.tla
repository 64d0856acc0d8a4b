-------------------------------- MODULE Fifo --------------------------------
(***************************************************************************)
(* What an agent takes its message queue for (Grab and Takes of module     *)
(* Backplane): what the reader fetches is handed over whole, behind what   *)
(* was handed over before, and is taken from the front.  It is torn when   *)
(* one of some items is handed over alone, loses what is handed over then, *)
(* and is whole again once it is empty.                                    *)
(***************************************************************************)
EXTENDS Sequences

CONSTANT Tearing   \* those items

VARIABLES
  fetched,   \* what the reader holds
  waiting,   \* what was handed over
  taken,     \* what the dispatcher got so far
  torn       \* whether what is handed over is lost

vars == <<fetched, waiting, taken, torn>>

Init == fetched = <<>> /\ waiting = <<>> /\ taken = <<>> /\ torn = FALSE

Fetch == fetched = <<>> /\ fetched' # <<>> /\ UNCHANGED <<waiting, taken, torn>>

HandOver ==
  /\ ~ torn
  /\ waiting' = waiting \o fetched /\ fetched' = <<>>
  /\ torn' = (\E n \in Tearing : fetched = <<n>>)
  /\ UNCHANGED taken

Lose == torn /\ fetched' = <<>> /\ UNCHANGED <<waiting, taken, torn>>

Take ==
  /\ waiting # <<>>
  /\ waiting' = Tail(waiting) /\ taken' = Append(taken, Head(waiting))
  /\ torn' = (torn /\ waiting' # <<>>)
  /\ UNCHANGED fetched

Next == Fetch \/ HandOver \/ Lose \/ Take

Spec == Init /\ [][Next]_vars
=============================================================================
