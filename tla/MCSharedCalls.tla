---------------------------- MODULE MCSharedCalls ----------------------------
(* Instance of SharedCalls for TLC.                                        *)
EXTENDS SharedCalls, TLC

CONSTANTS all, bad, spaced, t1, t2

Sev(v) == [lhs |-> "severity", rhs |-> "severity" :> v]
Space(r, c, k) ==
  [lhs |-> "event_space", rhs |-> ("region" :> r @@ "comp_cat" :> c @@ "comp" :> k)]
Named(v) == [lhs |-> "event_name", rhs |-> "event_name" :> v]
Pairs(l, v) == [lhs |-> l, rhs |-> v]

(* Accepted: nothing, one pair, two; refused: an attribute twice, a value, *)
(* an attribute that is none, a pair that is none, a blank.                *)
Strings ==
  { <<>>, <<Sev("info")>>, <<Space("FTB", "MPI", all), Named("e")>>,
    <<Sev("info"), Sev("fatal")>>, <<Named("e"), Pairs("severity", bad)>>,
    <<Pairs("event_space", bad)>>, <<Sev("fatal"), Pairs("colour", bad)>>,
    <<Pairs("none", bad)>>, <<Pairs("jobid", spaced)>> }

Names4 == {"w", "x", "y", "z"}
Severities == {"info", "fatal"}
Ev(n, s) == [name |-> n, severity |-> s]
Tables ==
  { <<>>, <<Ev("w", "info"), Ev("z", "info")>>, <<Ev("x", "fatal"), Ev("y", "info")>>, <<Ev("y", "loud")>> }
Schemas ==
  { <<>>, <<"start", "own", "x", "info", "x", "fatal", "y", "info", "end">>,
    <<"lead", "start", "own", "y", "loud">>, <<"start", "other">>, <<"start", "own", "y">> }
=============================================================================
