----------------------------- MODULE MCClientLib ----------------------------
(* Instance of ClientLib for TLC.                                          *)
EXTENDS ClientLib, TLC

CONSTANTS all, a1, a2, poller, notified

Anything == [f \in Field |-> all]
NameA == [Anything EXCEPT !.event_name = "a"]
Fatal == [Anything EXCEPT !.severity = "fatal"]
Masks == {NameA, Fatal}

Happens(name, severity) ==
  [f \in Field |-> CASE f = "event_name" -> name [] f = "severity" -> severity [] OTHER -> "x"]
Events == {Happens("a", "fatal"), Happens("b", "fatal")}

PolledFatal == [h |-> poller, mask |-> Fatal, how |-> "polling"]
PolledName == [h |-> poller, mask |-> NameA, how |-> "polling"]
CalledFatal == [h |-> notified, mask |-> Fatal, how |-> "callback"]

Scenario(boot, h, app, c, e, l) ==
  [boot |-> boot, handles |-> h, app |-> app, calls |-> c, events |-> e, losses |-> l]

Both == {PolledFatal, CalledFatal}

Small ==
  { Scenario(Both, Handle, {a1}, 2, 1, 1),
    Scenario(Both, Handle, {a1}, 3, 1, 0),
    Scenario(Both, Handle, {a1}, 3, 0, 1),
    Scenario(Both, {notified}, {a1}, 2, 2, 0),
    Scenario(Both, Handle, {a1, a2}, 2, 1, 0),
    Scenario({PolledFatal, PolledName}, {poller}, {a1, a2}, 2, 2, 0) }

Unsubscribing == { Scenario({CalledFatal}, {notified}, {a1}, 0, 2, 0) }
=============================================================================
