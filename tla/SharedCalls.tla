----------------------------- MODULE SharedCalls -----------------------------
(***************************************************************************)
(* What calls of the client library share outside of a critical section    *)
(* (client_lib/ftb_client_lib.c): the bitmap in which the parser of        *)
(* subscription strings notes the attributes it has seen, which is static, *)
(* and, of a handle, the table of declared events and the sequence number. *)
(*                                                                         *)
(* Threads of one process make calls on one handle.  A step is what a      *)
(* thread does under the handle's lock, or between two accesses of what is *)
(* shared; the lock itself is never kept from one step to the next.        *)
(*                                                                         *)
(* A subscription string is the sequence of its pairs.  The right-hand     *)
(* side of a pair is a record of the fields it sets, or Bad, which the     *)
(* check of that attribute refuses, or Spaced, with a blank inside.  The   *)
(* left-hand side "none" stands for a pair without "=" or with an empty    *)
(* side.  A schema file is the sequence of its words.                      *)
(*                                                                         *)
(* Slips are wrong variants that nothing uses.                             *)
(***************************************************************************)
EXTENDS Matching

CONSTANTS
  Thread,
  String, Table, Schema,   \* what the calls may be given
  Name,                    \* well-formed event names
  Severity,                \* fatal, error, warning, info
  OwnSpace,                \* the event space of the handle
  Bad, Spaced,
  MaxEvents,               \* FTBCI_MAX_EVENTS_PER_CLIENT
  MaxCalls                 \* bound: calls made

ASSUME MaxType == MaxEvents \in Nat \ {0} /\ MaxCalls \in Nat
ASSUME ThreadsType == IsFiniteSet(Thread)

VARIABLES
  track,       \* the attributes noted in the static bitmap
  declared,    \* declared_events_map
  total,       \* total_publish_events
  seqnum,
  call,        \* the call each thread is in, or was in last
  published,   \* history: the numbers that were sent
  calls        \* against MaxCalls

vars == <<track, declared, total, seqnum, call, published, calls>>
table == <<declared, total>>
numbers == <<seqnum, published>>

Attribute == {"severity", "event_space", "jobid", "host_name", "event_name", "client_name"}

(* The fields an attribute sets, all of them if its value is accepted.     *)
SetBy(attribute) ==
  CASE attribute = "severity"    -> {"severity"}
    [] attribute = "event_space" -> {"region", "comp_cat", "comp"}
    [] attribute = "jobid"       -> {"client_jobid"}
    [] attribute = "host_name"   -> {"hostname"}
    [] attribute = "event_name"  -> {"event_name"}
    [] attribute = "client_name" -> {"client_name"}

ASSUME StringType ==
  \A s \in String :
    /\ s \in Seq(ToSet(s))
    /\ \A i \in DOMAIN s : s[i].lhs \in Attribute /\ s[i].rhs \notin {Bad, Spaced}
                           => DOMAIN s[i].rhs = SetBy(s[i].lhs)

ASSUME TableType == \A tab \in Table : tab \in Seq(ToSet(tab))

Blank == [f \in Field |-> All]

(* pc: idle; test, mark (parsing); limit, find, insert (declaring); token  *)
(* (reading a schema file); count, stamp (publishing).  state and name     *)
(* belong to the schema reader, seen is the bitmap as it was tested, since *)
(* the length of published at the increment, alone whether no call that    *)
(* shares the same data ran meanwhile.                                     *)
NoCall == [pc |-> "idle", kind |-> "none", arg |-> <<>>, i |-> 1, mask |-> Blank,
           seen |-> {}, state |-> "EMPTY", name |-> "", since |-> 0, code |-> "SUCCESS",
           alone |-> TRUE, was |-> <<>>]

Busy(u) == call[u].pc # "idle"
Shared(kind) == IF kind \in {"table", "schema"} THEN {"table", "schema"} ELSE {kind}

(* Thread t makes a call.                                                  *)
Begin(t, c) ==
  LET others == {u \in Thread \ {t} : Busy(u) /\ call[u].kind \in Shared(c.kind)} IN
  /\ ~ Busy(t) /\ calls < MaxCalls
  /\ calls' = calls + 1
  /\ call' = [u \in Thread |->
       IF u = t THEN [c EXCEPT !.alone = others = {}, !.was = declared]
       ELSE [call[u] EXCEPT !.alone = @ /\ u \notin others]]

Goes(t, c) == call' = [call EXCEPT ![t] = c] /\ UNCHANGED calls
Ends(t, code) == Goes(t, [call[t] EXCEPT !.pc = "idle", !.code = code])

-----------------------------------------------------------------------------
(* FTBCI_parse_subscription_string.                                        *)

Pair(c) == c.arg[c.i]

(* On to the next pair, or the end.                                        *)
NextPair(c) ==
  IF c.i < Len(c.arg) THEN [c EXCEPT !.pc = "test", !.i = @ + 1]
  ELSE [c EXCEPT !.pc = "idle", !.code = "SUCCESS"]

(* The call with two empty strings, which resets the bitmap.               *)
StaleMask(c) == c.mask                                                \* slip
FreshMask(c) == Blank

Parse(t, s) ==
  /\ track' = {}
  /\ Begin(t, [NoCall EXCEPT !.kind = "parse", !.arg = s, !.mask = FreshMask(call[t]),
                             !.pc = IF s = <<>> THEN "idle" ELSE "test"])
  /\ UNCHANGED <<table, numbers>>

(* Refused by the parser itself, or by the first test of the attribute.    *)
RefusedAt(p, seen) ==
  IF p.lhs = "none" THEN "SUBSCRIPTION_STR"
  ELSE IF p.rhs = Spaced THEN "FILTER_VALUE"
  ELSE IF p.lhs \notin Attribute THEN "FILTER_ATTR"
  ELSE IF p.lhs \in seen THEN "SUBSCRIPTION_STR"
  ELSE "SUCCESS"

TestPair(t) ==
  LET c == call[t]
      code == RefusedAt(Pair(c), track) IN
  /\ c.pc = "test"
  /\ IF code = "SUCCESS" THEN Goes(t, [c EXCEPT !.pc = "mark", !.seen = track]) ELSE Ends(t, code)
  /\ UNCHANGED <<track, table, numbers>>

(* The bit is set in what is there now, or in what was tested.             *)
NotMarked(c) == {track}                                               \* slip
Marked(c) == {track \cup {Pair(c).lhs}, c.seen \cup {Pair(c).lhs}}

MarkPair(t) ==
  LET c == call[t]
      p == Pair(c) IN
  /\ c.pc = "mark"
  /\ track' \in Marked(c)
  /\ IF p.rhs = Bad
     THEN Ends(t, IF p.lhs = "event_space" THEN "EVENTSPACE_FORMAT" ELSE "FILTER_VALUE")
     ELSE Goes(t, NextPair([c EXCEPT !.mask =
            [f \in Field |-> IF f \in DOMAIN p.rhs THEN p.rhs[f] ELSE @[f]]]))
  /\ UNCHANGED <<table, numbers>>

-----------------------------------------------------------------------------
(* FTBC_Declare_publishable_events.                                        *)

Key == {"name"}

Entry(c) == IF c.kind = "table" THEN c.arg[c.i] ELSE [name |-> c.name, severity |-> c.arg[c.i]]

DeclareTable(t, tab) ==
  /\ Begin(t, [NoCall EXCEPT !.kind = "table", !.arg = tab,
                             !.pc = IF tab = <<>> THEN "idle" ELSE "limit"])
  /\ UNCHANGED <<track, table, numbers>>

DeclareSchema(t, words) ==
  /\ Begin(t, [NoCall EXCEPT !.kind = "schema", !.arg = words, !.pc = "token"])
  /\ UNCHANGED <<track, table, numbers>>

(* FTBCI_store_declared_events is through with an entry.                   *)
FirstOnly(c) ==                                                       \* slip
  IF c.kind = "schema" THEN [c EXCEPT !.pc = "token", !.i = @ + 1]
  ELSE [c EXCEPT !.pc = "idle", !.code = "SUCCESS"]
Stored(c) ==
  CASE c.kind = "schema"                     -> [c EXCEPT !.pc = "token", !.i = @ + 1]
    [] c.kind = "table" /\ c.i < Len(c.arg) -> [c EXCEPT !.pc = "limit", !.i = @ + 1]
    [] OTHER                                 -> [c EXCEPT !.pc = "idle", !.code = "SUCCESS"]

NoLimit == FALSE                                                      \* slip
LimitReached == total >= MaxEvents

CheckLimit(t) ==
  LET c == call[t] IN
  /\ c.pc = "limit"
  /\ CASE LimitReached                      -> Ends(t, "GENERAL")
       [] ~ LimitReached /\ ~ (Entry(c).name \in Name /\ Entry(c).severity \in Severity)
                                            -> Ends(t, "INVALID_FIELD")
       [] OTHER                             -> Goes(t, [c EXCEPT !.pc = "find"])
  /\ UNCHANGED <<track, table, numbers>>

(* An event that is declared already ends a table at once.                 *)
FindDeclared(t) ==
  LET c == call[t] IN
  /\ c.pc = "find"
  /\ CASE ~ Holds(declared, Key, Entry(c)) -> Goes(t, [c EXCEPT !.pc = "insert"])
       [] OTHER -> IF c.kind = "table" THEN Ends(t, "SUCCESS") ELSE Goes(t, Stored(c))
  /\ UNCHANGED <<track, table, numbers>>

Appended(entry) == Append(declared, entry)                            \* slip
Inserted(entry) == FTBU_map_insert(declared, Key, entry)

InsertDeclared(t) ==
  LET c == call[t] IN
  /\ c.pc = "insert"
  /\ declared' = Inserted(Entry(c))
  /\ total' = total + 1
  /\ Goes(t, Stored(c))
  /\ UNCHANGED <<track, numbers>>

(* FTBCI_check_schema_file, one word.  A severity goes through             *)
(* FTBCI_store_declared_events, for its event alone.                       *)
ReadWord(t) ==
  LET c == call[t]
      word == c.arg[c.i]
      next == [c EXCEPT !.i = @ + 1]
      outside == c.state \in {"EMPTY", "INIT"} IN
  /\ c.pc = "token"
  /\ CASE c.i > Len(c.arg) ->
            Ends(t, IF c.state = "INIT" THEN "SUCCESS" ELSE "INVALID_SCHEMA_FILE")
       [] c.i <= Len(c.arg) /\ outside ->
            Goes(t, IF word = "start" THEN [next EXCEPT !.state = "IN_STRUCT"] ELSE next)
       [] c.i <= Len(c.arg) /\ ~ outside /\ word = "end" ->
            Goes(t, [next EXCEPT !.state = "INIT"])
       [] OTHER ->
            \/ /\ c.state = "IN_STRUCT"
               /\ IF word = OwnSpace THEN Goes(t, [next EXCEPT !.state = "FOUND_EVENTSPACE"])
                                     ELSE Ends(t, "INVALID_SCHEMA_FILE")
            \/ /\ c.state = "FOUND_EVENTSPACE"
               /\ Goes(t, [next EXCEPT !.state = "FOUND_EVENTNAME", !.name = word])
            \/ /\ c.state = "FOUND_EVENTNAME"
               /\ IF word \in Severity
                  THEN Goes(t, [c EXCEPT !.state = "FOUND_EVENTSPACE", !.pc = "limit"])
                  ELSE Ends(t, "INVALID_FIELD")
  /\ UNCHANGED <<track, table, numbers>>

-----------------------------------------------------------------------------
(* FTBC_Publish.                                                           *)

Publish(t, n) ==
  /\ Begin(t, [NoCall EXCEPT !.kind = "publish",
       !.pc   = IF Holds(declared, Key, [name |-> n]) THEN "count" ELSE "idle",
       !.code = IF Holds(declared, Key, [name |-> n]) THEN "SUCCESS" ELSE "INVALID_EVENT_NAME"])
  /\ UNCHANGED <<track, table, numbers>>

NotCounted == seqnum                                                  \* slip
Counted == (seqnum + 1) % 65536

Count(t) ==
  /\ call[t].pc = "count"
  /\ seqnum' = Counted
  /\ Goes(t, [call[t] EXCEPT !.pc = "stamp", !.since = Len(published)])
  /\ UNCHANGED <<track, table, published>>

(* The number is read after the lock was released.                         *)
Stamp(t) ==
  /\ call[t].pc = "stamp"
  /\ published' = Append(published, [by |-> t, num |-> seqnum, since |-> call[t].since])
  /\ Ends(t, "SUCCESS")
  /\ UNCHANGED <<track, table, seqnum>>

-----------------------------------------------------------------------------
Init ==
  /\ track = {} /\ declared = <<>> /\ total = 0 /\ seqnum = 0
  /\ call = [t \in Thread |-> NoCall]
  /\ published = <<>> /\ calls = 0

Next ==
  \E t \in Thread :
    \/ \E s \in String : Parse(t, s)
    \/ TestPair(t)
    \/ MarkPair(t)
    \/ \E tab \in Table : DeclareTable(t, tab)
    \/ \E words \in Schema : DeclareSchema(t, words)
    \/ CheckLimit(t)
    \/ FindDeclared(t)
    \/ InsertDeclared(t)
    \/ ReadWord(t)
    \/ \E n \in Name : Publish(t, n)
    \/ Count(t)
    \/ Stamp(t)

Spec == Init /\ [][Next]_vars

-----------------------------------------------------------------------------
(* Properties.                                                             *)

Finished(t, kind) == ~ Busy(t) /\ call[t].kind = kind

(* A string is refused for some pair of it.                                *)
Offends(s, i) ==
  \/ s[i].lhs \notin Attribute \/ s[i].rhs \in {Bad, Spaced}
  \/ \E j \in 1..(i - 1) : s[j].lhs = s[i].lhs

Meaning(s) ==
  [f \in Field |->
     IF \E i \in DOMAIN s : f \in DOMAIN s[i].rhs
     THEN s[CHOOSE i \in DOMAIN s : f \in DOMAIN s[i].rhs].rhs[f]
     ELSE All]

(* A string that is parsed while no other thread parses is accepted exactly *)
(* if no pair of it is at fault, and then means what its pairs say, all    *)
(* else being wild (ftb_client_lib.c:271-462).                             *)
ParsedAlone ==
  \A t \in Thread : Finished(t, "parse") /\ call[t].alone =>
    LET s == call[t].arg IN
    /\ call[t].code = "SUCCESS" <=> ~ \E i \in DOMAIN s : Offends(s, i)
    /\ call[t].code = "SUCCESS" => call[t].mask = Meaning(s)

(* Whatever other threads do to the bitmap, a string that is accepted sets *)
(* a field to a value it names for it, and no other field                  *)
(* (ftb_client_lib.c:274).                                                 *)
NothingInvented ==
  \A t \in Thread : Finished(t, "parse") /\ call[t].code = "SUCCESS" =>
    \A f \in Field :
      LET given == {s \in DOMAIN call[t].arg : f \in DOMAIN call[t].arg[s].rhs} IN
      IF given = {} THEN call[t].mask[f] = All
      ELSE \E s \in given : call[t].mask[f] = call[t].arg[s].rhs[f]

(* A name is declared once, though two threads may both have looked for it *)
(* and not found it before either of them inserts it                       *)
(* (ftb_client_lib.c:511, 529).                                            *)
EachNameOnce ==
  \A i, j \in DOMAIN declared : declared[i].name = declared[j].name => i = j

(* The limit is tested long before an event is inserted: it is overrun by  *)
(* at most one event for each other thread (ftb_client_lib.c:493).         *)
LimitNearlyKept == Len(declared) <= MaxEvents + Cardinality(Thread) - 1

Names(seq) == {seq[i].name : i \in DOMAIN seq}

(* A table none of whose names is there yet, or twice in it, is declared   *)
(* to its last entry when the call returns success and no other thread     *)
(* declared meanwhile (ftb_client_lib.c:475-541).                          *)
AcceptedIsDeclared ==
  \A t \in Thread :
    LET c == call[t] IN
    /\ Finished(t, "table") /\ c.code = "SUCCESS" /\ c.alone
    /\ Cardinality(Names(c.arg)) = Len(c.arg)
    /\ Names(c.arg) \cap Names(c.was) = {}
    => Names(c.arg) \subseteq Names(declared)

(* Two events get the same number only if the calls that published them    *)
(* overlapped: the one sent later was counted before the other was sent    *)
(* (ftb_client_lib.c:1506-1514).                                           *)
SameNumberOverlapped ==
  \A i, j \in DOMAIN published :
    i < j /\ published[i].num = published[j].num => published[j].since < i
=============================================================================
