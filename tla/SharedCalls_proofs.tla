-------------------------- MODULE SharedCalls_proofs -------------------------
(***************************************************************************)
(* What overlapping calls share, whatever the threads, the strings, the    *)
(* tables and the schema files are.  Declaring: no name is declared twice, *)
(* and the limit is overrun by one event for each thread but one.          *)
(* Parsing: a string nobody disturbs is taken exactly, and no mask holds   *)
(* what its string does not say.  Publishing: only calls that overlap get  *)
(* the same number.                                                        *)
(***************************************************************************)
EXTENDS SharedCalls, FiniteSetTheorems, TLAPS

(* Threads that have tested the limit, and have not inserted yet.          *)
Passed == {u \in Thread : call[u].pc \in {"find", "insert"}}

(* A call is a record that says where it is.                               *)
Shaped(c) == "pc" \in DOMAIN c

CallsShaped ==
  /\ call = [t \in Thread |-> call[t]]
  /\ \A t \in Thread : Shaped(call[t])

(* The limit is tested against the inserted and not against those on their *)
(* way: what both are together is what stays bounded.                      *)
IInv ==
  /\ CallsShaped
  /\ \E S : declared \in Seq(S)
  /\ total \in Nat /\ Len(declared) <= total
  /\ total + Cardinality(Passed) <= MaxEvents + Cardinality(Thread) - 1
  /\ EachNameOnce

-----------------------------------------------------------------------------
(* Passed is finite, as the threads are.                                   *)
LEMMA PassedFinite ==
  /\ IsFiniteSet(Passed) /\ Cardinality(Passed) \in Nat
  /\ Cardinality(Passed) <= Cardinality(Thread) /\ Cardinality(Thread) \in Nat
<1>1. Passed \subseteq Thread
  BY DEF Passed
<1> QED
  BY <1>1, ThreadsType, FS_Subset, FS_CardinalityType

(* At first nothing is declared, and no thread is on its way to.           *)
LEMMA InitIInv == Init => IInv
<1> SUFFICES ASSUME Init PROVE IInv
  OBVIOUS
<1>1. CallsShaped
  BY DEF Init, CallsShaped, Shaped, NoCall
<1>2. declared \in Seq({}) /\ Len(declared) = 0 /\ total = 0 /\ EachNameOnce
  BY DEF Init, EachNameOnce
<1>3. Passed = {}
  BY DEF Init, NoCall, Passed
<1>4. Cardinality(Passed) = 0 /\ Cardinality(Thread) \in Nat
  BY <1>3, FS_EmptySet, PassedFinite
<1> QED
  BY <1>1, <1>2, <1>4, MaxType DEF IInv

(* A call of one thread that does not pass the limit, nor insert.          *)
LEMMA Elsewhere ==
  ASSUME IInv, UNCHANGED table, CallsShaped',
         \A u \in Thread : call'[u].pc \in {"find", "insert"} => call[u].pc \in {"find", "insert"}
  PROVE  IInv'
<1>1. Passed' \subseteq Passed
  BY DEF Passed
<1>2. Cardinality(Passed') \in Nat /\ Cardinality(Passed') <= Cardinality(Passed)
  BY <1>1, PassedFinite, FS_Subset, FS_CardinalityType
<1>3. EachNameOnce'
  BY DEF IInv, EachNameOnce, table
<1> QED
  BY <1>2, <1>3, PassedFinite, MaxType DEF IInv, table

(* A new call starts before the limit.                                     *)
LEMMA BeginIInv ==
  ASSUME IInv, NEW t \in Thread, NEW c, Shaped(c), c.pc \notin {"find", "insert"},
         Begin(t, c), UNCHANGED table
  PROVE  IInv'
<1>1. \A u \in Thread : Shaped(call'[u])
                        /\ call'[u].pc = IF u = t THEN c.pc ELSE call[u].pc
  BY DEF IInv, CallsShaped, Shaped, Begin
<1>2. CallsShaped'
  BY <1>1 DEF CallsShaped, Begin
<1> QED
  BY <1>1, <1>2, Elsewhere

(* A call goes on, short of the limit or of an insertion.                  *)
LEMMA GoesIInv ==
  ASSUME IInv, NEW t \in Thread, NEW c, Shaped(c), Goes(t, c), UNCHANGED table,
         c.pc \in {"find", "insert"} => call[t].pc \in {"find", "insert"}
  PROVE  IInv'
<1>1. CallsShaped'
  BY DEF IInv, CallsShaped, Goes
<1>2. \A u \in Thread : call'[u] = IF u = t THEN c ELSE call[u]
  BY DEF IInv, CallsShaped, Goes
<1> QED
  BY <1>1, <1>2, Elsewhere

(* and so it does when it ends.                                            *)
LEMMA EndsIInv ==
  ASSUME IInv, NEW t \in Thread, NEW code, Ends(t, code), UNCHANGED table
  PROVE  IInv'
<1> DEFINE c == [call[t] EXCEPT !.pc = "idle", !.code = code]
<1>1. Shaped(c) /\ c.pc = "idle"
  BY DEF IInv, CallsShaped, Shaped
<1> QED
  BY <1>1, GoesIInv DEF Ends

-----------------------------------------------------------------------------
(* FTBCI_store_declared_events, the test: a thread passes it while fewer   *)
(* than MaxEvents are inserted, with all the others on their way at most.  *)
LEMMA CheckLimitIInv ==
  ASSUME IInv, NEW t \in Thread, CheckLimit(t)
  PROVE  IInv'
<1> DEFINE c == [call[t] EXCEPT !.pc = "find"]
<1>1. Shaped(c)
  BY DEF IInv, CallsShaped, Shaped
<1>2. CASE \E code : Ends(t, code)
  BY <1>2, EndsIInv DEF CheckLimit
<1>3. CASE total < MaxEvents /\ Goes(t, c)
  <2>1. CallsShaped'
    BY <1>1, <1>3 DEF IInv, CallsShaped, Goes
  <2>2. Cardinality(Passed') \in Nat /\ Cardinality(Passed') <= Cardinality(Thread)
    <3>1. Passed' \subseteq Thread
      BY DEF Passed
    <3> QED
      BY <3>1, ThreadsType, FS_Subset, FS_CardinalityType
  <2>3. UNCHANGED table
    BY DEF CheckLimit
  <2>4. EachNameOnce'
    BY <2>3 DEF IInv, EachNameOnce, table
  <2> QED
    BY <1>3, <2>1, <2>2, <2>3, <2>4, PassedFinite, MaxType DEF IInv, table
<1> QED
  BY <1>2, <1>3, MaxType DEF CheckLimit, LimitReached, IInv

(* FTBU_map_insert refuses a name that is there.                           *)
LEMMA InsertedOnce ==
  ASSUME IInv, NEW entry, declared' = Inserted(entry)
  PROVE  /\ \E S : declared' \in Seq(S)
         /\ Len(declared') <= Len(declared) + 1
         /\ EachNameOnce'
<1>1. PICK S : declared \in Seq(S)
  BY DEF IInv
<1>2. CASE declared' = declared
  BY <1>1, <1>2 DEF IInv, EachNameOnce
<1>3. CASE declared' = Append(declared, entry)
           /\ ~ \E i \in DOMAIN declared : declared[i].name = entry.name
  <2>1. declared \in Seq(S \cup {entry})
    BY <1>1
  <2>2. declared' \in Seq(S \cup {entry}) /\ Len(declared') = Len(declared) + 1
    BY <1>3, <2>1
  <2>3. \A i \in DOMAIN declared' :
          declared'[i] = IF i = Len(declared) + 1 THEN entry ELSE declared[i]
    BY <1>3, <2>1
  <2>4. \A i \in DOMAIN declared' : i # Len(declared) + 1 => i \in DOMAIN declared
    BY <2>1, <2>2
  <2>5. EachNameOnce'
    BY <1>3, <2>3, <2>4 DEF IInv, EachNameOnce
  <2> QED
    BY <2>2, <2>5
<1> QED
  BY <1>2, <1>3, <1>1 DEF Inserted, FTBU_map_insert, Holds, Agree, Key

LEMMA StoredShaped ==
  ASSUME NEW c, Shaped(c)
  PROVE  Shaped(Stored(c)) /\ Stored(c).pc \in {"token", "limit", "idle"}
BY DEF Shaped, Stored

LEMMA InsertDeclaredIInv ==
  ASSUME IInv, NEW t \in Thread, InsertDeclared(t)
  PROVE  IInv'
<1>1. Shaped(Stored(call[t])) /\ Stored(call[t]).pc \in {"token", "limit", "idle"}
  BY StoredShaped DEF IInv, CallsShaped
<1>2. CallsShaped' /\ Passed' = Passed \ {t}
  BY <1>1 DEF IInv, CallsShaped, InsertDeclared, Goes, Passed
<1>3. t \in Passed
  BY DEF InsertDeclared, Passed
<1>4. Cardinality(Passed') = Cardinality(Passed) - 1
  BY <1>2, <1>3, PassedFinite, FS_RemoveElement
<1>5. (\E S : declared' \in Seq(S)) /\ Len(declared') <= Len(declared) + 1 /\ EachNameOnce'
  BY InsertedOnce DEF InsertDeclared
<1>6. Len(declared) \in Nat /\ Len(declared') \in Nat
  BY <1>5 DEF IInv
<1> QED
  BY <1>2, <1>4, <1>5, <1>6, PassedFinite, MaxType DEF IInv, InsertDeclared

(* The other steps of a call.                                              *)
LEMMA OtherStepsIInv ==
  ASSUME IInv, NEW t \in Thread,
         TestPair(t) \/ MarkPair(t) \/ FindDeclared(t) \/ ReadWord(t) \/ Count(t) \/ Stamp(t)
  PROVE  IInv'
<1>1. Shaped(call[t])
  BY DEF IInv, CallsShaped
<1>2. UNCHANGED table
  BY DEF TestPair, MarkPair, FindDeclared, ReadWord, Count, Stamp, table
<1>3. CASE \E code : Ends(t, code)
  BY <1>2, <1>3, EndsIInv
<1>4. CASE TestPair(t)
  <2>1. Goes(t, [call[t] EXCEPT !.pc = "mark", !.seen = track]) \/ \E code : Ends(t, code)
    BY <1>4 DEF TestPair
  <2>2. Shaped([call[t] EXCEPT !.pc = "mark", !.seen = track])
    BY <1>1 DEF Shaped
  <2> QED
    BY <1>1, <1>2, <1>3, <2>1, <2>2, GoesIInv DEF Shaped
<1>5. CASE MarkPair(t)
  <2>1. \E m : Goes(t, NextPair([call[t] EXCEPT !.mask = m])) \/ \E code : Ends(t, code)
    BY <1>5 DEF MarkPair
  <2>2. \A m : Shaped(NextPair([call[t] EXCEPT !.mask = m]))
               /\ NextPair([call[t] EXCEPT !.mask = m]).pc \in {"test", "idle"}
    BY <1>1 DEF Shaped, NextPair
  <2> QED
    BY <1>2, <1>3, <2>1, <2>2, GoesIInv
<1>6. CASE FindDeclared(t)
  <2>1. \/ Goes(t, [call[t] EXCEPT !.pc = "insert"]) \/ Goes(t, Stored(call[t]))
        \/ \E code : Ends(t, code)
    BY <1>6 DEF FindDeclared
  <2>2. Shaped([call[t] EXCEPT !.pc = "insert"]) /\ call[t].pc = "find"
    BY <1>1, <1>6 DEF Shaped, FindDeclared
  <2> QED
    BY <1>1, <1>2, <1>3, <2>1, <2>2, StoredShaped, GoesIInv
<1>7. CASE ReadWord(t)
  <2> DEFINE next == [call[t] EXCEPT !.i = @ + 1]
             Next1 == {next} \cup {[next EXCEPT !.state = "IN_STRUCT"], [next EXCEPT !.state = "INIT"],
                       [next EXCEPT !.state = "FOUND_EVENTSPACE"],
                       [next EXCEPT !.state = "FOUND_EVENTNAME", !.name = call[t].arg[call[t].i]],
                       [call[t] EXCEPT !.state = "FOUND_EVENTSPACE", !.pc = "limit"]}
  <2>1. (\E c \in Next1 : Goes(t, c)) \/ \E code : Ends(t, code)
    BY <1>7 DEF ReadWord
  <2>2. \A c \in Next1 : Shaped(c) /\ c.pc \in {"token", "limit"}
    BY <1>1, <1>7 DEF Shaped, ReadWord
  <2> QED
    BY <1>2, <1>3, <2>1, <2>2, GoesIInv
<1>8. CASE Count(t)
  <2>1. \E n : Goes(t, [call[t] EXCEPT !.pc = "stamp", !.since = n])
    BY <1>8 DEF Count
  <2>2. \A n : Shaped([call[t] EXCEPT !.pc = "stamp", !.since = n])
               /\ [call[t] EXCEPT !.pc = "stamp", !.since = n].pc = "stamp"
    BY <1>1 DEF Shaped
  <2> QED
    BY <1>2, <2>1, <2>2, GoesIInv
<1>9. CASE Stamp(t)
  BY <1>3, <1>9 DEF Stamp
<1> QED
  BY <1>4, <1>5, <1>6, <1>7, <1>8, <1>9

(* Parsing, declaring and publishing begin with a call that has passed     *)
(* nothing.                                                                *)
LEMMA CallsBegin ==
  ASSUME IInv, NEW t \in Thread,
         \/ \E s \in String : Parse(t, s)
         \/ \E tab \in Table : DeclareTable(t, tab)
         \/ \E words \in Schema : DeclareSchema(t, words)
         \/ \E n \in Name : Publish(t, n)
  PROVE  IInv'
<1>1. CASE \E s \in String : Parse(t, s)
  <2>1. PICK s \in String : Parse(t, s)
    BY <1>1
  <2> DEFINE c == [NoCall EXCEPT !.kind = "parse", !.arg = s, !.mask = FreshMask(call[t]),
                                   !.pc = IF s = <<>> THEN "idle" ELSE "test"]
  <2>2. Begin(t, c)
    BY <2>1 DEF Parse
  <2>3. Shaped(c) /\ c.pc \in {"idle", "test"}
    BY DEF Shaped, NoCall
  <2> QED
    BY <1>1, <2>1, <2>2, <2>3, BeginIInv DEF Parse
<1>2. CASE \E tab \in Table : DeclareTable(t, tab)
  <2>1. PICK tab \in Table : DeclareTable(t, tab)
    BY <1>2
  <2> DEFINE c == [NoCall EXCEPT !.kind = "table", !.arg = tab,
                                   !.pc = IF tab = <<>> THEN "idle" ELSE "limit"]
  <2>2. Begin(t, c)
    BY <2>1 DEF DeclareTable
  <2>3. Shaped(c) /\ c.pc \in {"idle", "limit"}
    BY DEF Shaped, NoCall
  <2> QED
    BY <1>2, <2>1, <2>2, <2>3, BeginIInv DEF DeclareTable
<1>3. CASE \E words \in Schema : DeclareSchema(t, words)
  <2>1. PICK words \in Schema : DeclareSchema(t, words)
    BY <1>3
  <2> DEFINE c == [NoCall EXCEPT !.kind = "schema", !.arg = words, !.pc = "token"]
  <2>2. Begin(t, c)
    BY <2>1 DEF DeclareSchema
  <2>3. Shaped(c) /\ c.pc \in {"token"}
    BY DEF Shaped, NoCall
  <2> QED
    BY <1>3, <2>1, <2>2, <2>3, BeginIInv DEF DeclareSchema
<1>4. CASE \E n \in Name : Publish(t, n)
  <2>1. PICK n \in Name : Publish(t, n)
    BY <1>4
  <2> DEFINE c == [NoCall EXCEPT !.kind = "publish",
      !.pc   = IF Holds(declared, Key, [name |-> n]) THEN "count" ELSE "idle",
      !.code = IF Holds(declared, Key, [name |-> n]) THEN "SUCCESS" ELSE "INVALID_EVENT_NAME"]
  <2>2. Begin(t, c)
    BY <2>1 DEF Publish
  <2>3. Shaped(c) /\ c.pc \in {"idle", "count"}
    BY DEF Shaped, NoCall
  <2> QED
    BY <1>4, <2>1, <2>2, <2>3, BeginIInv DEF Publish
<1> QED
  BY <1>1, <1>2, <1>3, <1>4

LEMMA NextIInv == IInv /\ [Next]_vars => IInv'
<1> SUFFICES ASSUME IInv, [Next]_vars PROVE IInv'
  OBVIOUS
<1>1. CASE UNCHANGED vars
  <2>1. UNCHANGED <<call, declared, total>>
    BY <1>1 DEF vars
  <2> QED
    BY <2>1 DEF IInv, CallsShaped, Passed, EachNameOnce
<1>2. CASE Next
  <2>1. PICK t \in Thread :
          \/ (\E s \in String : Parse(t, s)) \/ (\E tab \in Table : DeclareTable(t, tab))
             \/ (\E words \in Schema : DeclareSchema(t, words)) \/ \E n \in Name : Publish(t, n)
          \/ TestPair(t) \/ MarkPair(t) \/ FindDeclared(t) \/ ReadWord(t) \/ Count(t) \/ Stamp(t)
          \/ CheckLimit(t)
          \/ InsertDeclared(t)
    BY <1>2 DEF Next
  <2> QED
    BY <2>1, CallsBegin, OtherStepsIInv, CheckLimitIInv, InsertDeclaredIInv
<1> QED
  BY <1>1, <1>2

-----------------------------------------------------------------------------
(* No name is declared twice: that it was not found is no longer known     *)
(* when it is inserted, and the map refuses it (ftb_client_lib.c:511-529). *)
THEOREM NoNameTwice == Spec => []EachNameOnce
<1>1. IInv => EachNameOnce
  BY DEF IInv
<1> QED
  BY <1>1, InitIInv, NextIInv, PTL DEF Spec

(* The limit that is tested before an insertion is overrun by as many      *)
(* events as threads can be between the two (ftb_client_lib.c:493, 532).   *)
THEOREM LimitOverrun == Spec => []LimitNearlyKept
<1>1. IInv => LimitNearlyKept
  <2> SUFFICES ASSUME IInv PROVE LimitNearlyKept
    OBVIOUS
  <2>1. Len(declared) \in Nat
    BY DEF IInv
  <2> QED
    BY <2>1, PassedFinite, MaxType DEF IInv, LimitNearlyKept
<1> QED
  BY <1>1, InitIInv, NextIInv, PTL DEF Spec

-----------------------------------------------------------------------------
(* Calls, for all that follows: what a call is at, by its kind, and that a *)
(* call that thinks itself alone is.                                       *)

Slots == {"pc", "kind", "arg", "i", "mask", "seen", "state", "name", "since", "code",
          "alone", "was"}

Places == [parse   |-> {"idle", "test", "mark"},
           table   |-> {"idle", "limit", "find", "insert"},
           schema  |-> {"idle", "token", "limit", "find", "insert"},
           publish |-> {"idle", "count", "stamp"},
           none    |-> {"idle"}]

Full(c) == DOMAIN c = Slots /\ c.kind \in DOMAIN Places /\ c.pc \in Places[c.kind]

Alone(t) == Busy(t) /\ call[t].alone =>
              \A u \in Thread \ {t} : Busy(u) => call[u].kind \notin Shared(call[t].kind)

CallInv ==
  /\ call = [t \in Thread |-> call[t]]
  /\ \A t \in Thread : Full(call[t]) /\ call[t].alone \in BOOLEAN /\ Alone(t)

(* The first n pairs of a string have been put in the mask.                *)
Filled(c, n) ==
  \A f \in Field :
    LET given == {s \in 1..n : f \in DOMAIN c.arg[s].rhs} IN
    IF given = {} THEN c.mask[f] = All
    ELSE \E s \in given : c.mask[f] = c.arg[s].rhs[f]

Harmless(s, n) == \A i \in 1..n : ~ Offends(s, i)

(* What is known of a call that parses, whoever else does.                 *)
Parsing(c) ==
  /\ c.arg \in String
  /\ c.mask = [f \in Field |-> c.mask[f]]
  /\ c.pc # "idle" => c.i \in 1..Len(c.arg) /\ Filled(c, c.i - 1)
  /\ c.pc = "idle" /\ c.code = "SUCCESS" => Filled(c, Len(c.arg))
  /\ c.pc = "mark" => Pair(c).lhs \in Attribute /\ Pair(c).rhs # Spaced

(* What more is known if it is alone, of a bitmap t.                       *)
ParsingAlone(c, t) ==
  /\ c.pc # "idle" => /\ t = {c.arg[j].lhs : j \in 1..(c.i - 1)}
                      /\ Harmless(c.arg, c.i - 1)
  /\ c.pc = "mark" => c.seen = t /\ Pair(c).lhs \notin t
  /\ c.pc = "idle" => (c.code = "SUCCESS" <=> Harmless(c.arg, Len(c.arg)))

ParseInv ==
  \A t \in Thread : call[t].kind = "parse" =>
    Parsing(call[t]) /\ (call[t].alone => ParsingAlone(call[t], track))

(* The names in the first n entries.                                       *)
NamesTo(seq, n) == {seq[i].name : i \in 1..n}

Fresh(c) == Cardinality(Names(c.arg)) = Len(c.arg) /\ Names(c.arg) \cap Names(c.was) = {}

(* What is known of a call that declares a table, and more if it is alone. *)
Declaring(c, names) ==
  /\ c.arg \in Table
  /\ c.pc # "idle" => c.i \in 1..Len(c.arg)
  /\ c.alone /\ c.pc # "idle" =>
       /\ NamesTo(c.arg, c.i - 1) \subseteq names
       /\ names \subseteq Names(c.was) \cup NamesTo(c.arg, c.i - 1)
  /\ c.alone /\ c.pc = "idle" /\ c.code = "SUCCESS" /\ Fresh(c) => Names(c.arg) \subseteq names

DeclareInv ==
  /\ declared \in Seq(ToSet(declared))
  /\ \A t \in Thread : call[t].kind = "table" => Declaring(call[t], Names(declared))

(* Calls that have a number to come.                                       *)
Counting == {t \in Thread : call[t].pc = "count"}

(* Numbers grow, as long as they do not wrap round: there are no more of   *)
(* them than calls.  A call that has raised the number has one that is     *)
(* larger than all that were sent by then.                                 *)
NumberInv ==
  /\ published \in Seq([by : Thread, num : Nat, since : Nat])
  /\ seqnum \in Nat /\ calls \in 0..MaxCalls
  /\ seqnum + Cardinality(Counting) <= calls
  /\ \A t \in Thread : call[t].pc = "stamp" =>
       /\ call[t].since \in 0..Len(published)
       /\ \A i \in 1..call[t].since : published[i].num < seqnum
  /\ \A i \in DOMAIN published : published[i].num <= seqnum /\ published[i].since < i
  /\ \A i, j \in DOMAIN published :
       i <= published[j].since => published[i].num < published[j].num

(* The state of a call at first.                                           *)
LEMMA NoCallFull == Full(NoCall) /\ NoCall.alone \in BOOLEAN /\ NoCall.pc = "idle"
BY DEF Full, NoCall, Slots, Places

(* Data of one kind is shared with calls of that kind, and they share it.  *)
LEMMA SharedBoth ==
  ASSUME NEW k, NEW l
  PROVE  /\ k \in Shared(l) <=> l \in Shared(k)
         /\ k \in Shared(k)
BY DEF Shared

(* Another thread is where it was, and alone only if it was.               *)
Same(u) ==
  /\ \A s \in Slots \ {"alone"} : call'[u][s] = call[u][s]
  /\ call'[u].alone => call[u].alone

(* A call that is under way goes on.                                       *)
LEMMA Going ==
  ASSUME CallInv, NEW t \in Thread, NEW c, Goes(t, c), Busy(t),
         Full(c), c.kind = call[t].kind, c.alone = call[t].alone
  PROVE  /\ CallInv' /\ call'[t] = c /\ calls' = calls
         /\ \A u \in Thread \ {t} : call'[u] = call[u]
<1>1. /\ call' = [u \in Thread |-> call'[u]] /\ call'[t] = c /\ calls' = calls
      /\ \A u \in Thread \ {t} : call'[u] = call[u]
  BY DEF CallInv, Goes
<1>2. \A u \in Thread : Busy(u)' => Busy(u)
  BY <1>1 DEF Busy
<1>3. \A u \in Thread : call'[u].kind = call[u].kind /\ call'[u].alone = call[u].alone
  BY <1>1
<1>4. \A u \in Thread : Alone(u)'
  BY <1>2, <1>3 DEF CallInv, Alone
<1>5. \A u \in Thread : Full(call'[u]) /\ call'[u].alone \in BOOLEAN
  BY <1>1 DEF CallInv
<1> QED
  BY <1>1, <1>4, <1>5 DEF CallInv

(* A call begins.                                                          *)
LEMMA Beginning ==
  ASSUME CallInv, NEW t \in Thread, NEW c, Begin(t, c), Full(c)
  PROVE  /\ CallInv' /\ ~ Busy(t) /\ calls < MaxCalls /\ calls' = calls + 1
         /\ call'[t].was = declared
         /\ \A s \in Slots \ {"alone", "was"} : call'[t][s] = c[s]
         /\ \A u \in Thread \ {t} :
              Same(u) /\ (call'[u].alone /\ Busy(u) => call[u].kind \notin Shared(c.kind))
<1> DEFINE others == {u \in Thread \ {t} : Busy(u) /\ call[u].kind \in Shared(c.kind)}
           new == [c EXCEPT !.alone = others = {}, !.was = declared]
           old(u) == [call[u] EXCEPT !.alone = @ /\ u \notin others]
<1>1. /\ call' = [u \in Thread |-> IF u = t THEN new ELSE old(u)]
      /\ ~ Busy(t) /\ calls < MaxCalls /\ calls' = calls + 1
  BY DEF Begin
<1>2. /\ new.was = declared /\ new.alone = (others = {}) /\ DOMAIN new = Slots
      /\ \A s \in Slots \ {"alone", "was"} : new[s] = c[s]
  BY DEF Full, Slots
<1>3. ASSUME NEW u \in Thread \ {t}
      PROVE  /\ old(u).alone = (call[u].alone /\ u \notin others) /\ DOMAIN old(u) = Slots
             /\ \A s \in Slots \ {"alone"} : old(u)[s] = call[u][s]
  BY DEF CallInv, Full, Slots
<1>4. call'[t] = new /\ \A u \in Thread \ {t} : call'[u] = old(u)
  BY <1>1
<1>5. {"pc", "kind"} \subseteq Slots \ {"alone", "was"}
  BY DEF Slots
<1> HIDE DEF new, old
<1>6. Full(call'[t]) /\ call'[t].alone \in BOOLEAN
  BY <1>2, <1>4, <1>5 DEF Full
<1>7. ASSUME NEW u \in Thread \ {t}
      PROVE  Full(call'[u]) /\ call'[u].alone \in BOOLEAN
  <2>1. Full(call[u]) /\ call'[u] = old(u)
    BY <1>4 DEF CallInv
  <2>2. old(u).pc = call[u].pc /\ old(u).kind = call[u].kind /\ DOMAIN old(u) = Slots
    BY <1>3, <1>5
  <2>3. old(u).alone \in BOOLEAN
    BY <1>3
  <2> QED
    BY <2>1, <2>2, <2>3 DEF Full
<1>8. \A u \in Thread \ {t} :
        Same(u) /\ (call'[u].alone /\ Busy(u) => call[u].kind \notin Shared(c.kind))
  BY <1>3, <1>4 DEF Same
<1>9. \A u \in Thread \ {t} : call'[u].pc = call[u].pc /\ call'[u].kind = call[u].kind
  BY <1>3, <1>4, <1>5
<1>10. \A u \in Thread \ {t} : Busy(u)' <=> Busy(u)
  BY <1>9 DEF Busy
<1>11. call'[t].kind = c.kind /\ (call'[t].alone <=> others = {})
  BY <1>2, <1>4, <1>5
<1>12. Alone(t)'
  BY <1>9, <1>10, <1>11 DEF Alone
<1>13. ASSUME NEW u \in Thread \ {t}
       PROVE  Alone(u)'
  <2>1. call'[u].alone /\ Busy(u)' => call[u].alone /\ c.kind \notin Shared(call[u].kind)
    BY <1>8, <1>10, SharedBoth DEF Same
  <2>2. Alone(u)
    BY DEF CallInv
  <2> QED
    BY <2>1, <2>2, <1>9, <1>10, <1>11 DEF Alone
<1> QED
  BY <1>1, <1>2, <1>4, <1>6, <1>7, <1>8, <1>12, <1>13 DEF CallInv

-----------------------------------------------------------------------------
(* The steps, as far as calls go.                                          *)

Works(t) ==
  \/ TestPair(t) \/ MarkPair(t) \/ CheckLimit(t) \/ FindDeclared(t) \/ InsertDeclared(t)
  \/ ReadWord(t) \/ Count(t) \/ Stamp(t)

(* What a call may be after a step of its thread, if it was c.             *)
Follows(c, d) == Full(d) /\ d.kind = c.kind /\ d.alone = c.alone /\ d.arg = c.arg /\ d.was = c.was

LEMMA EndsFollows ==
  ASSUME NEW t \in Thread, Full(call[t]), NEW code, Ends(t, code)
  PROVE  \E d : Follows(call[t], d) /\ Goes(t, d) /\ d.pc = "idle" /\ d.code = code
<1> DEFINE d == [call[t] EXCEPT !.pc = "idle", !.code = code]
<1>1. Follows(call[t], d) /\ d.pc = "idle" /\ d.code = code
  BY DEF Full, Slots, Places, Follows
<1> QED
  BY <1>1 DEF Ends

LEMMA StoredFollows ==
  ASSUME NEW c, Full(c), c.kind \in {"table", "schema"}
  PROVE  Follows(c, Stored(c))
<1>1. CASE c.kind = "schema"
  <2>1. Stored(c) = [c EXCEPT !.pc = "token", !.i = @ + 1]
    BY <1>1 DEF Stored
  <2>2. Follows(c, [c EXCEPT !.pc = "token", !.i = c.i + 1])
    BY <1>1 DEF Follows, Full, Slots, Places
  <2> QED
    BY <2>1, <2>2
<1>2. CASE c.kind = "table" /\ c.i < Len(c.arg)
  <2>1. Stored(c) = [c EXCEPT !.pc = "limit", !.i = @ + 1]
    BY <1>2 DEF Stored
  <2>2. Follows(c, [c EXCEPT !.pc = "limit", !.i = c.i + 1])
    BY <1>2 DEF Follows, Full, Slots, Places
  <2> QED
    BY <2>1, <2>2
<1>3. CASE c.kind = "table" /\ ~ (c.i < Len(c.arg))
  <2>1. Stored(c) = [c EXCEPT !.pc = "idle", !.code = "SUCCESS"]
    BY <1>3 DEF Stored
  <2>2. Follows(c, [c EXCEPT !.pc = "idle", !.code = "SUCCESS"])
    BY <1>3 DEF Follows, Full, Slots, Places
  <2> QED
    BY <2>1, <2>2
<1> QED
  BY <1>1, <1>2, <1>3

LEMMA NextPairFollows ==
  ASSUME NEW c, Full(c), c.kind = "parse", NEW m
  PROVE  Follows(c, NextPair([c EXCEPT !.mask = m]))
<1> DEFINE d == [c EXCEPT !.mask = m]
<1>1. Follows(c, d)
  BY DEF Follows, Full, Slots, Places
<1>2. Follows(d, NextPair(d))
  <2> HIDE DEF d
  <2>1. d.kind = "parse" /\ Full(d)
    BY <1>1 DEF Follows
  <2>2. CASE d.i < Len(d.arg)
    BY <2>1, <2>2 DEF Follows, Full, Slots, Places, NextPair
  <2>3. CASE ~ (d.i < Len(d.arg))
    BY <2>1, <2>3 DEF Follows, Full, Slots, Places, NextPair
  <2> QED
    BY <2>2, <2>3
<1> QED
  BY <1>1, <1>2 DEF Follows

(* Every step of a call leaves it one of its kind.                         *)
LEMMA WorkFollows ==
  ASSUME CallInv, NEW t \in Thread, Works(t)
  PROVE  Busy(t) /\ \E d : Follows(call[t], d) /\ Goes(t, d)
<1> DEFINE c == call[t]
<1>1. Full(c)
  BY DEF CallInv
<1>2. Busy(t)
  BY DEF Works, Busy, TestPair, MarkPair, CheckLimit, FindDeclared, InsertDeclared,
         ReadWord, Count, Stamp
<1>3. CASE \E code : Ends(t, code)
  BY <1>1, <1>2, <1>3, EndsFollows
<1>4. CASE TestPair(t)
  <2>1. Goes(t, [c EXCEPT !.pc = "mark", !.seen = track]) \/ \E code : Ends(t, code)
    BY <1>4 DEF TestPair
  <2>2. Follows(c, [c EXCEPT !.pc = "mark", !.seen = track])
    BY <1>1, <1>4 DEF TestPair, Follows, Full, Slots, Places
  <2> QED
    BY <1>2, <1>3, <2>1, <2>2
<1>5. CASE MarkPair(t)
  <2>1. (\E m : Goes(t, NextPair([c EXCEPT !.mask = m]))) \/ \E code : Ends(t, code)
    BY <1>5 DEF MarkPair
  <2>2. c.kind = "parse"
    BY <1>1, <1>5 DEF MarkPair, Full, Places
  <2>3. \A m : Follows(c, NextPair([c EXCEPT !.mask = m]))
    BY <1>1, <2>2, NextPairFollows
  <2> QED
    BY <1>2, <1>3, <2>1, <2>3
<1>6. CASE CheckLimit(t)
  <2>1. Goes(t, [c EXCEPT !.pc = "find"]) \/ \E code : Ends(t, code)
    BY <1>6 DEF CheckLimit
  <2>2. Follows(c, [c EXCEPT !.pc = "find"])
    BY <1>1, <1>6 DEF CheckLimit, Follows, Full, Slots, Places
  <2> QED
    BY <1>2, <1>3, <2>1, <2>2
<1>7. CASE FindDeclared(t)
  <2>1. \/ Goes(t, [c EXCEPT !.pc = "insert"]) \/ Goes(t, Stored(c)) \/ \E code : Ends(t, code)
    BY <1>7 DEF FindDeclared
  <2>2. Follows(c, [c EXCEPT !.pc = "insert"]) /\ c.kind \in {"table", "schema"}
    BY <1>1, <1>7 DEF FindDeclared, Follows, Full, Slots, Places
  <2> QED
    BY <1>1, <1>2, <1>3, <2>1, <2>2, StoredFollows
<1>8. CASE InsertDeclared(t)
  <2>1. Goes(t, Stored(c)) /\ c.kind \in {"table", "schema"}
    BY <1>1, <1>8 DEF InsertDeclared, Full, Places
  <2> QED
    BY <1>1, <1>2, <2>1, StoredFollows
<1>9. CASE ReadWord(t)
  <2> DEFINE next == [c EXCEPT !.i = @ + 1]
             Next1 == {next} \cup {[next EXCEPT !.state = "IN_STRUCT"], [next EXCEPT !.state = "INIT"],
                       [next EXCEPT !.state = "FOUND_EVENTSPACE"],
                       [next EXCEPT !.state = "FOUND_EVENTNAME", !.name = c.arg[c.i]],
                       [c EXCEPT !.state = "FOUND_EVENTSPACE", !.pc = "limit"]}
  <2>1. (\E d \in Next1 : Goes(t, d)) \/ \E code : Ends(t, code)
    BY <1>9 DEF ReadWord
  <2>2. c.kind = "schema" /\ c.pc = "token"
    BY <1>1, <1>9 DEF ReadWord, Full, Places
  <2>3. Follows(c, next) /\ next.pc = "token"
    <3>1. Follows(c, [c EXCEPT !.i = c.i + 1])
      BY <1>1, <2>2 DEF Follows, Full, Slots, Places
    <3> QED
      BY <1>1, <2>2, <3>1 DEF Full, Slots
  <2>4. /\ Follows(next, [next EXCEPT !.state = "IN_STRUCT"])
        /\ Follows(next, [next EXCEPT !.state = "INIT"])
        /\ Follows(next, [next EXCEPT !.state = "FOUND_EVENTSPACE"])
        /\ Follows(next, [next EXCEPT !.state = "FOUND_EVENTNAME", !.name = c.arg[c.i]])
    <3> HIDE DEF next
    <3> QED
      BY <2>3 DEF Follows, Full, Slots, Places
  <2>5. Follows(c, [c EXCEPT !.state = "FOUND_EVENTSPACE", !.pc = "limit"])
    BY <1>1, <2>2 DEF Follows, Full, Slots, Places
  <2>6. \A d \in Next1 : Follows(c, d)
    <3> HIDE DEF next
    <3> QED
      BY <2>3, <2>4, <2>5 DEF Follows
  <2> QED
    BY <1>2, <1>3, <2>1, <2>6
<1>10. CASE Count(t)
  <2>1. Follows(c, [c EXCEPT !.pc = "stamp", !.since = Len(published)])
    BY <1>1, <1>10 DEF Count, Follows, Full, Slots, Places
  <2> QED
    BY <1>2, <1>10, <2>1 DEF Count
<1>11. CASE Stamp(t)
  BY <1>3, <1>11 DEF Stamp
<1> QED
  BY <1>4, <1>5, <1>6, <1>7, <1>8, <1>9, <1>10, <1>11 DEF Works

(* and nothing else in the calls.                                          *)
LEMMA WorkGoes ==
  ASSUME CallInv, NEW t \in Thread, Works(t)
  PROVE  /\ CallInv' /\ Busy(t) /\ calls' = calls /\ Follows(call[t], call'[t])
         /\ \A u \in Thread \ {t} : call'[u] = call[u]
<1>1. PICK d : Follows(call[t], d) /\ Goes(t, d)
  BY WorkFollows
<1> QED
  BY <1>1, WorkFollows, Going DEF Follows

-----------------------------------------------------------------------------
(* Parsing.                                                                *)

LEMMA StringShape ==
  ASSUME NEW s \in String
  PROVE  Len(s) \in Nat /\ DOMAIN s = 1..Len(s) /\ (s = <<>> <=> Len(s) = 0)
<1>1. s \in Seq(ToSet(s))
  BY StringType
<1> QED
  BY <1>1

LEMMA FilledSame ==
  ASSUME NEW c, NEW d, NEW n, c.arg = d.arg, c.mask = d.mask, Filled(c, n)
  PROVE  Filled(d, n)
BY DEF Filled

(* A call of another kind, or one that did not move, is as it was.         *)
LEMMA ParsingElsewhere ==
  ASSUME ParseInv, NEW u \in Thread, call'[u].kind = "parse", Same(u),
         track' = track \/ call'[u].pc = "idle" \/ ~ call'[u].alone
  PROVE  Parsing(call'[u]) /\ (call'[u].alone => ParsingAlone(call'[u], track'))
<1> DEFINE c == call[u]
           d == call'[u]
<1>1. /\ d.kind = c.kind /\ d.pc = c.pc /\ d.arg = c.arg /\ d.i = c.i /\ d.mask = c.mask
      /\ d.seen = c.seen /\ d.code = c.code /\ (d.alone => c.alone)
  BY DEF Same, Slots
<1>2. Parsing(c) /\ (c.alone => ParsingAlone(c, track))
  BY <1>1 DEF ParseInv
<1> HIDE DEF c, d
<1>3. Parsing(d)
  BY <1>1, <1>2, FilledSame DEF Parsing, Pair
<1>4. ASSUME d.alone PROVE ParsingAlone(d, track')
  BY <1>1, <1>2, <1>4 DEF ParsingAlone, Pair, c, d
<1> QED
  BY <1>3, <1>4 DEF d

LEMMA NotParsing ==
  ASSUME ParseInv, track' = track,
         \A u \in Thread : call'[u].kind = "parse" => Same(u)
  PROVE  ParseInv'
BY ParsingElsewhere DEF ParseInv

(* A new string: what another call has noted is gone, but that one is not  *)
(* alone any more.                                                         *)
LEMMA ParseParses ==
  ASSUME CallInv, ParseInv, NEW t \in Thread, NEW s \in String, Parse(t, s)
  PROVE  CallInv' /\ ParseInv'
<1> DEFINE c == [NoCall EXCEPT !.kind = "parse", !.arg = s, !.mask = FreshMask(call[t]),
                               !.pc = IF s = <<>> THEN "idle" ELSE "test"]
<1>1. /\ Begin(t, c) /\ track' = {}
  BY DEF Parse
<1>2. /\ Full(c) /\ c.kind = "parse" /\ c.arg = s /\ c.mask = Blank /\ c.i = 1
      /\ c.pc = (IF s = <<>> THEN "idle" ELSE "test") /\ c.code = "SUCCESS"
  BY DEF NoCall, Full, Slots, Places, FreshMask
<1> HIDE DEF c
<1>3. /\ CallInv'
      /\ \A x \in Slots \ {"alone", "was"} : call'[t][x] = c[x]
      /\ \A u \in Thread \ {t} :
           Same(u) /\ (call'[u].alone /\ Busy(u) => call[u].kind \notin Shared("parse"))
  BY <1>1, <1>2, Beginning
<1> DEFINE d == call'[t]
<1>4. /\ d.kind = "parse" /\ d.arg = s /\ d.mask = Blank /\ d.i = 1
      /\ d.pc = (IF s = <<>> THEN "idle" ELSE "test") /\ d.code = "SUCCESS"
  BY <1>2, <1>3 DEF Slots
<1> HIDE DEF d
<1>5. Filled(d, 0) /\ Harmless(s, 0) /\ {s[j].lhs : j \in 1..0} = {}
  BY <1>4 DEF Filled, Blank, Harmless
<1>6. Parsing(d) /\ ParsingAlone(d, track')
  <2>1. Len(s) \in Nat /\ (s = <<>> <=> Len(s) = 0)
    BY StringShape
  <2>2. d.mask = [f \in Field |-> d.mask[f]]
    BY <1>4 DEF Blank
  <2> QED
    BY <1>1, <1>4, <1>5, <2>1, <2>2 DEF Parsing, ParsingAlone
<1>7. ASSUME NEW u \in Thread \ {t}, call'[u].kind = "parse"
      PROVE  Parsing(call'[u]) /\ (call'[u].alone => ParsingAlone(call'[u], track'))
  <2>1. call[u].kind = "parse" /\ call'[u].pc = call[u].pc /\ Same(u)
    BY <1>3, <1>7 DEF Same, Slots
  <2>2. call'[u].alone => call'[u].pc = "idle"
    BY <1>3, <2>1 DEF Busy, Shared
  <2>3. call'[u].alone \in BOOLEAN
    BY <1>3 DEF CallInv
  <2> QED
    BY <1>7, <2>1, <2>2, <2>3, ParsingElsewhere
<1> QED
  BY <1>3, <1>6, <1>7 DEF ParseInv, d

(* No other call is alone and busy with a string while t parses one.       *)
LEMMA OthersParsing ==
  ASSUME CallInv, ParseInv, NEW t \in Thread, Busy(t), call[t].kind = "parse",
         \A u \in Thread \ {t} : call'[u] = call[u],
         Parsing(call'[t]), call'[t].alone => ParsingAlone(call'[t], track')
  PROVE  ParseInv'
<1>1. ASSUME NEW u \in Thread \ {t}, call'[u].kind = "parse"
      PROVE  Parsing(call'[u]) /\ (call'[u].alone => ParsingAlone(call'[u], track'))
  <2>1. Same(u) /\ call[u].kind = "parse"
    BY <1>1 DEF Same
  <2>2. call[u].alone => call[u].pc = "idle"
    BY <2>1 DEF CallInv, Alone, Busy, Shared
  <2>3. call'[u].alone \in BOOLEAN
    BY DEF CallInv
  <2> QED
    BY <1>1, <2>1, <2>2, <2>3, ParsingElsewhere
<1> QED
  BY <1>1 DEF ParseInv

(* What the first test finds, if what it tests against is complete.        *)
LEMMA RefusedOffends ==
  ASSUME NEW s \in String, NEW n \in 1..Len(s)
  PROVE  /\ RefusedAt(s[n], {s[j].lhs : j \in 1..(n - 1)}) # "SUCCESS" => Offends(s, n)
         /\ \A seen : RefusedAt(s[n], seen) = "SUCCESS" =>
              s[n].lhs \in Attribute /\ s[n].rhs # Spaced /\ s[n].lhs \notin seen
BY DEF RefusedAt, Offends, Attribute

LEMMA TestPairParses ==
  ASSUME CallInv, ParseInv, NEW t \in Thread, TestPair(t)
  PROVE  ParseInv'
<1> DEFINE c == call[t]
           d == call'[t]
           code == RefusedAt(Pair(c), track)
<1>1. Busy(t) /\ c.kind = "parse" /\ c.pc = "test" /\ Full(c)
  BY DEF TestPair, CallInv, Full, Places, Busy
<1>2. /\ Parsing(c) /\ (c.alone => ParsingAlone(c, track))
  BY <1>1 DEF ParseInv
<1>3. /\ CallInv' /\ Follows(c, d) /\ \A u \in Thread \ {t} : call'[u] = call[u]
  BY WorkGoes DEF Works
<1>4. /\ c.arg \in String /\ c.i \in 1..Len(c.arg) /\ Pair(c) = c.arg[c.i]
  BY <1>1, <1>2 DEF Parsing, Pair
<1>5. /\ d = IF code = "SUCCESS" THEN [c EXCEPT !.pc = "mark", !.seen = track]
                                 ELSE [c EXCEPT !.pc = "idle", !.code = code]
      /\ track' = track
  BY DEF TestPair, Ends, Goes, CallInv
<1>6. /\ d.arg = c.arg /\ d.i = c.i /\ d.mask = c.mask /\ d.alone = c.alone
      /\ code = "SUCCESS" => d.pc = "mark" /\ d.seen = track
      /\ code # "SUCCESS" => d.pc = "idle" /\ d.code = code
  BY <1>1, <1>5 DEF Full, Slots
<1>7. Pair(d) = Pair(c)
  BY <1>6 DEF Pair
<1> HIDE DEF c, d
<1>8. code = "SUCCESS" =>
        Pair(c).lhs \in Attribute /\ Pair(c).rhs # Spaced /\ Pair(c).lhs \notin track
  BY <1>4, RefusedOffends
<1>9. Parsing(d)
  BY <1>1, <1>2, <1>6, <1>7, <1>8, FilledSame DEF Parsing
<1>10. ASSUME d.alone PROVE ParsingAlone(d, track')
  <2>1. track = {c.arg[j].lhs : j \in 1..(c.i - 1)} /\ Harmless(c.arg, c.i - 1)
    BY <1>1, <1>2, <1>6, <1>10 DEF ParsingAlone
  <2>2. CASE code = "SUCCESS"
    BY <1>5, <1>6, <1>7, <1>8, <2>1, <2>2 DEF ParsingAlone
  <2>3. CASE code # "SUCCESS"
    <3>1. Offends(c.arg, c.i)
      BY <1>4, <2>1, <2>3, RefusedOffends
    <3>2. ~ Harmless(c.arg, Len(c.arg))
      BY <1>4, <3>1 DEF Harmless
    <3> QED
      BY <1>6, <2>3, <3>2 DEF ParsingAlone
  <2> QED
    BY <2>2, <2>3
<1> QED
  BY <1>1, <1>3, <1>9, <1>10, OthersParsing DEF c, d

(* The fields of one more pair are put in the mask.                        *)
LEMMA FilledNext ==
  ASSUME NEW c, NEW d, NEW n \in Nat, Filled(c, n), d.arg = c.arg,
         d.mask = [f \in Field |-> IF f \in DOMAIN c.arg[n + 1].rhs THEN c.arg[n + 1].rhs[f]
                                   ELSE c.mask[f]]
  PROVE  Filled(d, n + 1)
<1> SUFFICES ASSUME NEW f \in Field
             PROVE  LET given == {s \in 1..(n + 1) : f \in DOMAIN d.arg[s].rhs} IN
                    IF given = {} THEN d.mask[f] = All
                    ELSE \E s \in given : d.mask[f] = d.arg[s].rhs[f]
  BY DEF Filled
<1> DEFINE before == {s \in 1..n : f \in DOMAIN c.arg[s].rhs}
           given == {s \in 1..(n + 1) : f \in DOMAIN d.arg[s].rhs}
<1>1. IF before = {} THEN c.mask[f] = All ELSE \E s \in before : c.mask[f] = c.arg[s].rhs[f]
  BY DEF Filled
<1>2. before \subseteq given
  OBVIOUS
<1>3. CASE f \in DOMAIN c.arg[n + 1].rhs
  <2>1. n + 1 \in given /\ d.mask[f] = d.arg[n + 1].rhs[f]
    BY <1>3
  <2> QED
    BY <2>1
<1>4. CASE f \notin DOMAIN c.arg[n + 1].rhs
  <2>1. given = before /\ d.mask[f] = c.mask[f]
    BY <1>4
  <2> QED
    BY <1>1, <2>1
<1> QED
  BY <1>3, <1>4

LEMMA MarkPairParses ==
  ASSUME CallInv, ParseInv, NEW t \in Thread, MarkPair(t)
  PROVE  ParseInv'
<1> DEFINE c == call[t]
           d == call'[t]
           p == c.arg[c.i]
           code == IF p.lhs = "event_space" THEN "EVENTSPACE_FORMAT" ELSE "FILTER_VALUE"
           m == [f \in Field |-> IF f \in DOMAIN p.rhs THEN p.rhs[f] ELSE c.mask[f]]
<1>1. Busy(t) /\ c.kind = "parse" /\ c.pc = "mark" /\ Full(c)
  BY DEF MarkPair, CallInv, Full, Places, Busy
<1>2. /\ Parsing(c) /\ (c.alone => ParsingAlone(c, track))
  BY <1>1 DEF ParseInv
<1>3. /\ CallInv' /\ Follows(c, d) /\ \A u \in Thread \ {t} : call'[u] = call[u]
  BY WorkGoes DEF Works
<1>4. /\ c.arg \in String /\ c.i \in 1..Len(c.arg) /\ Pair(c) = p /\ Len(c.arg) \in Nat
      /\ p.lhs \in Attribute /\ p.rhs # Spaced /\ Filled(c, c.i - 1)
  BY <1>1, <1>2, StringShape DEF Parsing, Pair
<1>5. /\ track' = track \cup {p.lhs} \/ track' = c.seen \cup {p.lhs}
      /\ d = IF p.rhs = Bad THEN [c EXCEPT !.pc = "idle", !.code = code]
             ELSE NextPair([c EXCEPT !.mask = m])
  BY DEF MarkPair, Marked, Ends, Goes, CallInv, Pair
<1>6. CASE p.rhs = Bad
  <2>1. d.pc = "idle" /\ d.code = code /\ d.arg = c.arg /\ d.mask = c.mask /\ code # "SUCCESS"
    BY <1>1, <1>5, <1>6 DEF Full, Slots
  <2>2. Offends(c.arg, c.i)
    BY <1>6 DEF Offends
  <2>3. ~ Harmless(c.arg, Len(c.arg))
    BY <1>4, <2>2 DEF Harmless
  <2> HIDE DEF c, d, code
  <2>4. Parsing(d) /\ ParsingAlone(d, track')
    BY <1>2, <1>4, <2>1, <2>3 DEF Parsing, ParsingAlone
  <2> QED
    BY <1>1, <1>3, <2>4, OthersParsing DEF c, d
<1>7. CASE p.rhs # Bad
  <2> DEFINE e == [c EXCEPT !.mask = m]
  <2>1. /\ e.mask = m /\ e.arg = c.arg /\ e.i = c.i /\ e.kind = c.kind /\ e.alone = c.alone
        /\ DOMAIN e = Slots
    BY <1>1 DEF Full, Slots
  <2>2. d = NextPair(e)
    BY <1>5, <1>7
  <2> HIDE DEF e
  <2>3. /\ d.mask = m /\ d.arg = c.arg /\ d.alone = c.alone
        /\ c.i < Len(c.arg) => d.pc = "test" /\ d.i = c.i + 1
        /\ ~ (c.i < Len(c.arg)) => d.pc = "idle" /\ d.code = "SUCCESS"
    <3>1. CASE c.i < Len(c.arg)
      <4>1. d = [e EXCEPT !.pc = "test", !.i = @ + 1]
        BY <2>1, <2>2, <3>1 DEF NextPair
      <4> QED
        BY <2>1, <3>1, <4>1 DEF Slots
    <3>2. CASE ~ (c.i < Len(c.arg))
      <4>1. d = [e EXCEPT !.pc = "idle", !.code = "SUCCESS"]
        BY <2>1, <2>2, <3>2 DEF NextPair
      <4> QED
        BY <2>1, <3>2, <4>1 DEF Slots
    <3> QED
      BY <3>1, <3>2
  <2>4. Filled(d, c.i)
    <3>1. c.i - 1 \in Nat /\ (c.i - 1) + 1 = c.i
      BY <1>4
    <3>2. Filled(d, (c.i - 1) + 1)
      <4>1. d.mask = [f \in Field |-> IF f \in DOMAIN c.arg[(c.i - 1) + 1].rhs
                                      THEN c.arg[(c.i - 1) + 1].rhs[f] ELSE c.mask[f]]
        BY <2>3, <3>1
      <4> HIDE DEF c, d
      <4> QED
        BY <1>4, <2>3, <3>1, <4>1, FilledNext
    <3> QED
      BY <3>1, <3>2
  <2>5. Parsing(d)
    <3>1. d.mask = [f \in Field |-> d.mask[f]]
      BY <2>3
    <3> HIDE DEF c, d, m
    <3>2. CASE c.i < Len(c.arg)
      BY <1>4, <2>3, <2>4, <3>1, <3>2 DEF Parsing
    <3>3. CASE ~ (c.i < Len(c.arg))
      <4>1. c.i = Len(c.arg)
        BY <1>4, <3>3
      <4> QED
        BY <1>4, <2>3, <2>4, <3>1, <3>3, <4>1 DEF Parsing
    <3> QED
      BY <3>2, <3>3
  <2>6. ASSUME d.alone PROVE ParsingAlone(d, track')
    <3>1. /\ track = {c.arg[j].lhs : j \in 1..(c.i - 1)} /\ Harmless(c.arg, c.i - 1)
          /\ c.seen = track /\ p.lhs \notin track
      BY <1>1, <1>2, <1>4, <2>3, <2>6 DEF ParsingAlone
    <3>2. track' = {c.arg[j].lhs : j \in 1..c.i}
      <4>1. 1..c.i = (1..(c.i - 1)) \cup {c.i}
        BY <1>4
      <4>2. track' = track \cup {c.arg[c.i].lhs}
        BY <1>5, <3>1
      <4> HIDE DEF c
      <4> QED
        BY <3>1, <4>1, <4>2
    <3>3. ~ Offends(c.arg, c.i)
      BY <1>4, <1>7, <3>1 DEF Offends
    <3>4. Harmless(c.arg, c.i)
      BY <1>4, <3>1, <3>3 DEF Harmless
    <3> HIDE DEF c, d, m, p
    <3>5. CASE c.i < Len(c.arg)
      <4>1. (c.i + 1) - 1 = c.i
        BY <1>4
      <4> QED
        BY <2>3, <3>2, <3>4, <3>5, <4>1 DEF ParsingAlone
    <3>6. CASE ~ (c.i < Len(c.arg))
      <4>1. c.i = Len(c.arg)
        BY <1>4, <3>6
      <4> QED
        BY <2>3, <3>4, <3>6, <4>1 DEF ParsingAlone
    <3> QED
      BY <3>5, <3>6
  <2> HIDE DEF c, d
  <2> QED
    BY <1>1, <1>3, <2>5, <2>6, OthersParsing DEF c, d
<1> QED
  BY <1>6, <1>7

(* The other calls that work, or begin.                                    *)
LEMMA WorkNotParsing ==
  ASSUME CallInv, ParseInv, NEW t \in Thread, Works(t), ~ TestPair(t), ~ MarkPair(t)
  PROVE  ParseInv'
<1>1. track' = track
  BY DEF Works, CheckLimit, FindDeclared, InsertDeclared, ReadWord, Count, Stamp
<1>2. call[t].kind # "parse"
  BY DEF Works, CheckLimit, FindDeclared, InsertDeclared, ReadWord, Count, Stamp,
         CallInv, Full, Places
<1>3. call'[t].kind # "parse" /\ \A u \in Thread \ {t} : Same(u)
  BY <1>2, WorkGoes DEF Follows, Same
<1> QED
  BY <1>1, <1>3, NotParsing

(* What the calls that do not parse begin with.                            *)
LEMMA TableBegins ==
  ASSUME NEW t \in Thread, NEW tab, DeclareTable(t, tab)
  PROVE  \E c : /\ Begin(t, c) /\ Full(c) /\ c.kind = "table" /\ c.arg = tab /\ c.i = 1
                /\ c.code = "SUCCESS" /\ c.pc = IF tab = <<>> THEN "idle" ELSE "limit"
<1> DEFINE c == [NoCall EXCEPT !.kind = "table", !.arg = tab,
                               !.pc = IF tab = <<>> THEN "idle" ELSE "limit"]
<1>1. /\ Full(c) /\ c.kind = "table" /\ c.arg = tab /\ c.i = 1
      /\ c.code = "SUCCESS" /\ c.pc = IF tab = <<>> THEN "idle" ELSE "limit"
  BY DEF NoCall, Full, Slots, Places
<1>2. Begin(t, c)
  BY DEF DeclareTable
<1> QED
  BY <1>1, <1>2

LEMMA SchemaBegins ==
  ASSUME NEW t \in Thread, NEW words, DeclareSchema(t, words)
  PROVE  \E c : Begin(t, c) /\ Full(c) /\ c.kind = "schema" /\ c.pc = "token"
<1> DEFINE c == [NoCall EXCEPT !.kind = "schema", !.arg = words, !.pc = "token"]
<1>1. Full(c) /\ c.kind = "schema" /\ c.pc = "token"
  BY DEF NoCall, Full, Slots, Places
<1>2. Begin(t, c)
  BY DEF DeclareSchema
<1> QED
  BY <1>1, <1>2

LEMMA PublishBegins ==
  ASSUME NEW t \in Thread, NEW n, Publish(t, n)
  PROVE  \E c : Begin(t, c) /\ Full(c) /\ c.kind = "publish" /\ c.pc \in {"idle", "count"}
<1> DEFINE c == [NoCall EXCEPT !.kind = "publish",
      !.pc   = IF Holds(declared, Key, [name |-> n]) THEN "count" ELSE "idle",
      !.code = IF Holds(declared, Key, [name |-> n]) THEN "SUCCESS" ELSE "INVALID_EVENT_NAME"]
<1>1. Full(c) /\ c.kind = "publish" /\ c.pc \in {"idle", "count"}
  BY DEF NoCall, Full, Slots, Places
<1>2. Begin(t, c)
  BY DEF Publish
<1> QED
  BY <1>1, <1>2

Declares(t) ==
  (\E tab \in Table : DeclareTable(t, tab)) \/ (\E words \in Schema : DeclareSchema(t, words))

(* A call of another kind than the parsing ones begins.                    *)
LEMMA OtherBegins ==
  ASSUME NEW t \in Thread, Declares(t) \/ \E n \in Name : Publish(t, n)
  PROVE  /\ track' = track /\ UNCHANGED table
         /\ \E c : Begin(t, c) /\ Full(c) /\ c.kind # "parse"
<1>1. track' = track /\ UNCHANGED table
  BY DEF Declares, DeclareTable, DeclareSchema, Publish
<1> QED
  BY <1>1, TableBegins, SchemaBegins, PublishBegins DEF Declares

LEMMA OtherBeginsParses ==
  ASSUME CallInv, ParseInv, NEW t \in Thread, Declares(t) \/ \E n \in Name : Publish(t, n)
  PROVE  CallInv' /\ ParseInv'
<1>1. PICK c : Begin(t, c) /\ Full(c) /\ c.kind # "parse"
  BY OtherBegins
<1>2. /\ CallInv' /\ \A u \in Thread \ {t} : Same(u)
      /\ \A s \in Slots \ {"alone", "was"} : call'[t][s] = c[s]
  BY <1>1, Beginning
<1>3. call'[t].kind # "parse"
  BY <1>1, <1>2 DEF Slots
<1>4. \A u \in Thread : call'[u].kind = "parse" => Same(u)
  BY <1>2, <1>3
<1> QED
  BY <1>2, <1>4, OtherBegins, NotParsing

LEMMA InitCalls == Init => CallInv /\ ParseInv
<1> SUFFICES ASSUME Init PROVE CallInv /\ ParseInv
  OBVIOUS
<1>1. \A t \in Thread : call[t] = NoCall
  BY DEF Init
<1>2. \A t \in Thread : Full(call[t]) /\ call[t].alone \in BOOLEAN /\ call[t].pc = "idle"
  BY <1>1, NoCallFull
<1>3. \A t \in Thread : Alone(t)
  BY <1>2 DEF Alone, Busy
<1>4. call = [t \in Thread |-> call[t]]
  BY DEF Init
<1>5. \A t \in Thread : call[t].kind # "parse"
  <2>1. NoCall.kind = "none"
    BY DEF NoCall
  <2> QED
    BY <1>1, <2>1
<1> QED
  BY <1>2, <1>3, <1>4, <1>5 DEF CallInv, ParseInv

(* The steps of Next, grouped.                                             *)
LEMMA StepsAre ==
  ASSUME Next
  PROVE  \E t \in Thread :
           \/ \E s \in String : Parse(t, s)
           \/ Declares(t)
           \/ \E n \in Name : Publish(t, n)
           \/ Works(t)
BY DEF Next, Declares, Works

LEMMA NextParses ==
  ASSUME CallInv, ParseInv, [Next]_vars
  PROVE  CallInv' /\ ParseInv'
<1>1. CASE UNCHANGED vars
  <2>1. call' = call /\ track' = track
    BY <1>1 DEF vars
  <2> QED
    BY <2>1 DEF CallInv, ParseInv, Alone, Busy
<1>2. CASE Next
  <2>1. PICK t \in Thread :
          \/ \E s \in String : Parse(t, s)
          \/ Declares(t) \/ \E n \in Name : Publish(t, n)
          \/ Works(t)
    BY <1>2, StepsAre
  <2>2. CASE \E s \in String : Parse(t, s)
    BY <2>2, ParseParses
  <2>3. CASE Declares(t) \/ \E n \in Name : Publish(t, n)
    BY <2>3, OtherBeginsParses
  <2>4. CASE Works(t)
    BY <2>4, WorkGoes, TestPairParses, MarkPairParses, WorkNotParsing
  <2> QED
    BY <2>1, <2>2, <2>3, <2>4
<1> QED
  BY <1>1, <1>2

(* Two attributes set no field in common, so that a string no pair of which *)
(* is at fault gives each field one value at most.                         *)
LEMMA OneGives ==
  ASSUME NEW s \in String, Harmless(s, Len(s)), NEW f,
         NEW i \in DOMAIN s, NEW j \in DOMAIN s,
         f \in DOMAIN s[i].rhs, f \in DOMAIN s[j].rhs
  PROVE  i = j
<1>1. DOMAIN s = 1..Len(s) /\ Len(s) \in Nat
  BY StringShape
<1>2. \A k \in DOMAIN s : s[k].lhs \in Attribute /\ s[k].rhs \notin {Bad, Spaced}
                          /\ \A l \in 1..(k - 1) : s[l].lhs # s[k].lhs
  BY <1>1 DEF Harmless, Offends
<1>3. DOMAIN s[i].rhs = SetBy(s[i].lhs) /\ DOMAIN s[j].rhs = SetBy(s[j].lhs)
  BY <1>2, StringType
<1>4. ASSUME NEW a \in Attribute, NEW b \in Attribute, f \in SetBy(a), f \in SetBy(b)
      PROVE  a = b
  BY <1>4 DEF Attribute, SetBy
<1>5. s[i].lhs = s[j].lhs
  BY <1>2, <1>3, <1>4
<1> QED
  BY <1>1, <1>2, <1>5

LEMMA FilledMeans ==
  ASSUME NEW c, c.arg \in String, c.mask = [f \in Field |-> c.mask[f]],
         Harmless(c.arg, Len(c.arg)), Filled(c, Len(c.arg))
  PROVE  c.mask = Meaning(c.arg)
<1> DEFINE s == c.arg
<1>1. DOMAIN s = 1..Len(s)
  BY StringShape
<1>2. ASSUME NEW f \in Field
      PROVE  c.mask[f] = IF \E i \in DOMAIN s : f \in DOMAIN s[i].rhs
                         THEN s[CHOOSE i \in DOMAIN s : f \in DOMAIN s[i].rhs].rhs[f]
                         ELSE All
  <2> DEFINE given == {i \in 1..Len(s) : f \in DOMAIN s[i].rhs}
  <2>1. IF given = {} THEN c.mask[f] = All ELSE \E i \in given : c.mask[f] = s[i].rhs[f]
    BY DEF Filled
  <2>2. CASE given = {}
    BY <1>1, <2>1, <2>2
  <2>3. CASE given # {}
    <3>1. PICK i \in given : c.mask[f] = s[i].rhs[f]
      BY <2>1, <2>3
    <3> DEFINE k == CHOOSE j \in DOMAIN s : f \in DOMAIN s[j].rhs
    <3>2. k \in DOMAIN s /\ f \in DOMAIN s[k].rhs
      BY <1>1, <3>1
    <3>3. k = i
      BY <1>1, <3>2, OneGives
    <3> QED
      BY <1>1, <3>1, <3>3
  <2> QED
    BY <2>2, <2>3
<1> QED
  BY <1>2 DEF Meaning

(* A string that is parsed alone is taken for what it says, and refused if *)
(* and only if a pair of it is at fault: the bitmap then holds what this   *)
(* call noted, however other calls left it (ftb_client_lib.c:271-462).     *)
THEOREM AloneIsExact == Spec => []ParsedAlone
<1>1. CallInv /\ ParseInv => ParsedAlone
  <2> SUFFICES ASSUME CallInv, ParseInv, NEW t \in Thread, Finished(t, "parse"), call[t].alone
               PROVE  LET s == call[t].arg IN
                      /\ call[t].code = "SUCCESS" <=> ~ \E i \in DOMAIN s : Offends(s, i)
                      /\ call[t].code = "SUCCESS" => call[t].mask = Meaning(s)
    BY DEF ParsedAlone
  <2>1. Parsing(call[t]) /\ ParsingAlone(call[t], track) /\ call[t].pc = "idle"
    BY DEF ParseInv, Finished, Busy
  <2>2. call[t].arg \in String /\ DOMAIN call[t].arg = 1..Len(call[t].arg)
    BY <2>1, StringShape DEF Parsing
  <2>3. call[t].code = "SUCCESS" <=> Harmless(call[t].arg, Len(call[t].arg))
    BY <2>1 DEF ParsingAlone
  <2>4. call[t].code = "SUCCESS" <=> ~ \E i \in DOMAIN call[t].arg : Offends(call[t].arg, i)
    BY <2>2, <2>3 DEF Harmless
  <2>5. call[t].code = "SUCCESS" => call[t].mask = Meaning(call[t].arg)
    BY <2>1, <2>2, <2>3, FilledMeans DEF Parsing
  <2> QED
    BY <2>4, <2>5
<1> QED
  BY <1>1, InitCalls, NextParses, PTL DEF Spec

(* Whatever the threads do to the bitmap, an accepted string sets a field  *)
(* to a value it names for it and no other field (ftb_client_lib.c:274).   *)
THEOREM MaskIsFromString == Spec => []NothingInvented
<1>1. CallInv /\ ParseInv => NothingInvented
  <2> SUFFICES ASSUME CallInv, ParseInv, NEW t \in Thread, Finished(t, "parse"),
                      call[t].code = "SUCCESS", NEW f \in Field
               PROVE  LET given == {s \in DOMAIN call[t].arg : f \in DOMAIN call[t].arg[s].rhs} IN
                      IF given = {} THEN call[t].mask[f] = All
                      ELSE \E s \in given : call[t].mask[f] = call[t].arg[s].rhs[f]
    BY DEF NothingInvented
  <2>1. Parsing(call[t]) /\ call[t].pc = "idle"
    BY DEF ParseInv, Finished, Busy
  <2>2. DOMAIN call[t].arg = 1..Len(call[t].arg) /\ Filled(call[t], Len(call[t].arg))
    BY <2>1, StringShape DEF Parsing
  <2> QED
    BY <2>2 DEF Filled
<1> QED
  BY <1>1, InitCalls, NextParses, PTL DEF Spec

-----------------------------------------------------------------------------
(* Numbers.                                                                *)

(* No message is sent, and no call comes to have a number to come.         *)
LEMMA NotNumbering ==
  ASSUME CallInv, NumberInv, UNCHANGED numbers, calls' \in 0..MaxCalls, calls <= calls',
         \A u \in Thread : call'[u].pc = "count" => call[u].pc = "count",
         \A u \in Thread : call'[u].pc = "stamp" =>
                             call[u].pc = "stamp" /\ call'[u].since = call[u].since
  PROVE  NumberInv'
<1>1. Counting' \subseteq Counting /\ Counting \subseteq Thread
  BY DEF Counting
<1>2. /\ Cardinality(Counting) \in Nat /\ Cardinality(Counting') \in Nat
      /\ Cardinality(Counting') <= Cardinality(Counting)
  BY <1>1, ThreadsType, FS_Subset, FS_CardinalityType
<1>3. seqnum' = seqnum /\ published' = published
  BY DEF numbers
<1>4. seqnum' + Cardinality(Counting') <= calls'
  BY <1>2, <1>3, MaxType DEF NumberInv
<1> QED
  BY <1>3, <1>4 DEF NumberInv

(* A call that begins is one more, and so is a number to come.             *)
LEMMA BeginNumbers ==
  ASSUME CallInv, NumberInv, NEW t \in Thread, NEW c, Begin(t, c), Full(c), c.pc # "stamp",
         UNCHANGED numbers
  PROVE  NumberInv'
<1>1. /\ CallInv' /\ calls < MaxCalls /\ calls' = calls + 1
      /\ \A s \in Slots \ {"alone", "was"} : call'[t][s] = c[s]
      /\ \A u \in Thread \ {t} : Same(u)
  BY Beginning
<1>2. /\ call'[t].pc = c.pc
      /\ \A u \in Thread \ {t} : call'[u].pc = call[u].pc /\ call'[u].since = call[u].since
  BY <1>1 DEF Slots, Same
<1>3. Counting' \subseteq Counting \cup {t} /\ Counting \subseteq Thread
  BY <1>2 DEF Counting
<1>4. /\ Cardinality(Counting) \in Nat /\ Cardinality(Counting') \in Nat
      /\ Cardinality(Counting') <= Cardinality(Counting) + 1
  <2>1. IsFiniteSet(Counting) /\ Cardinality(Counting) \in Nat
    BY <1>3, ThreadsType, FS_Subset, FS_CardinalityType
  <2>2. /\ IsFiniteSet(Counting \cup {t})
        /\ Cardinality(Counting \cup {t}) \in Nat
        /\ Cardinality(Counting \cup {t}) <= Cardinality(Counting) + 1
    BY <2>1, FS_AddElement, FS_CardinalityType
  <2>3. IsFiniteSet(Counting') /\ Cardinality(Counting') <= Cardinality(Counting \cup {t})
    BY <1>3, <2>2, FS_Subset
  <2>4. Cardinality(Counting') \in Nat
    BY <2>3, FS_CardinalityType
  <2> QED
    BY <2>1, <2>2, <2>3, <2>4
<1>5. seqnum' = seqnum /\ published' = published
  BY DEF numbers
<1>6. /\ seqnum' + Cardinality(Counting') <= calls' /\ calls' \in 0..MaxCalls
  BY <1>1, <1>4, <1>5, MaxType DEF NumberInv
<1> QED
  BY <1>2, <1>5, <1>6 DEF NumberInv

(* Messages have numbers and places.                                       *)
LEMMA PublishedShape ==
  ASSUME NumberInv
  PROVE  /\ Len(published) \in Nat /\ DOMAIN published = 1..Len(published)
         /\ \A i \in 1..Len(published) : published[i].num \in Nat /\ published[i].since \in Nat
<1> DEFINE M == [by : Thread, num : Nat, since : Nat]
<1>1. \A m \in M : m.num \in Nat /\ m.since \in Nat
  OBVIOUS
<1>2. published \in Seq(M)
  BY DEF NumberInv
<1> HIDE DEF M
<1> QED
  BY <1>1, <1>2

(* A number is raised above all that were sent.                            *)
LEMMA CountNumbers ==
  ASSUME CallInv, NumberInv, MaxCalls < 65536, NEW t \in Thread, Count(t)
  PROVE  NumberInv'
<1> DEFINE d == [call[t] EXCEPT !.pc = "stamp", !.since = Len(published)]
<1>1. /\ call' = [call EXCEPT ![t] = d]
      /\ calls' = calls /\ published' = published /\ seqnum' = (seqnum + 1) % 65536
      /\ call[t].pc = "count"
  BY DEF Count, Goes, Counted
<1>2. d.pc = "stamp" /\ d.since = Len(published)
  <2>1. DOMAIN call[t] = Slots
    BY DEF CallInv, Full
  <2> QED
    BY <2>1 DEF Slots
<1>3. call'[t] = d /\ \A u \in Thread \ {t} : call'[u] = call[u]
  <2>1. call = [u \in Thread |-> call[u]]
    BY DEF CallInv
  <2> HIDE DEF d
  <2> QED
    BY <1>1, <2>1
<1> HIDE DEF d
<1>4. Counting' = Counting \ {t} /\ t \in Counting /\ Counting \subseteq Thread
  BY <1>1, <1>2, <1>3 DEF Counting
<1>5. /\ Cardinality(Counting) \in Nat /\ Cardinality(Counting') = Cardinality(Counting) - 1
      /\ Cardinality(Counting') \in Nat
  <2>1. IsFiniteSet(Counting) /\ IsFiniteSet(Counting')
    BY <1>4, ThreadsType, FS_Subset
  <2> QED
    BY <1>4, <2>1, FS_RemoveElement, FS_CardinalityType
<1>6. seqnum \in Nat /\ calls \in 0..MaxCalls /\ seqnum + Cardinality(Counting) <= calls
  BY DEF NumberInv
<1>7. seqnum + 1 < 65536
  BY <1>5, <1>6, MaxType
<1>8. seqnum' = seqnum + 1
  BY <1>1, <1>6, <1>7
<1>9. /\ seqnum' \in Nat /\ calls' \in 0..MaxCalls
      /\ seqnum' + Cardinality(Counting') <= calls'
  BY <1>1, <1>5, <1>6, <1>8
<1>10. \A i \in 1..Len(published) : published[i].num \in Nat /\ published[i].num <= seqnum
  BY PublishedShape DEF NumberInv
<1>11. ASSUME NEW u \in Thread, call'[u].pc = "stamp"
       PROVE  /\ call'[u].since \in 0..Len(published)
              /\ \A i \in 1..call'[u].since : published[i].num < seqnum'
  <2>1. CASE u = t
    BY <1>2, <1>3, <1>6, <1>8, <1>10, <2>1, PublishedShape
  <2>2. CASE u # t
    <3>1. /\ call'[u].since \in 0..Len(published)
          /\ \A i \in 1..call'[u].since : published[i].num < seqnum
      BY <1>3, <1>11, <2>2 DEF NumberInv
    <3> QED
      BY <1>6, <1>8, <1>10, <3>1, PublishedShape
  <2> QED
    BY <2>1, <2>2
<1>12. \A i \in DOMAIN published : published[i].num <= seqnum' /\ published[i].since < i
  <2>1. \A i \in DOMAIN published : published[i].since < i
    BY DEF NumberInv
  <2> QED
    BY <1>6, <1>8, <1>10, <2>1, PublishedShape
<1> QED
  BY <1>1, <1>9, <1>11, <1>12 DEF NumberInv

(* What is sent has the number of the moment, and follows what was sent    *)
(* when that was raised.                                                   *)
LEMMA StampNumbers ==
  ASSUME CallInv, NumberInv, NEW t \in Thread, Stamp(t)
  PROVE  NumberInv'
<1> DEFINE r == [by |-> t, num |-> seqnum, since |-> call[t].since]
           d == [call[t] EXCEPT !.pc = "idle", !.code = "SUCCESS"]
           n == Len(published)
<1>1. /\ published' = Append(published, r) /\ seqnum' = seqnum /\ call[t].pc = "stamp"
      /\ calls' = calls /\ call' = [call EXCEPT ![t] = d]
  BY DEF Stamp, Ends, Goes
<1>2. d.pc = "idle"
  <2>1. DOMAIN call[t] = Slots
    BY DEF CallInv, Full
  <2> QED
    BY <2>1 DEF Slots
<1>3. call'[t] = d /\ \A u \in Thread \ {t} : call'[u] = call[u]
  <2>1. call = [u \in Thread |-> call[u]]
    BY DEF CallInv
  <2> HIDE DEF d
  <2> QED
    BY <1>1, <2>1
<1> HIDE DEF d
<1>4. /\ call[t].since \in 0..n /\ seqnum \in Nat
      /\ \A i \in 1..call[t].since : published[i].num < seqnum
      /\ published \in Seq([by : Thread, num : Nat, since : Nat])
  BY <1>1 DEF NumberInv
<1>5. n \in Nat /\ DOMAIN published = 1..n
      /\ \A i \in 1..n : published[i].num \in Nat /\ published[i].since \in Nat
  BY PublishedShape
<1>6. /\ r \in [by : Thread, num : Nat, since : Nat] /\ r.num = seqnum
      /\ r.since = call[t].since
  BY <1>4, <1>5
<1> HIDE DEF r
<1>7. /\ published' \in Seq([by : Thread, num : Nat, since : Nat])
      /\ Len(published') = n + 1 /\ DOMAIN published' = 1..(n + 1)
      /\ \A i \in 1..n : published'[i] = published[i]
      /\ published'[n + 1] = r
  BY <1>1, <1>4, <1>6
<1> HIDE DEF n
<1>8. \A i \in 1..n : published[i].num <= seqnum /\ published[i].since < i
  BY <1>5 DEF NumberInv
<1>9. \A i \in 1..(n + 1) : i \in 1..n \/ i = n + 1
  BY <1>5
<1>10. \A i \in DOMAIN published' : published'[i].num <= seqnum' /\ published'[i].since < i
  BY <1>1, <1>4, <1>5, <1>6, <1>7, <1>8, <1>9
<1>11. Counting' = Counting
  BY <1>1, <1>2, <1>3 DEF Counting
<1>12. ASSUME NEW u \in Thread, call'[u].pc = "stamp"
       PROVE  /\ call'[u].since \in 0..Len(published')
              /\ \A i \in 1..call'[u].since : published'[i].num < seqnum'
  <2>1. u # t /\ call'[u] = call[u]
    BY <1>2, <1>3, <1>12
  <2>2. call'[u].since \in 0..n /\ \A i \in 1..call'[u].since : published[i].num < seqnum
    BY <1>12, <2>1 DEF NumberInv, n
  <2> QED
    BY <1>1, <1>5, <1>7, <2>2
<1>13. ASSUME NEW i \in DOMAIN published', NEW j \in DOMAIN published', i <= published'[j].since
       PROVE  published'[i].num < published'[j].num
  <2>1. CASE j = n + 1
    <3>1. published'[j].since = call[t].since
      BY <1>6, <1>7, <2>1
    <3>2. i \in 1..(n + 1) /\ i <= call[t].since
      BY <1>7, <1>13, <3>1
    <3>3. i \in 1..call[t].since /\ i \in 1..n
      BY <1>4, <1>5, <3>2
    <3> QED
      BY <1>4, <1>6, <1>7, <2>1, <3>3
  <2>2. CASE j \in 1..n
    <3>1. i <= published[j].since /\ published[j].since < j /\ i \in 1..n
      BY <1>5, <1>7, <1>8, <1>13, <2>2
    <3>2. published[i].num < published[j].num
      BY <1>5, <2>2, <3>1 DEF NumberInv
    <3> QED
      BY <1>7, <2>2, <3>1, <3>2
  <2> QED
    BY <1>7, <1>9, <1>13, <2>1, <2>2
<1>14. seqnum' + Cardinality(Counting') <= calls' /\ seqnum' \in Nat /\ calls' \in 0..MaxCalls
  BY <1>1, <1>11 DEF NumberInv
<1> QED
  BY <1>7, <1>10, <1>12, <1>13, <1>14 DEF NumberInv

LEMMA NextNumbers ==
  ASSUME CallInv, NumberInv, MaxCalls < 65536, [Next]_vars
  PROVE  NumberInv'
<1>0. calls \in 0..MaxCalls
  BY DEF NumberInv
<1>1. CASE UNCHANGED vars
  BY <1>0, <1>1, NotNumbering, MaxType DEF vars, numbers
<1>2. CASE Next
  <2>1. PICK t \in Thread :
          \/ \E s \in String : Parse(t, s)
          \/ Declares(t)
          \/ \E n \in Name : Publish(t, n)
          \/ Works(t)
    BY <1>2, StepsAre
  <2>2. CASE \E s \in String : Parse(t, s)
    <3>1. PICK s \in String : Parse(t, s)
      BY <2>2
    <3> DEFINE c == [NoCall EXCEPT !.kind = "parse", !.arg = s, !.mask = FreshMask(call[t]),
                                   !.pc = IF s = <<>> THEN "idle" ELSE "test"]
    <3>2. Full(c) /\ c.pc # "stamp"
      BY DEF NoCall, Full, Slots, Places
    <3>3. Begin(t, c) /\ UNCHANGED numbers
      BY <3>1 DEF Parse
    <3> HIDE DEF c
    <3> QED
      BY <3>2, <3>3, BeginNumbers
  <2>3. CASE Declares(t)
    <3>1. (\E c : Begin(t, c) /\ Full(c) /\ c.pc # "stamp") /\ UNCHANGED numbers
      <4>2. CASE \E tab \in Table : DeclareTable(t, tab)
        <5>1. PICK tab \in Table : DeclareTable(t, tab)
          BY <4>2
        <5>2. UNCHANGED numbers
          BY <5>1 DEF DeclareTable
        <5> QED
          BY <5>1, <5>2, TableBegins
      <4>3. CASE \E words \in Schema : DeclareSchema(t, words)
        <5>1. PICK words \in Schema : DeclareSchema(t, words)
          BY <4>3
        <5>2. UNCHANGED numbers
          BY <5>1 DEF DeclareSchema
        <5> QED
          BY <5>1, <5>2, SchemaBegins
      <4> QED
        BY <2>3, <4>2, <4>3 DEF Declares
    <3> QED
      BY <3>1, BeginNumbers
  <2>4. CASE \E n \in Name : Publish(t, n)
    <3>1. (\E c : Begin(t, c) /\ Full(c) /\ c.pc # "stamp") /\ UNCHANGED numbers
      <4>1. PICK n \in Name : Publish(t, n)
        BY <2>4
      <4>2. UNCHANGED numbers
        BY <4>1 DEF Publish
      <4> QED
        BY <4>1, <4>2, PublishBegins
    <3> QED
      BY <3>1, BeginNumbers
  <2>5. CASE Count(t)
    BY <2>5, CountNumbers
  <2>6. CASE Stamp(t)
    BY <2>6, StampNumbers
  <2>7. CASE Works(t) /\ ~ Count(t) /\ ~ Stamp(t)
    <3>1. call[t].kind # "publish" /\ UNCHANGED numbers
      BY <2>7 DEF Works, TestPair, MarkPair, CheckLimit, FindDeclared, InsertDeclared, ReadWord,
                  CallInv, Full, Places
    <3>2. /\ Full(call'[t]) /\ call'[t].kind = call[t].kind /\ calls' = calls
          /\ \A u \in Thread \ {t} : call'[u] = call[u]
      BY <2>7, WorkGoes DEF Follows
    <3>3. call'[t].pc \notin {"count", "stamp"}
      BY <3>1, <3>2 DEF Full, Places
    <3> QED
      BY <1>0, <3>1, <3>2, <3>3, NotNumbering, MaxType
  <2> QED
    BY <2>1, <2>2, <2>3, <2>4, <2>5, <2>6, <2>7
<1> QED
  BY <1>1, <1>2

LEMMA InitNumbers == Init => NumberInv
<1> SUFFICES ASSUME Init PROVE NumberInv
  OBVIOUS
<1>1. published = <<>> /\ seqnum = 0 /\ calls = 0 /\ \A t \in Thread : call[t] = NoCall
  BY DEF Init
<1>2. NoCall.pc = "idle"
  BY NoCallFull
<1>3. Counting = {}
  BY <1>1, <1>2 DEF Counting
<1>4. Cardinality(Counting) = 0
  BY <1>3, FS_EmptySet
<1>5. \A t \in Thread : call[t].pc # "stamp"
  BY <1>1, <1>2
<1> QED
  BY <1>1, <1>4, <1>5, MaxType DEF NumberInv

(* As long as the numbers do not wrap round, two events have the same one  *)
(* only if the calls that published them overlapped                        *)
(* (ftb_client_lib.c:1506-1514).  After 65536 calls any number comes again. *)
THEOREM SameNumberMeansOverlap ==
  MaxCalls < 65536 => (Spec => []SameNumberOverlapped)
<1> SUFFICES ASSUME MaxCalls < 65536
             PROVE  Spec => []SameNumberOverlapped
  OBVIOUS
<1>1. CallInv /\ ParseInv /\ NumberInv => SameNumberOverlapped
  <2> SUFFICES ASSUME NumberInv, NEW i \in DOMAIN published, NEW j \in DOMAIN published,
                      i < j, published[i].num = published[j].num
               PROVE  published[j].since < i
    BY DEF SameNumberOverlapped
  <2>1. ~ (i <= published[j].since)
    <3>1. published[i].num \in Nat
      BY PublishedShape
    <3> QED
      BY <3>1 DEF NumberInv
  <2>2. published[j].since \in Nat /\ i \in Nat
    BY PublishedShape
  <2> QED
    BY <2>1, <2>2
<1>2. Init => CallInv /\ ParseInv /\ NumberInv
  BY InitCalls, InitNumbers
<1>3. CallInv /\ ParseInv /\ NumberInv /\ [Next]_vars => (CallInv /\ ParseInv /\ NumberInv)'
  BY NextParses, NextNumbers
<1> QED
  BY <1>1, <1>2, <1>3, PTL DEF Spec

-----------------------------------------------------------------------------
(* Declaring a table alone.                                                *)

LEMMA TableShape ==
  ASSUME NEW s \in Table
  PROVE  /\ Len(s) \in Nat /\ DOMAIN s = 1..Len(s) /\ (s = <<>> <=> Len(s) = 0)
         /\ Names(s) = NamesTo(s, Len(s)) /\ NamesTo(s, 0) = {}
<1>1. s \in Seq(ToSet(s))
  BY TableType
<1>2. Len(s) \in Nat /\ DOMAIN s = 1..Len(s) /\ (s = <<>> <=> Len(s) = 0)
  BY <1>1
<1> QED
  BY <1>2 DEF Names, NamesTo

LEMMA NamesToNext ==
  ASSUME NEW s, NEW n \in Nat, n > 0
  PROVE  NamesTo(s, n) = NamesTo(s, n - 1) \cup {s[n].name}
<1>1. 1..n = (1..(n - 1)) \cup {n}
  OBVIOUS
<1> QED
  BY <1>1 DEF NamesTo

(* As many names as entries: no name is there twice.                       *)
LEMMA FreshOnce ==
  ASSUME NEW c, c.arg \in Table, Fresh(c), NEW i \in 1..Len(c.arg), NEW j \in 1..Len(c.arg),
         c.arg[i].name = c.arg[j].name
  PROVE  i = j
<1> DEFINE n == Len(c.arg)
           f == [k \in 1..n |-> c.arg[k].name]
           N == Names(c.arg)
<1>1. n \in Nat /\ N = {c.arg[k].name : k \in 1..n}
  BY TableShape DEF NamesTo
<1>2. f \in [1..n -> N] /\ \A x \in N : \E k \in 1..n : f[k] = x
  BY <1>1
<1>3. f \in Surjection(1..n, N)
  <2> HIDE DEF f, N
  <2> QED
    BY <1>2, Zenon DEF Surjection
<1>4. IsFiniteSet(1..n) /\ Cardinality(1..n) = n
  <2>1. 1 \in Int /\ n \in Int /\ (1 > n => n = 0)
    BY <1>1
  <2>2. IsFiniteSet(1..n) /\ Cardinality(1..n) = IF 1 > n THEN 0 ELSE n - 1 + 1
    BY <2>1, FS_Interval, Zenon
  <2> QED
    BY <1>1, <2>1, <2>2
<1>5. Cardinality(N) = n
  BY DEF Fresh
<1>6. f \in Injection(1..n, N)
  <2> HIDE DEF f, N, n
  <2> QED
    BY <1>3, <1>4, <1>5, FS_Surjection
<1>7. \A k, l \in 1..n : f[k] = f[l] => k = l
  <2> HIDE DEF f, N, n
  <2> QED
    BY <1>6, Zenon DEF Injection, IsInjective
<1> QED
  BY <1>7

LEMMA InsertedNames ==
  ASSUME NEW e, declared \in Seq(ToSet(declared)), declared' = Inserted(e)
  PROVE  /\ declared' \in Seq(ToSet(declared'))
         /\ Names(declared') = Names(declared) \cup {e.name}
<1>1. CASE Holds(declared, Key, e)
  <2>1. declared' = declared
    BY <1>1 DEF Inserted, FTBU_map_insert
  <2>2. e.name \in Names(declared)
    BY <1>1 DEF Holds, Agree, Key, Names
  <2> QED
    BY <2>1, <2>2
<1>2. CASE ~ Holds(declared, Key, e)
  <2>1. declared' = Append(declared, e)
    BY <1>2 DEF Inserted, FTBU_map_insert
  <2> DEFINE S == ToSet(declared) \cup {e}
  <2>2. declared \in Seq(S)
    <3> DEFINE T == ToSet(declared)
    <3>1. declared \in Seq(T) /\ T \subseteq S
      OBVIOUS
    <3> HIDE DEF T, S
    <3> QED
      BY <3>1
  <2>3. e \in S
    OBVIOUS
  <2> HIDE DEF S
  <2>4. /\ declared' \in Seq(S) /\ Len(declared) \in Nat /\ Len(declared') = Len(declared) + 1
        /\ DOMAIN declared = 1..Len(declared) /\ DOMAIN declared' = 1..(Len(declared) + 1)
        /\ \A i \in 1..Len(declared) : declared'[i] = declared[i]
        /\ declared'[Len(declared) + 1] = e
    BY <2>1, <2>2, <2>3
  <2>5. Names(declared') = Names(declared) \cup {e.name}
    <3> DEFINE n == Len(declared)
    <3>1. 1..(n + 1) = (1..n) \cup {n + 1}
      BY <2>4
    <3> QED
      BY <2>4, <3>1 DEF Names
  <2>6. declared' \in Seq(ToSet(declared'))
    <3>1. \A i \in 1..Len(declared') : declared'[i] \in ToSet(declared')
      BY <2>4 DEF ToSet
    <3> DEFINE T == ToSet(declared')
    <3>2. /\ declared' = [i \in 1..Len(declared') |-> declared'[i]] /\ Len(declared') \in Nat
          /\ \A i \in 1..Len(declared') : declared'[i] \in T
      BY <2>4, <3>1
    <3> HIDE DEF T
    <3>3. declared' \in [1..Len(declared') -> T]
      BY <3>2, Zenon
    <3> QED
      BY <3>2, <3>3 DEF T
  <2> QED
    BY <2>5, <2>6
<1> QED
  BY <1>1, <1>2

(* A table that nobody worked on, while others may have added names.       *)
LEMMA DeclaringElsewhere ==
  ASSUME DeclareInv, NEW u \in Thread, call'[u].kind = "table", Same(u),
         Names(declared) \subseteq Names(declared'),
         Names(declared') = Names(declared) \/ call'[u].pc = "idle" \/ ~ call'[u].alone
  PROVE  Declaring(call'[u], Names(declared'))
<1> DEFINE c == call[u]
           d == call'[u]
           names == Names(declared)
           names2 == Names(declared')
<1>1. /\ d.kind = c.kind /\ d.pc = c.pc /\ d.arg = c.arg /\ d.i = c.i /\ d.code = c.code
      /\ d.was = c.was /\ (d.alone => c.alone)
  BY DEF Same, Slots
<1>2. Declaring(c, names)
  BY <1>1 DEF DeclareInv
<1>3. Fresh(d) <=> Fresh(c)
  BY <1>1 DEF Fresh
<1>4. names \subseteq names2 /\ (names2 = names \/ d.pc = "idle" \/ ~ d.alone)
  OBVIOUS
<1> HIDE DEF c, d, names, names2
<1>5. Declaring(d, names2)
  BY <1>1, <1>2, <1>3, <1>4 DEF Declaring
<1> QED
  BY <1>5 DEF d, names2

LEMMA NotDeclaring ==
  ASSUME DeclareInv, declared' = declared,
         \A u \in Thread : call'[u].kind = "table" => Same(u)
  PROVE  DeclareInv'
BY DeclaringElsewhere DEF DeclareInv

(* No other table is being declared alone while t declares.                *)
LEMMA OthersDeclaring ==
  ASSUME CallInv, DeclareInv, CallInv', NEW t \in Thread, Busy(t),
         call[t].kind \in {"table", "schema"},
         \A u \in Thread \ {t} : call'[u] = call[u],
         declared' \in Seq(ToSet(declared')), Names(declared) \subseteq Names(declared'),
         call'[t].kind = "table" => Declaring(call'[t], Names(declared'))
  PROVE  DeclareInv'
<1>1. ASSUME NEW u \in Thread \ {t}, call'[u].kind = "table"
      PROVE  Declaring(call'[u], Names(declared'))
  <2>1. Same(u) /\ call[u].kind = "table"
    BY <1>1 DEF Same
  <2>2. call[u].alone => call[u].pc = "idle"
    BY <2>1 DEF CallInv, Alone, Busy, Shared
  <2>3. call'[u].pc = "idle" \/ ~ call'[u].alone
    BY <2>2
  <2> QED
    BY <1>1, <2>1, <2>3, DeclaringElsewhere
<1> QED
  BY <1>1 DEF DeclareInv

LEMMA DeclareTableDeclares ==
  ASSUME CallInv, DeclareInv, NEW t \in Thread, NEW tab \in Table, DeclareTable(t, tab)
  PROVE  DeclareInv'
<1>1. PICK c : /\ Begin(t, c) /\ Full(c) /\ c.kind = "table" /\ c.arg = tab /\ c.i = 1
               /\ c.code = "SUCCESS" /\ c.pc = IF tab = <<>> THEN "idle" ELSE "limit"
  BY TableBegins
<1>2. /\ CallInv' /\ \A u \in Thread \ {t} : Same(u)
      /\ \A s \in Slots \ {"alone", "was"} : call'[t][s] = c[s]
      /\ call'[t].was = declared
  BY <1>1, Beginning
<1>3. declared' = declared
  BY DEF DeclareTable, table
<1> DEFINE d == call'[t]
<1>4. /\ d.kind = "table" /\ d.arg = tab /\ d.i = 1 /\ d.was = declared
      /\ d.pc = IF tab = <<>> THEN "idle" ELSE "limit"
  BY <1>1, <1>2 DEF Slots
<1> HIDE DEF d
<1>5. Declaring(d, Names(declared))
  <2>1. /\ Len(tab) \in Nat /\ (tab = <<>> <=> Len(tab) = 0)
        /\ Names(tab) = NamesTo(tab, Len(tab)) /\ NamesTo(tab, 0) = {}
    BY TableShape
  <2>2. d.i - 1 = 0
    BY <1>4
  <2> QED
    BY <1>4, <2>1, <2>2 DEF Declaring
<1>6. ASSUME NEW u \in Thread \ {t}, call'[u].kind = "table"
      PROVE  Declaring(call'[u], Names(declared'))
  BY <1>2, <1>3, <1>6, DeclaringElsewhere
<1>7. declared' \in Seq(ToSet(declared'))
  BY <1>3 DEF DeclareInv
<1> QED
  BY <1>3, <1>5, <1>6, <1>7 DEF DeclareInv, d

LEMMA CheckLimitDeclares ==
  ASSUME CallInv, DeclareInv, NEW t \in Thread, CheckLimit(t)
  PROVE  DeclareInv'
<1> DEFINE c == call[t]
           d == call'[t]
<1>1. Busy(t) /\ c.kind \in {"table", "schema"} /\ c.pc = "limit" /\ Full(c)
  BY DEF CheckLimit, CallInv, Full, Places, Busy
<1>2. /\ CallInv' /\ Follows(c, d) /\ \A u \in Thread \ {t} : call'[u] = call[u]
  BY WorkGoes DEF Works
<1>3. declared' = declared
  BY DEF CheckLimit, table
<1>4. ASSUME d.kind = "table"
      PROVE  Declaring(d, Names(declared'))
  <2>1. Declaring(c, Names(declared)) /\ c.kind = "table"
    BY <1>2, <1>4 DEF DeclareInv, Follows
  <2>2. \/ d = [c EXCEPT !.pc = "find"]
        \/ \E code \in {"GENERAL", "INVALID_FIELD"} : d = [c EXCEPT !.pc = "idle", !.code = code]
    BY DEF CheckLimit, Ends, Goes, CallInv
  <2>3. /\ d.i = c.i /\ d.arg = c.arg /\ d.was = c.was /\ d.alone = c.alone
        /\ d.pc = "find" \/ (d.pc = "idle" /\ d.code # "SUCCESS")
    BY <1>1, <2>2 DEF Full, Slots
  <2> HIDE DEF c, d
  <2> QED
    BY <1>1, <1>3, <2>1, <2>3 DEF Declaring
<1>5. declared' \in Seq(ToSet(declared'))
  BY <1>3 DEF DeclareInv
<1> HIDE DEF c, d
<1> QED
  BY <1>1, <1>2, <1>3, <1>4, <1>5, OthersDeclaring DEF c, d

(* A name of a fresh table is not found when its turn comes, for then it   *)
(* would be there from before, or twice in the table.                      *)
LEMMA FreshNotFound ==
  ASSUME NEW c, NEW names, Declaring(c, names), c.alone, c.pc # "idle", Fresh(c)
  PROVE  c.arg[c.i].name \notin names
<1>1. /\ c.arg \in Table /\ c.i \in 1..Len(c.arg) /\ Len(c.arg) \in Nat
      /\ names \subseteq Names(c.was) \cup NamesTo(c.arg, c.i - 1)
  BY TableShape DEF Declaring
<1>2. c.arg[c.i].name \in Names(c.arg)
  BY <1>1, TableShape DEF Names
<1>3. c.arg[c.i].name \notin Names(c.was)
  BY <1>2 DEF Fresh
<1>4. c.arg[c.i].name \notin NamesTo(c.arg, c.i - 1)
  <2> SUFFICES ASSUME NEW j \in 1..(c.i - 1), c.arg[j].name = c.arg[c.i].name
               PROVE  FALSE
    BY DEF NamesTo
  <2>1. j \in 1..Len(c.arg) /\ j # c.i
    BY <1>1
  <2> QED
    BY <1>1, <2>1, FreshOnce
<1> QED
  BY <1>1, <1>3, <1>4

LEMMA FindDeclaredDeclares ==
  ASSUME CallInv, DeclareInv, NEW t \in Thread, FindDeclared(t)
  PROVE  DeclareInv'
<1> DEFINE c == call[t]
           d == call'[t]
<1>1. Busy(t) /\ c.kind \in {"table", "schema"} /\ c.pc = "find" /\ Full(c)
  BY DEF FindDeclared, CallInv, Full, Places, Busy
<1>2. /\ CallInv' /\ Follows(c, d) /\ \A u \in Thread \ {t} : call'[u] = call[u]
  BY WorkGoes DEF Works
<1>3. declared' = declared
  BY DEF FindDeclared, table
<1>4. ASSUME d.kind = "table"
      PROVE  Declaring(d, Names(declared'))
  <2>1. Declaring(c, Names(declared)) /\ c.kind = "table"
    BY <1>2, <1>4 DEF DeclareInv, Follows
  <2>2. \/ d = [c EXCEPT !.pc = "insert"]
        \/ /\ d = [c EXCEPT !.pc = "idle", !.code = "SUCCESS"]
           /\ Holds(declared, Key, Entry(c))
    BY <2>1 DEF FindDeclared, Ends, Goes, CallInv
  <2>3. Holds(declared, Key, Entry(c)) => c.arg[c.i].name \in Names(declared)
    BY <2>1 DEF Holds, Agree, Key, Names, Entry
  <2>4. /\ d.i = c.i /\ d.arg = c.arg /\ d.was = c.was /\ d.alone = c.alone
        /\ d.pc = "insert" \/ (d.pc = "idle" /\ c.arg[c.i].name \in Names(declared))
    BY <1>1, <2>2, <2>3 DEF Full, Slots
  <2>5. Fresh(d) <=> Fresh(c)
    BY <2>4 DEF Fresh
  <2> HIDE DEF c, d
  <2>6. CASE d.pc = "insert"
    BY <1>1, <1>3, <2>1, <2>4, <2>6 DEF Declaring
  <2>7. CASE d.pc = "idle" /\ c.arg[c.i].name \in Names(declared)
    <3>1. ~ (d.alone /\ Fresh(d))
      BY <1>1, <2>1, <2>4, <2>5, <2>7, FreshNotFound
    <3> QED
      BY <2>1, <2>4, <2>7, <3>1 DEF Declaring
  <2> QED
    BY <2>4, <2>6, <2>7
<1>5. declared' \in Seq(ToSet(declared'))
  BY <1>3 DEF DeclareInv
<1> HIDE DEF c, d
<1> QED
  BY <1>1, <1>2, <1>3, <1>4, <1>5, OthersDeclaring DEF c, d

LEMMA InsertDeclaredDeclares ==
  ASSUME CallInv, DeclareInv, NEW t \in Thread, InsertDeclared(t)
  PROVE  DeclareInv'
<1> DEFINE c == call[t]
           d == call'[t]
<1>1. Busy(t) /\ c.kind \in {"table", "schema"} /\ c.pc = "insert" /\ Full(c)
  BY DEF InsertDeclared, CallInv, Full, Places, Busy
<1>2. /\ CallInv' /\ Follows(c, d) /\ \A u \in Thread \ {t} : call'[u] = call[u]
  BY WorkGoes DEF Works
<1>3. /\ declared' \in Seq(ToSet(declared'))
      /\ Names(declared') = Names(declared) \cup {Entry(c).name}
  BY InsertedNames DEF InsertDeclared, DeclareInv
<1>4. ASSUME d.kind = "table"
      PROVE  Declaring(d, Names(declared'))
  <2>1. Declaring(c, Names(declared)) /\ c.kind = "table"
    BY <1>2, <1>4 DEF DeclareInv, Follows
  <2>2. d = Stored(c) /\ Entry(c) = c.arg[c.i]
    BY <2>1 DEF InsertDeclared, Goes, CallInv, Entry
  <2>3. /\ c.arg \in Table /\ c.i \in 1..Len(c.arg) /\ Len(c.arg) \in Nat
        /\ Names(c.arg) = NamesTo(c.arg, Len(c.arg))
    BY <1>1, <2>1, TableShape DEF Declaring
  <2>4. NamesTo(c.arg, c.i) = NamesTo(c.arg, c.i - 1) \cup {Entry(c).name}
    BY <2>2, <2>3, NamesToNext
  <2>5. CASE c.i < Len(c.arg)
    <3>1. d = [c EXCEPT !.pc = "limit", !.i = @ + 1]
      BY <2>1, <2>2, <2>5 DEF Stored
    <3>2. /\ d.i = c.i + 1 /\ d.pc = "limit" /\ d.arg = c.arg /\ d.was = c.was
          /\ d.alone = c.alone
      BY <1>1, <3>1 DEF Full, Slots
    <3>3. d.i - 1 = c.i /\ d.i \in 1..Len(c.arg)
      BY <2>3, <2>5, <3>2
    <3> HIDE DEF c, d
    <3> QED
      BY <1>1, <1>3, <2>1, <2>3, <2>4, <3>2, <3>3 DEF Declaring
  <2>6. CASE ~ (c.i < Len(c.arg))
    <3>1. d = [c EXCEPT !.pc = "idle", !.code = "SUCCESS"]
      BY <2>1, <2>2, <2>6 DEF Stored
    <3>2. d.pc = "idle" /\ d.arg = c.arg /\ d.alone = c.alone
      BY <1>1, <3>1 DEF Full, Slots
    <3>3. c.i = Len(c.arg)
      BY <2>3, <2>6
    <3> HIDE DEF c, d
    <3> QED
      BY <1>1, <1>3, <2>1, <2>3, <2>4, <3>2, <3>3 DEF Declaring
  <2> QED
    BY <2>5, <2>6
<1> HIDE DEF c, d
<1> QED
  BY <1>1, <1>2, <1>3, <1>4, OthersDeclaring DEF c, d

LEMMA BeginsNoTable ==
  ASSUME CallInv, DeclareInv, NEW t \in Thread, NEW c, Begin(t, c), Full(c), c.kind # "table",
         declared' = declared
  PROVE  DeclareInv'
<1>1. /\ \A u \in Thread \ {t} : Same(u)
      /\ \A s \in Slots \ {"alone", "was"} : call'[t][s] = c[s]
  BY Beginning
<1>2. call'[t].kind # "table"
  BY <1>1 DEF Slots
<1> QED
  BY <1>1, <1>2, NotDeclaring

LEMMA NextDeclares ==
  ASSUME CallInv, DeclareInv, [Next]_vars
  PROVE  DeclareInv'
<1>1. CASE UNCHANGED vars
  <2>1. call' = call /\ declared' = declared
    BY <1>1 DEF vars
  <2> QED
    BY <2>1 DEF DeclareInv
<1>2. CASE Next
  <2>1. PICK t \in Thread :
          \/ \E s \in String : Parse(t, s)
          \/ Declares(t)
          \/ \E n \in Name : Publish(t, n)
          \/ Works(t)
    BY <1>2, StepsAre
  <2>2. CASE \E s \in String : Parse(t, s)
    <3>1. PICK s \in String : Parse(t, s)
      BY <2>2
    <3> DEFINE c == [NoCall EXCEPT !.kind = "parse", !.arg = s, !.mask = FreshMask(call[t]),
                                   !.pc = IF s = <<>> THEN "idle" ELSE "test"]
    <3>2. Full(c) /\ c.kind = "parse"
      BY DEF NoCall, Full, Slots, Places
    <3>3. Begin(t, c) /\ declared' = declared
      BY <3>1 DEF Parse, table
    <3> HIDE DEF c
    <3> QED
      BY <3>2, <3>3, BeginsNoTable
  <2>3. CASE \E tab \in Table : DeclareTable(t, tab)
    BY <2>3, DeclareTableDeclares
  <2>4. CASE \E words \in Schema : DeclareSchema(t, words)
    <3>1. PICK words \in Schema : DeclareSchema(t, words)
      BY <2>4
    <3>2. declared' = declared
      BY <3>1 DEF DeclareSchema, table
    <3> QED
      BY <3>1, <3>2, SchemaBegins, BeginsNoTable
  <2>5. CASE \E n \in Name : Publish(t, n)
    <3>1. PICK n \in Name : Publish(t, n)
      BY <2>5
    <3>2. declared' = declared
      BY <3>1 DEF Publish, table
    <3> QED
      BY <3>1, <3>2, PublishBegins, BeginsNoTable
  <2>6. CASE CheckLimit(t) \/ FindDeclared(t) \/ InsertDeclared(t)
    BY <2>6, CheckLimitDeclares, FindDeclaredDeclares, InsertDeclaredDeclares
  <2>7. CASE TestPair(t) \/ MarkPair(t) \/ ReadWord(t) \/ Count(t) \/ Stamp(t)
    <3>1. declared' = declared
      BY <2>7 DEF TestPair, MarkPair, ReadWord, Count, Stamp, table
    <3>2. call[t].kind # "table"
      BY <2>7 DEF TestPair, MarkPair, ReadWord, Count, Stamp, CallInv, Full, Places
    <3>3. call'[t].kind # "table" /\ \A u \in Thread \ {t} : Same(u)
      BY <2>7, <3>2, WorkGoes DEF Works, Follows, Same
    <3> QED
      BY <3>1, <3>3, NotDeclaring
  <2> QED
    BY <2>1, <2>2, <2>3, <2>4, <2>5, <2>6, <2>7 DEF Declares, Works
<1> QED
  BY <1>1, <1>2

LEMMA InitDeclares == Init => DeclareInv
<1> SUFFICES ASSUME Init PROVE DeclareInv
  OBVIOUS
<1>1. declared = <<>> /\ \A t \in Thread : call[t] = NoCall
  BY DEF Init
<1>2. NoCall.kind = "none"
  BY DEF NoCall
<1>3. \A t \in Thread : call[t].kind # "table"
  BY <1>1, <1>2
<1> QED
  BY <1>1, <1>3 DEF DeclareInv

(* A table that is new, and declared alone, is declared to its last entry  *)
(* if the call returns success: none of its names is found, which would    *)
(* end the call early (ftb_client_lib.c:475-541).                          *)
THEOREM AloneIsWhole == Spec => []AcceptedIsDeclared
<1>1. CallInv /\ ParseInv /\ DeclareInv => AcceptedIsDeclared
  <2> SUFFICES ASSUME DeclareInv, NEW t \in Thread, Finished(t, "table"),
                      call[t].code = "SUCCESS", call[t].alone, Fresh(call[t])
               PROVE  Names(call[t].arg) \subseteq Names(declared)
    BY DEF AcceptedIsDeclared, Fresh
  <2> QED
    BY DEF DeclareInv, Declaring, Finished, Busy
<1>2. Init => CallInv /\ ParseInv /\ DeclareInv
  BY InitCalls, InitDeclares
<1>3. CallInv /\ ParseInv /\ DeclareInv /\ [Next]_vars => (CallInv /\ ParseInv /\ DeclareInv)'
  BY NextParses, NextDeclares
<1> QED
  BY <1>1, <1>2, <1>3, PTL DEF Spec
=============================================================================
