------------------------------ MODULE Lists_proofs -----------------------------
(***************************************************************************)
(* What the proofs about queues keep needing: induction, as statements     *)
(* about sets of numbers, and where the elements of a sequence are.        *)
(***************************************************************************)
EXTENDS SequencesExt, Naturals, SequenceTheorems, FiniteSetTheorems, WellFoundedInduction, TLAPS

(* A set of numbers that is not empty has a least one.                     *)
LEMMA Least == \A T \in SUBSET Nat : T # {} => \E m \in T : \A k \in T : m <= k
<1> SUFFICES ASSUME NEW T \in SUBSET Nat, T # {}
             PROVE  \E m \in T : \A k \in T : m <= k
  OBVIOUS
<1>1. PICK m \in T : \A k \in T : ~ (<<k, m>> \in OpToRel(<, Nat))
  BY NatLessThanWellFounded, WFMin
<1>2. \A k \in T : ~ (k < m)
  BY <1>1 DEF OpToRel
<1> QED
  BY <1>2

(* Induction up to n, for the numbers that have a property.                *)
LEMMA UpTo ==
  ASSUME NEW n \in Nat, NEW T, 0 \in T, \A i \in 0..n-1 : i \in T => i + 1 \in T
  PROVE  \A i \in 0..n : i \in T
<1> DEFINE Out == {i \in 0..n : i \notin T}
<1> SUFFICES ASSUME Out # {} PROVE FALSE
  OBVIOUS
<1>1. Out \in SUBSET Nat
  OBVIOUS
<1>2. PICK m \in Out : \A k \in Out : m <= k
  BY <1>1, Least
<1>3. m # 0 /\ m \in 1..n
  OBVIOUS
<1>4. m - 1 \in 0..n-1 /\ m - 1 \notin Out
  BY <1>2, <1>3
<1>5. m - 1 \in T
  BY <1>4
<1>6. m - 1 + 1 \in T /\ m - 1 + 1 = m
  BY <1>3, <1>4, <1>5
<1> QED
  BY <1>6

(* and for all of them.                                                    *)
LEMMA Every ==
  ASSUME NEW T, 0 \in T, \A i \in Nat : i \in T => i + 1 \in T
  PROVE  \A i \in Nat : i \in T
<1> SUFFICES ASSUME NEW n \in Nat PROVE n \in T
  OBVIOUS
<1> QED
  BY UpTo

-----------------------------------------------------------------------------
(* No element is in two places.                                            *)
Distinct(s) == \A i, j \in DOMAIN s : s[i] = s[j] => i = j

(* A sequence is what Len and its elements say.                            *)
LEMMA SeqShape ==
  ASSUME NEW s, NEW S, s \in Seq(S)
  PROVE  /\ Len(s) \in Nat /\ DOMAIN s = 1..Len(s) /\ s = [i \in 1..Len(s) |-> s[i]]
         /\ \A i \in 1..Len(s) : s[i] \in S
         /\ ToSet(s) = {s[i] : i \in 1..Len(s)}
         /\ ToSet(s) \subseteq S
         /\ s = <<>> <=> Len(s) = 0
         /\ s = <<>> <=> ToSet(s) = {}
  BY DEF ToSet

(* Being in it is having a place in it.                                    *)
LEMMA HasPlace ==
  ASSUME NEW S, NEW s \in Seq(S)
  PROVE  \A x : x \in ToSet(s) <=> \E i \in 1..Len(s) : x = s[i]
  BY SeqShape

(* Where the elements of a concatenation come from.                        *)
LEMMA ConcatShape ==
  ASSUME NEW S, NEW s \in Seq(S), NEW t \in Seq(S)
  PROVE  /\ s \o t \in Seq(S) /\ Len(s \o t) = Len(s) + Len(t)
         /\ \A i \in 1..Len(s) : (s \o t)[i] = s[i]
         /\ \A i \in 1..Len(t) : (s \o t)[Len(s) + i] = t[i]
         /\ ToSet(s \o t) = ToSet(s) \cup ToSet(t)
<1>1. /\ s \o t \in Seq(S) /\ Len(s \o t) = Len(s) + Len(t)
      /\ \A i \in 1..Len(s) : (s \o t)[i] = s[i]
      /\ \A i \in 1..Len(t) : (s \o t)[Len(s) + i] = t[i]
  OBVIOUS
<1>2. \A x : x \in ToSet(s \o t) <=> \E i \in 1..Len(s) + Len(t) : x = (s \o t)[i]
  <2>1. \A x : x \in ToSet(s \o t) <=> \E i \in 1..Len(s \o t) : x = (s \o t)[i]
    BY <1>1, HasPlace, Zenon
  <2> QED
    BY <2>1, <1>1
<1>3. ASSUME NEW i \in 1..Len(s) + Len(t) PROVE (s \o t)[i] \in ToSet(s) \cup ToSet(t)
  <2>1. CASE i \in 1..Len(s)
    BY <2>1, <1>1, HasPlace
  <2>2. CASE i \notin 1..Len(s)
    <3>1. i - Len(s) \in 1..Len(t) /\ i = Len(s) + (i - Len(s))
      BY <2>2
    <3>2. (s \o t)[i] = t[i - Len(s)]
      BY <3>1, <1>1
    <3> QED
      BY <3>1, <3>2, HasPlace
  <2> QED
    BY <2>1, <2>2
<1>4. ASSUME NEW x \in ToSet(s) PROVE x \in ToSet(s \o t)
  <2>1. PICK i \in 1..Len(s) : x = s[i]
    BY HasPlace
  <2> QED
    BY <2>1, <1>1, <1>2
<1>5. ASSUME NEW x \in ToSet(t) PROVE x \in ToSet(s \o t)
  <2>1. PICK i \in 1..Len(t) : x = t[i]
    BY HasPlace
  <2>2. Len(s) + i \in 1..Len(s) + Len(t)
    OBVIOUS
  <2> QED
    BY <2>1, <2>2, <1>1, <1>2
<1>6. ToSet(s \o t) = ToSet(s) \cup ToSet(t)
  BY <1>2, <1>3, <1>4, <1>5
<1> QED
  BY <1>1, <1>6

(* Concatenations of sequences with nothing in common.                     *)
LEMMA ConcatDistinct ==
  ASSUME NEW S, NEW s \in Seq(S), NEW t \in Seq(S), Distinct(s), Distinct(t),
         ToSet(s) \cap ToSet(t) = {}
  PROVE  Distinct(s \o t)
<1> SUFFICES ASSUME NEW i \in 1..Len(s) + Len(t), NEW j \in 1..Len(s) + Len(t),
                    (s \o t)[i] = (s \o t)[j]
             PROVE  i = j
  BY ConcatShape, SeqShape DEF Distinct
<1>1. \A k \in 1..Len(s) + Len(t) :
        \/ k \in 1..Len(s) /\ (s \o t)[k] = s[k] /\ s[k] \in ToSet(s)
        \/ k - Len(s) \in 1..Len(t) /\ (s \o t)[k] = t[k - Len(s)]
           /\ t[k - Len(s)] \in ToSet(t)
  BY SeqShape
<1>2. /\ \A k, l \in 1..Len(s) : s[k] = s[l] => k = l
      /\ \A k, l \in 1..Len(t) : t[k] = t[l] => k = l
  BY SeqShape DEF Distinct
<1>3. CASE i \in 1..Len(s) /\ j \in 1..Len(s)
  BY <1>1, <1>2, <1>3
<1>4. CASE i \notin 1..Len(s) /\ j \notin 1..Len(s)
  <2>1. /\ i - Len(s) \in 1..Len(t) /\ (s \o t)[i] = t[i - Len(s)]
        /\ j - Len(s) \in 1..Len(t) /\ (s \o t)[j] = t[j - Len(s)]
    BY <1>1, <1>4
  <2>2. i - Len(s) = j - Len(s)
    BY <2>1, <1>2
  <2> QED
    BY <2>2
<1> QED
  BY <1>1, <1>3, <1>4

(* The first elements.                                                     *)
LEMMA SubSeqShape ==
  ASSUME NEW S, NEW s \in Seq(S), NEW n \in Nat, n <= Len(s)
  PROVE  /\ SubSeq(s, 1, n) \in Seq(S) /\ Len(SubSeq(s, 1, n)) = n
         /\ \A i \in 1..n : SubSeq(s, 1, n)[i] = s[i]
<1>1. Len(s) \in Nat /\ \A i \in 1..Len(s) : s[i] \in S
  BY SeqShape
<1>2. SubSeq(s, 1, n) = [i \in 1..n |-> s[i]]
  OBVIOUS
<1> QED
  BY <1>1, <1>2

(* One more element.                                                       *)
LEMMA AppendShape ==
  ASSUME NEW S, NEW s \in Seq(S), NEW x \in S
  PROVE  /\ Append(s, x) \in Seq(S) /\ Len(Append(s, x)) = Len(s) + 1
         /\ \A i \in 1..Len(s) : Append(s, x)[i] = s[i]
         /\ Append(s, x)[Len(s) + 1] = x
         /\ ToSet(Append(s, x)) = ToSet(s) \cup {x}
         /\ Distinct(s) /\ x \notin ToSet(s) => Distinct(Append(s, x))
<1>1. /\ Append(s, x) \in Seq(S) /\ Len(Append(s, x)) = Len(s) + 1
      /\ \A i \in 1..Len(s) : Append(s, x)[i] = s[i]
      /\ Append(s, x)[Len(s) + 1] = x
  OBVIOUS
<1>2. ToSet(Append(s, x)) = ToSet(s) \cup {x}
  <2>1. \A y : y \in ToSet(Append(s, x)) <=> \E i \in 1..Len(s)+1 : y = Append(s, x)[i]
    <3>1. \A y : y \in ToSet(Append(s, x)) <=> \E i \in 1..Len(Append(s, x)) : y = Append(s, x)[i]
      BY <1>1, HasPlace, Zenon
    <3> QED
      BY <3>1, <1>1
  <2>2. \A y : y \in ToSet(s) <=> \E i \in 1..Len(s) : y = s[i]
    BY HasPlace
  <2>3. \A i : i \in 1..Len(s)+1 <=> i \in 1..Len(s) \/ i = Len(s) + 1
    OBVIOUS
  <2> QED
    BY <2>1, <2>2, <2>3, <1>1
<1>3. ASSUME Distinct(s), x \notin ToSet(s) PROVE Distinct(Append(s, x))
  BY <1>1, <1>3, SeqShape DEF Distinct
<1> QED
  BY <1>1, <1>2, <1>3

(* One element less, at the front.                                         *)
LEMMA TailShape ==
  ASSUME NEW S, NEW s \in Seq(S), s # <<>>
  PROVE  /\ Len(s) \in Nat /\ Len(s) >= 1 /\ Head(s) = s[1] /\ Head(s) \in S
         /\ Tail(s) \in Seq(S) /\ Len(Tail(s)) = Len(s) - 1
         /\ \A i \in 1..Len(s)-1 : Tail(s)[i] = s[i+1]
         /\ ToSet(s) = ToSet(Tail(s)) \cup {Head(s)}
         /\ Distinct(s) => Distinct(Tail(s)) /\ Head(s) \notin ToSet(Tail(s))
<1>1. /\ Len(s) \in Nat /\ Len(s) >= 1 /\ Head(s) = s[1] /\ Head(s) \in S
      /\ Tail(s) \in Seq(S) /\ Len(Tail(s)) = Len(s) - 1
      /\ \A i \in 1..Len(s)-1 : Tail(s)[i] = s[i+1]
  OBVIOUS
<1>2. \A x : x \in ToSet(Tail(s)) <=> \E i \in 1..Len(s)-1 : x = s[i+1]
  <2>1. \A x : x \in ToSet(Tail(s)) <=> \E i \in 1..Len(s)-1 : x = Tail(s)[i]
    <3>1. \A x : x \in ToSet(Tail(s)) <=> \E i \in 1..Len(Tail(s)) : x = Tail(s)[i]
      BY <1>1, HasPlace, Zenon
    <3> QED
      BY <3>1, <1>1
  <2> QED
    BY <2>1, <1>1
<1>3. ToSet(s) = ToSet(Tail(s)) \cup {Head(s)}
  <2>1. \A i \in 1..Len(s) : i = 1 \/ (i - 1 \in 1..Len(s)-1 /\ i = (i - 1) + 1)
    BY <1>1
  <2>2. \A x : x \in ToSet(s) <=> \E i \in 1..Len(s) : x = s[i]
    BY HasPlace
  <2>3. \A i \in 1..Len(s)-1 : i + 1 \in 1..Len(s)
    BY <1>1
  <2>4. 1 \in 1..Len(s)
    BY <1>1
  <2>5. \A x \in ToSet(Tail(s)) : x \in ToSet(s)
    BY <2>2, <2>3, <1>2
  <2>6. \A x \in ToSet(s) : x = Head(s) \/ x \in ToSet(Tail(s))
    BY <2>1, <2>2, <1>1, <1>2
  <2>7. Head(s) \in ToSet(s)
    BY <2>2, <2>4, <1>1
  <2> QED
    BY <2>5, <2>6, <2>7
<1>4. ASSUME Distinct(s) PROVE Distinct(Tail(s)) /\ Head(s) \notin ToSet(Tail(s))
  <2>1. \A i \in 1..Len(s)-1 : i + 1 \in 1..Len(s) /\ i + 1 # 1 /\ 1 \in 1..Len(s)
    BY <1>1
  <2>2. \A i, j \in 1..Len(s) : s[i] = s[j] => i = j
    BY <1>4, SeqShape DEF Distinct
  <2>3. DOMAIN Tail(s) = 1..Len(s)-1
    BY <1>1, SeqShape
  <2>4. \A i, j \in 1..Len(s)-1 : Tail(s)[i] = Tail(s)[j] => i = j
    BY <2>1, <2>2, <1>1
  <2> QED
    BY <2>1, <2>2, <2>3, <2>4, <1>1, <1>2 DEF Distinct
<1> QED
  BY <1>1, <1>3, <1>4
(* One element less, anywhere.                                             *)
LEMMA RemoveShape ==
  ASSUME NEW S, NEW s \in Seq(S), NEW k \in 1..Len(s)
  PROVE  /\ RemoveAt(s, k) \in Seq(S) /\ Len(RemoveAt(s, k)) = Len(s) - 1
         /\ \A i \in 1..Len(s)-1 : RemoveAt(s, k)[i] = IF i < k THEN s[i] ELSE s[i + 1]
<1> DEFINE first == SubSeq(s, 1, k - 1)
           rest == SubSeq(s, k + 1, Len(s))
<1>1. Len(s) \in Nat /\ \A i \in 1..Len(s) : s[i] \in S
  BY SeqShape
<1>2. k - 1 \in Nat /\ k - 1 <= Len(s)
  BY <1>1
<1>3. /\ first \in Seq(S) /\ Len(first) = k - 1
      /\ \A i \in 1..k-1 : first[i] = s[i]
  BY <1>2, SubSeqShape
<1>4. /\ rest \in Seq(S) /\ Len(rest) = Len(s) - k
      /\ \A i \in 1..Len(s)-k : rest[i] = s[k + i]
  BY <1>1, SubSeqProperties
<1>5. RemoveAt(s, k) = first \o rest
  BY DEF RemoveAt
<1> HIDE DEF first, rest
<1>6. /\ first \o rest \in Seq(S) /\ Len(first \o rest) = Len(s) - 1
      /\ \A i \in 1..k-1 : (first \o rest)[i] = s[i]
      /\ \A i \in 1..Len(s)-k : (first \o rest)[k - 1 + i] = s[k + i]
  BY <1>1, <1>3, <1>4, ConcatShape
<1>7. ASSUME NEW i \in 1..Len(s)-1
      PROVE  (first \o rest)[i] = IF i < k THEN s[i] ELSE s[i + 1]
  <2>1. CASE i < k
    BY <1>1, <1>6, <2>1
  <2>2. CASE ~ (i < k)
    <3>1. i - (k - 1) \in 1..Len(s)-k /\ k - 1 + (i - (k - 1)) = i /\ k + (i - (k - 1)) = i + 1
      BY <1>1, <2>2
    <3> QED
      BY <1>6, <2>2, <3>1
  <2> QED
    BY <2>1, <2>2
<1> QED
  BY <1>5, <1>6, <1>7
=============================================================================
