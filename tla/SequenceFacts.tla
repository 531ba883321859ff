---------------------------- MODULE SequenceFacts ----------------------------
(***************************************************************************)
(* Facts about a queue and the history of what left it, used by the proofs *)
(* about the worker pool (jobs begun, jobs queued) and about the hub       *)
(* (events written, in hand, buffered); and the form of induction used by  *)
(* the proofs about loops.                                                 *)
(***************************************************************************)
EXTENDS Integers, Sequences, SequenceTheorems, WellFoundedInduction, TLAPS

(* Moving the head of the second part to the end of the first leaves the   *)
(* concatenation unchanged.                                                *)
LEMMA MoveHead ==
  ASSUME NEW S, NEW b \in Seq(S), NEW q \in Seq(S), q # <<>>
  PROVE  Append(b, Head(q)) \o Tail(q) = b \o q
<1> DEFINE L == Append(b, Head(q)) \o Tail(q)
<1>1. /\ Head(q) \in S
      /\ Tail(q) \in Seq(S)
      /\ Len(Tail(q)) = Len(q) - 1
      /\ \A i \in 1 .. Len(Tail(q)) : Tail(q)[i] = q[i+1]
  BY HeadTailProperties
<1>2. Head(q) = q[1] /\ Len(q) \in Nat \ {0} /\ Len(b) \in Nat
  BY EmptySeq, LenProperties
<1>3. /\ Append(b, Head(q)) \in Seq(S)
      /\ Len(Append(b, Head(q))) = Len(b) + 1
      /\ \A i \in 1 .. Len(b) : Append(b, Head(q))[i] = b[i]
      /\ Append(b, Head(q))[Len(b) + 1] = Head(q)
  BY <1>1, AppendProperties
<1>4. /\ L \in Seq(S)
      /\ Len(L) = Len(b) + Len(q)
      /\ \A i \in 1 .. Len(b) + Len(q) : L[i] =
           IF i <= Len(b) + 1 THEN Append(b, Head(q))[i]
                              ELSE Tail(q)[i - (Len(b) + 1)]
  BY <1>1, <1>2, <1>3, ConcatProperties
<1>5. /\ b \o q \in Seq(S)
      /\ Len(b \o q) = Len(b) + Len(q)
      /\ \A i \in 1 .. Len(b) + Len(q) : (b \o q)[i] =
           IF i <= Len(b) THEN b[i] ELSE q[i - Len(b)]
  BY ConcatProperties
<1>6. ASSUME NEW i \in 1 .. Len(b) + Len(q)
      PROVE  L[i] = (b \o q)[i]
  <2>1. CASE i <= Len(b)
    BY <2>1, <1>2, <1>3, <1>4, <1>5
  <2>2. CASE i = Len(b) + 1
    BY <2>2, <1>2, <1>3, <1>4, <1>5
  <2>3. CASE i > Len(b) + 1
    <3>1. i - (Len(b) + 1) \in 1 .. Len(Tail(q))
      BY <2>3, <1>1, <1>2
    <3>2. L[i] = q[(i - (Len(b) + 1)) + 1]
      BY <3>1, <2>3, <1>1, <1>2, <1>4
    <3>3. (i - (Len(b) + 1)) + 1 = i - Len(b)
      BY <1>2
    <3> QED BY <3>2, <3>3, <2>3, <1>2, <1>5
  <2> QED BY <2>1, <2>2, <2>3, <1>2
<1> HIDE DEF L
<1>7. L = b \o q
  BY <1>4, <1>5, <1>6, SeqEqual
<1> QED BY <1>7 DEF L

(* Appending to the second part appends to the concatenation.              *)
LEMMA AppendToConcat ==
  ASSUME NEW S, NEW b \in Seq(S), NEW q \in Seq(S), NEW x \in S
  PROVE  b \o Append(q, x) = Append(b \o q, x)
<1>1. /\ Append(q, x) \in Seq(S)
      /\ Len(Append(q, x)) = Len(q) + 1
      /\ \A i \in 1 .. Len(q) : Append(q, x)[i] = q[i]
      /\ Append(q, x)[Len(q) + 1] = x
  BY AppendProperties
<1>2. Len(b) \in Nat /\ Len(q) \in Nat
  BY LenProperties
<1>3. /\ b \o q \in Seq(S)
      /\ Len(b \o q) = Len(b) + Len(q)
      /\ \A i \in 1 .. Len(b) + Len(q) : (b \o q)[i] =
           IF i <= Len(b) THEN b[i] ELSE q[i - Len(b)]
  BY ConcatProperties
<1>4. /\ b \o Append(q, x) \in Seq(S)
      /\ Len(b \o Append(q, x)) = Len(b) + Len(q) + 1
      /\ \A i \in 1 .. Len(b) + Len(q) + 1 : (b \o Append(q, x))[i] =
           IF i <= Len(b) THEN b[i] ELSE Append(q, x)[i - Len(b)]
  BY <1>1, <1>2, ConcatProperties
<1>5. /\ Append(b \o q, x) \in Seq(S)
      /\ Len(Append(b \o q, x)) = Len(b) + Len(q) + 1
      /\ \A i \in 1 .. Len(b) + Len(q) : Append(b \o q, x)[i] = (b \o q)[i]
      /\ Append(b \o q, x)[Len(b) + Len(q) + 1] = x
  BY <1>3, AppendProperties
<1>6. ASSUME NEW i \in 1 .. Len(b) + Len(q) + 1
      PROVE  (b \o Append(q, x))[i] = Append(b \o q, x)[i]
  <2>1. CASE i <= Len(b)
    BY <2>1, <1>2, <1>3, <1>4, <1>5
  <2>2. CASE i > Len(b) /\ i <= Len(b) + Len(q)
    BY <2>2, <1>1, <1>2, <1>3, <1>4, <1>5
  <2>3. CASE i = Len(b) + Len(q) + 1
    <3>1. i - Len(b) = Len(q) + 1
      BY <2>3, <1>2
    <3> QED BY <2>3, <3>1, <1>1, <1>2, <1>4, <1>5
  <2> QED BY <2>1, <2>2, <2>3, <1>2
<1> QED BY <1>4, <1>5, <1>6, SeqEqual

(* Leaving out the last element, am's, of the first part.                  *)
LEMMA DropMiddle ==
  ASSUME NEW S, NEW a \in Seq(S), NEW am \in Seq(S), NEW b \in Seq(S),
         Len(am) = Len(a) + 1, \A i \in 1 .. Len(a) : am[i] = a[i]
  PROVE  /\ Len(am \o b) = Len(a) + 1 + Len(b)
         /\ Len(a \o b) = Len(a) + Len(b)
         /\ \A i \in 1 .. Len(a \o b) :
              (a \o b)[i] = (am \o b)[IF i <= Len(a) THEN i ELSE i + 1]
<1>1. Len(a) \in Nat /\ Len(b) \in Nat
  BY LenProperties
<1>2. /\ Len(am \o b) = Len(a) + 1 + Len(b)
      /\ \A i \in 1 .. Len(a) + 1 + Len(b) : (am \o b)[i] =
           IF i <= Len(a) + 1 THEN am[i] ELSE b[i - (Len(a) + 1)]
  <2>1. /\ Len(am \o b) = Len(am) + Len(b)
        /\ \A i \in 1 .. Len(am) + Len(b) : (am \o b)[i] =
             IF i <= Len(am) THEN am[i] ELSE b[i - Len(am)]
    BY ConcatProperties
  <2> QED BY <2>1
<1>3. /\ Len(a \o b) = Len(a) + Len(b)
      /\ \A i \in 1 .. Len(a) + Len(b) : (a \o b)[i] =
           IF i <= Len(a) THEN a[i] ELSE b[i - Len(a)]
  BY ConcatProperties
<1>4. ASSUME NEW i \in 1 .. Len(a) + Len(b)
      PROVE  (a \o b)[i] = (am \o b)[IF i <= Len(a) THEN i ELSE i + 1]
  <2>1. CASE i <= Len(a)
    <3>1. i \in 1 .. Len(a) /\ i \in 1 .. Len(a) + 1 + Len(b) /\ i <= Len(a) + 1
      BY <2>1, <1>1
    <3> QED BY <2>1, <3>1, <1>2, <1>3
  <2>2. CASE i > Len(a)
    <3>1. i + 1 \in 1 .. Len(a) + 1 + Len(b) /\ ~(i + 1 <= Len(a) + 1)
          /\ (i + 1) - (Len(a) + 1) = i - Len(a) /\ ~(i <= Len(a))
      BY <2>2, <1>1
    <3> QED BY <3>1, <1>2, <1>3
  <2> QED BY <2>1, <2>2, <1>1
<1> QED BY <1>2, <1>3, <1>4

(* Induction up to N, over a set instead of a predicate.                   *)
LEMMA SetInduction ==
  ASSUME NEW N \in Nat, NEW T, 0 \in T, \A n \in 1 .. N : n - 1 \in T => n \in T
  PROVE  \A n \in 0 .. N : n \in T
<1> DEFINE Less == {ss \in Nat \X Nat : ss[1] < ss[2]}
           Bad  == {n \in 0 .. N : n \notin T}
<1>1. SUFFICES ASSUME Bad # {} PROVE FALSE
  OBVIOUS
<1>2. PICK n \in Bad : \A m \in Bad : <<m, n>> \notin Less
  <2>1. IsWellFoundedOn(Less, Nat)
    BY NatLessThanWellFounded DEF OpToRel
  <2>2. Bad \subseteq Nat
    OBVIOUS
  <2> HIDE DEF Less, Bad
  <2> QED BY <1>1, <2>1, <2>2, WFMin
<1>3. n \in 1 .. N /\ n - 1 \in 0 .. N /\ n - 1 < n
  BY <1>2
<1>4. n - 1 \notin Bad
  <2>1. <<n - 1, n>> \in Less
    BY <1>3
  <2> QED BY <1>2, <2>1
<1> QED BY <1>2, <1>3, <1>4
=============================================================================
