--------------------------- MODULE EventBusProofs ---------------------------
(***************************************************************************)
(* Theorems about EventBus, for any number of instances, publishers,       *)
(* events, attempts and faults: one order of messages for all hubs, no gap *)
(* without an outage, and answered events on the bus once and in order.    *)
(***************************************************************************)
EXTENDS EventBus, SequenceTheorems, TLAPS

\* The sequences of one instance: o has been offered to the hub, b is under
\* way, l is the length of the log.
Good(o, b, l) ==
  /\ \A j, k \in 1 .. Len(o) : j < k => o[j] < o[k]
  /\ \A j \in 1 .. Len(o) : o[j] <= l
  /\ \A j \in 1 .. Len(b) : b[j] >= 1 /\ b[j] <= l
  /\ \A j, k \in 1 .. Len(b) : j < k => b[j] < b[k]
  /\ \A j \in 1 .. Len(o), k \in 1 .. Len(b) : o[j] < b[k]

\* Every position after s is in one of the two, or one of g.
Covers(o, b, s, l, g) == \A x \in s + 1 .. l : Has(o, x) \/ Has(b, x) \/ x \in g

\* A message arrives.
LEMMA Arrive ==
  ASSUME NEW o \in Seq(Nat), NEW b \in Seq(Nat), NEW l \in Nat, NEW s \in Nat,
         NEW g,
         Good(o, b, l)
  PROVE  /\ Append(b, l + 1) \in Seq(Nat)
         /\ Good(o, Append(b, l + 1), l + 1)
         /\ Good(o, b, l + 1)
         /\ Covers(o, b, s, l, g) => Covers(o, Append(b, l + 1), s, l + 1, g)
<1> DEFINE c == Append(b, l + 1)
<1>1. /\ c \in Seq(Nat) /\ Len(c) = Len(b) + 1 /\ Len(b) \in Nat
      /\ \A j \in 1 .. Len(b) : c[j] = b[j]
      /\ c[Len(b) + 1] = l + 1
  BY AppendProperties, LenProperties
<1>2. /\ Len(o) \in Nat /\ \A j \in 1 .. Len(o) : o[j] \in Nat
      /\ \A j \in 1 .. Len(b) : b[j] \in Nat
  BY LenProperties
<1> HIDE DEF c
<1>3. Good(o, c, l + 1) /\ Good(o, b, l + 1)
  <2>1. Good(o, b, l + 1)
    <3>1. \A y \in Nat : y <= l => y <= l + 1
      OBVIOUS
    <3> QED
      BY <1>2, <3>1 DEF Good
  <2>2. \A j \in 1 .. Len(c) : \/ j \in 1 .. Len(b) /\ c[j] = b[j]
                               \/ j = Len(b) + 1 /\ c[j] = l + 1
    BY <1>1
  <2>3. ASSUME NEW j \in 1 .. Len(c)
        PROVE  c[j] >= 1 /\ c[j] <= l + 1
    <3>1. CASE j \in 1 .. Len(b) /\ c[j] = b[j]
      <4>1. b[j] \in Nat /\ b[j] >= 1 /\ b[j] <= l
        BY <3>1, <1>2 DEF Good
      <4> QED
        BY <3>1, <4>1
    <3>2. CASE c[j] = l + 1
      BY <3>2
    <3> QED
      BY <2>2, <3>1, <3>2
  <2>4. ASSUME NEW j \in 1 .. Len(c), NEW k \in 1 .. Len(c), j < k
        PROVE  c[j] < c[k]
    <3> DEFINE n == Len(b)
               q == Len(c)
    <3>a. n \in Nat /\ q = n + 1 /\ j \in 1 .. q /\ k \in 1 .. q
      BY <1>1
    <3> HIDE DEF n, q
    <3>b. j # n + 1
      BY <3>a, <2>4
    <3>1. j \in 1 .. Len(b) /\ c[j] = b[j]
      BY <2>2, <3>b DEF n
    <3>2. b[j] <= l /\ b[j] \in Nat
      BY <3>1, <1>2 DEF Good
    <3>3. k \in 1 .. Len(b) => b[j] < b[k]
      BY <3>1, <2>4 DEF Good
    <3> QED
      BY <2>2, <3>1, <3>2, <3>3
  <2>5. ASSUME NEW j \in 1 .. Len(o), NEW k \in 1 .. Len(c)
        PROVE  o[j] < c[k]
    <3>1. o[j] <= l /\ o[j] \in Nat /\ (k \in 1 .. Len(b) => o[j] < b[k])
      BY <1>2 DEF Good
    <3> QED
      BY <2>2, <3>1
  <2> QED
    BY <2>1, <2>3, <2>4, <2>5 DEF Good
<1>4. ASSUME Covers(o, b, s, l, g), NEW x \in s + 1 .. l + 1
      PROVE  Has(o, x) \/ Has(c, x) \/ x \in g
  <2>1. CASE x = l + 1
    BY <2>1, <1>1 DEF Has
  <2>2. CASE x \in s + 1 .. l
    <3>1. \A j \in 1 .. Len(b) : j \in 1 .. Len(c) /\ c[j] = b[j]
      BY <1>1
    <3> QED
      BY <1>4, <2>2, <3>1 DEF Covers, Has
  <2> QED
    BY <2>1, <2>2
<1> QED
  BY <1>1, <1>3, <1>4 DEF c, Covers

\* The first message under way is handed to the hub.
LEMMA HandOver ==
  ASSUME NEW o \in Seq(Nat), NEW b \in Seq(Nat), NEW l \in Nat, NEW s \in Nat,
         NEW g,
         b # <<>>, Good(o, b, l)
  PROVE  /\ Append(o, Head(b)) \in Seq(Nat) /\ Tail(b) \in Seq(Nat)
         /\ Good(Append(o, Head(b)), Tail(b), l)
         /\ Covers(o, b, s, l, g) => Covers(Append(o, Head(b)), Tail(b), s, l, g)
<1> DEFINE p == Append(o, Head(b))
           t == Tail(b)
<1>1. /\ t \in Seq(Nat) /\ Len(t) = Len(b) - 1 /\ Len(b) \in Nat \ {0}
      /\ \A j \in 1 .. Len(t) : t[j] = b[j + 1]
      /\ Head(b) = b[1] /\ Head(b) \in Nat
  BY HeadTailProperties, EmptySeq
<1>2. /\ p \in Seq(Nat) /\ Len(p) = Len(o) + 1 /\ Len(o) \in Nat
      /\ \A j \in 1 .. Len(o) : p[j] = o[j]
      /\ p[Len(o) + 1] = b[1]
  BY <1>1, AppendProperties, LenProperties
<1>3. /\ \A j \in 1 .. Len(o) : o[j] \in Nat
      /\ \A j \in 1 .. Len(b) : b[j] \in Nat
  BY LenProperties
<1> HIDE DEF p, t
<1>4. Good(p, t, l)
  <2>1. /\ 1 \in 1 .. Len(b)
        /\ \A j \in 1 .. Len(t) : j + 1 \in 1 .. Len(b) /\ 1 < j + 1 /\ t[j] = b[j + 1]
        /\ \A j \in 1 .. Len(p) : \/ j \in 1 .. Len(o) /\ p[j] = o[j]
                                  \/ j = Len(o) + 1 /\ p[j] = b[1]
    <3>1. \A n \in Nat \ {0} : /\ 1 \in 1 .. n
                               /\ \A j \in 1 .. n - 1 : j + 1 \in 1 .. n /\ 1 < j + 1
      OBVIOUS
    <3>2. \A n \in Nat : \A j \in 1 .. n + 1 : j \in 1 .. n \/ j = n + 1
      OBVIOUS
    <3>3. \A j \in 1 .. Len(p) : j \in 1 .. Len(o) \/ j = Len(o) + 1
      BY <3>2, <1>2
    <3>4. \A j \in 1 .. Len(p) : \/ j \in 1 .. Len(o) /\ p[j] = o[j]
                                 \/ j = Len(o) + 1 /\ p[j] = b[1]
      <4>1. ASSUME NEW j \in 1 .. Len(o)
            PROVE  p[j] = o[j]
        BY <1>2
      <4>2. p[Len(o) + 1] = b[1]
        BY <1>2
      <4> QED
        BY <3>3, <4>1, <4>2, Zenon
    <3>5. /\ 1 \in 1 .. Len(b)
          /\ \A j \in 1 .. Len(t) : j + 1 \in 1 .. Len(b) /\ 1 < j + 1 /\ t[j] = b[j + 1]
      BY <3>1, <1>1
    <3> QED
      BY <3>4, <3>5
  <2>2. ASSUME NEW j \in 1 .. Len(p), NEW k \in 1 .. Len(p), j < k
        PROVE  p[j] < p[k]
    <3> DEFINE n == Len(o)
               q == Len(p)
    <3>a. n \in Nat /\ q = n + 1 /\ j \in 1 .. q /\ k \in 1 .. q
      BY <1>2
    <3> HIDE DEF n, q
    <3>b. j # n + 1
      BY <3>a, <2>2
    <3>1. j \in 1 .. Len(o) /\ p[j] = o[j]
      BY <2>1, <3>b DEF n
    <3>2. o[j] < b[1] /\ (k \in 1 .. Len(o) => o[j] < o[k])
      BY <2>1, <2>2, <3>1 DEF Good
    <3> QED
      BY <2>1, <3>1, <3>2
  <2>3. \A j \in 1 .. Len(p) : p[j] <= l
    BY <2>1 DEF Good
  <2>4. \A j \in 1 .. Len(t) : t[j] >= 1 /\ t[j] <= l
    BY <2>1 DEF Good
  <2>5. ASSUME NEW j \in 1 .. Len(t), NEW k \in 1 .. Len(t), j < k
        PROVE  t[j] < t[k]
    <3>1. j + 1 < k + 1
      BY <2>5
    <3> QED
      BY <2>1, <3>1 DEF Good
  <2>6. ASSUME NEW j \in 1 .. Len(p), NEW k \in 1 .. Len(t)
        PROVE  p[j] < t[k]
    <3>1. b[1] < b[k + 1] /\ (j \in 1 .. Len(o) => o[j] < b[k + 1])
      BY <2>1 DEF Good
    <3> QED
      BY <2>1, <3>1
  <2> QED
    BY <2>2, <2>3, <2>4, <2>5, <2>6 DEF Good
<1>5. ASSUME Covers(o, b, s, l, g), NEW x \in s + 1 .. l
      PROVE  Has(p, x) \/ Has(t, x) \/ x \in g
  <2>1. CASE Has(o, x)
    <3>1. PICK j \in 1 .. Len(o) : o[j] = x
      BY <2>1 DEF Has
    <3>2. \A n \in Nat : \A i \in 1 .. n : i \in 1 .. n + 1
      OBVIOUS
    <3>3. j \in 1 .. Len(p) /\ p[j] = x
      BY <3>1, <3>2, <1>2
    <3> QED
      BY <3>3 DEF Has
  <2>2. ASSUME NEW j \in 1 .. Len(b), b[j] = x
        PROVE  Has(p, x) \/ Has(t, x)
    <3>1. CASE j = 1
      BY <2>2, <3>1, <1>2 DEF Has
    <3>2. CASE j > 1
      <4> DEFINE n == Len(b)
                 q == Len(t)
                 i == j - 1
      <4>1. n \in Nat /\ q = n - 1 /\ j \in 1 .. n
        BY <2>2, <1>1
      <4> HIDE DEF n, q
      <4>2. i \in 1 .. q /\ i + 1 = j
        BY <4>1, <3>2
      <4> HIDE DEF i
      <4>3. t[i] = b[i + 1]
        BY <4>2, <1>1 DEF q
      <4> QED
        BY <4>2, <4>3, <2>2 DEF Has, q
    <3> QED
      BY <3>1, <3>2
  <2> QED
    BY <1>5, <2>1, <2>2 DEF Covers, Has
<1> QED
  BY <1>1, <1>2, <1>4, <1>5 DEF p, t, Covers

\* The first message under way is no event and is passed over.
LEMMA PassOver ==
  ASSUME NEW o \in Seq(Nat), NEW b \in Seq(Nat), NEW l \in Nat, NEW s \in Nat,
         NEW g, b # <<>>, Head(b) \in g, Good(o, b, l)
  PROVE  /\ Good(o, Tail(b), l)
         /\ Covers(o, b, s, l, g) => Covers(o, Tail(b), s, l, g)
<1> DEFINE t == Tail(b)
<1>1. /\ t \in Seq(Nat) /\ Len(t) = Len(b) - 1 /\ Len(b) \in Nat \ {0}
      /\ \A j \in 1 .. Len(t) : t[j] = b[j + 1]
      /\ Head(b) = b[1]
  BY HeadTailProperties, EmptySeq
<1> HIDE DEF t
<1>2. \A j \in 1 .. Len(t) : j + 1 \in 1 .. Len(b) /\ t[j] = b[j + 1]
  BY <1>1
<1>3. \A j, k \in 1 .. Len(t) : j < k => j + 1 < k + 1
  BY <1>1
<1>4. Good(o, t, l)
  BY <1>2, <1>3 DEF Good
<1>5. ASSUME NEW j \in 1 .. Len(b), j # 1
      PROVE  Has(t, b[j])
  <2>1. j - 1 \in 1 .. Len(t) /\ (j - 1) + 1 = j
    BY <1>1, <1>5
  <2>2. t[j - 1] = b[j]
    BY <1>2, <2>1
  <2> QED
    BY <2>1, <2>2 DEF Has
<1>6. ASSUME NEW x, Has(b, x)
      PROVE  Has(t, x) \/ x \in g
  BY <1>1, <1>5, <1>6 DEF Has
<1> QED
  BY <1>4, <1>6 DEF Covers, t

\* Only the first m messages under way remain.
LEMMA CutOff ==
  ASSUME NEW o \in Seq(Nat), NEW b \in Seq(Nat), NEW l \in Nat,
         NEW m \in 0 .. Len(b), Good(o, b, l)
  PROVE  SubSeq(b, 1, m) \in Seq(Nat) /\ Good(o, SubSeq(b, 1, m), l)
<1> DEFINE c == SubSeq(b, 1, m)
<1>1. Len(b) \in Nat /\ \A j \in 1 .. Len(b) : b[j] \in Nat
  BY LenProperties
<1>2. /\ c \in Seq(Nat) /\ Len(c) = m
      /\ \A j \in 1 .. m : c[j] = b[j]
  <2>1. \A j \in 1 .. m : b[j] \in Nat
    BY <1>1
  <2>2. /\ c \in Seq(Nat) /\ Len(c) = IF 1 <= m THEN m - 1 + 1 ELSE 0
        /\ \A j \in 1 .. m - 1 + 1 : c[j] = b[1 + j - 1]
    BY <2>1, SubSeqProperties
  <2> QED
    BY <2>2, <1>1
<1> HIDE DEF c
<1>3. Good(o, c, l)
  <2>1. \A j \in 1 .. Len(c) : j \in 1 .. Len(b) /\ c[j] = b[j]
    BY <1>1, <1>2
  <2> QED
    BY <2>1 DEF Good
<1> QED
  BY <1>2, <1>3 DEF c

\* A message under way is dropped, the one behind the first n.
Without(b, n) == SubSeq(b, 1, n) \o SubSeq(b, n + 2, Len(b))

(* Dropping a message under way keeps what has been offered in order.      *)
LEMMA DropOut ==
  ASSUME NEW o \in Seq(Nat), NEW b \in Seq(Nat), NEW l \in Nat, NEW s \in Nat,
         NEW g,
         NEW n \in Nat, n < Len(b), NEW r \in Nat, r >= s, r >= b[n + 1],
         Good(o, b, l)
  PROVE  /\ Without(b, n) \in Seq(Nat) /\ Good(o, Without(b, n), l)
         /\ Covers(o, b, s, l, g) => Covers(o, Without(b, n), r, l, g)
<1> DEFINE u == SubSeq(b, 1, n)
           v == SubSeq(b, n + 2, Len(b))
           c == u \o v
<1>1. Len(b) \in Nat /\ \A j \in 1 .. Len(b) : b[j] \in Nat
  BY LenProperties
<1>2. u \in Seq(Nat) /\ Len(u) = n /\ \A j \in 1 .. n : u[j] = b[j]
  <2>1. \A j \in 1 .. n : b[j] \in Nat
    BY <1>1
  <2>2. /\ u \in Seq(Nat) /\ Len(u) = IF 1 <= n THEN n - 1 + 1 ELSE 0
        /\ \A j \in 1 .. n - 1 + 1 : u[j] = b[1 + j - 1]
    BY <2>1, SubSeqProperties
  <2> QED
    BY <2>2
<1>3. /\ v \in Seq(Nat) /\ Len(v) = Len(b) - n - 1
      /\ \A j \in 1 .. Len(v) : v[j] = b[n + 1 + j]
  <2>1. \A j \in n + 2 .. Len(b) : b[j] \in Nat
    BY <1>1
  <2>2. /\ v \in Seq(Nat)
        /\ Len(v) = IF n + 2 <= Len(b) THEN Len(b) - (n + 2) + 1 ELSE 0
        /\ \A j \in 1 .. Len(b) - (n + 2) + 1 : v[j] = b[(n + 2) + j - 1]
    BY <2>1, <1>1, SubSeqProperties
  <2> QED
    BY <2>2, <1>1
<1> HIDE DEF u, v
<1>4. /\ c \in Seq(Nat) /\ Len(c) = Len(b) - 1
      /\ \A j \in 1 .. Len(c) : c[j] = IF j <= n THEN b[j] ELSE b[j + 1]
  <2>1. /\ c \in Seq(Nat) /\ Len(c) = Len(u) + Len(v)
        /\ \A j \in 1 .. Len(u) + Len(v) :
             c[j] = IF j <= Len(u) THEN u[j] ELSE v[j - Len(u)]
    BY <1>2, <1>3, ConcatProperties
  <2>2. Len(c) = Len(b) - 1
    BY <2>1, <1>1, <1>2, <1>3
  <2>3. ASSUME NEW j \in 1 .. Len(c)
        PROVE  c[j] = IF j <= n THEN b[j] ELSE b[j + 1]
    <3>1. CASE j <= n
      <4>1. j \in 1 .. n /\ j \in 1 .. Len(u) + Len(v)
        BY <3>1, <2>1
      <4>2. c[j] = u[j]
        BY <4>1, <3>1, <2>1, <1>2
      <4> QED
        BY <4>1, <4>2, <3>1, <1>2
    <3>2. CASE j > n
      <4>1. j - n \in 1 .. Len(v) /\ j \in 1 .. Len(u) + Len(v) /\ ~(j <= Len(u))
        BY <3>2, <2>2, <1>1, <1>2, <1>3
      <4>2. c[j] = v[j - n]
        BY <4>1, <2>1, <1>2
      <4>3. v[j - n] = b[n + 1 + (j - n)]
        BY <4>1, <1>3
      <4>4. n + 1 + (j - n) = j + 1 /\ ~(j <= n)
        BY <3>2, <2>2, <1>1
      <4> QED
        BY <4>2, <4>3, <4>4
    <3> QED
      BY <3>1, <3>2
  <2> QED
    BY <2>1, <2>2, <2>3
<1> HIDE DEF c
<1>5. Good(o, c, l)
  <2> DEFINE f(j) == IF j <= n THEN j ELSE j + 1
  <2>1. \A j \in 1 .. Len(c) : f(j) \in 1 .. Len(b)
    BY <1>1, <1>4
  <2>2. \A j \in 1 .. Len(c) : c[j] = b[f(j)]
    BY <1>4
  <2>3. ASSUME NEW j \in 1 .. Len(c), NEW k \in 1 .. Len(c), j < k
        PROVE  f(j) < f(k)
    <3>1. j \in Int /\ k \in Int
      BY <1>1, <1>4
    <3> QED
      BY <2>3, <3>1
  <2> HIDE DEF f
  <2> QED
    BY <2>1, <2>2, <2>3 DEF Good
<1>6. ASSUME Covers(o, b, s, l, g), NEW x \in r + 1 .. l
      PROVE  Has(o, x) \/ Has(c, x) \/ x \in g
  <2>1. CASE Has(o, x)
    BY <2>1
  <2>2. ASSUME NEW j \in 1 .. Len(b), b[j] = x
        PROVE  Has(c, x)
    <3>1. j # n + 1
      BY <2>2, <1>1, <1>6
    <3>2. CASE j <= n
      <4>1. j \in 1 .. Len(c)
        BY <3>2, <1>1, <1>4
      <4>2. c[j] = b[j]
        BY <3>2, <4>1, <1>4
      <4> QED
        BY <2>2, <4>1, <4>2 DEF Has
    <3>3. CASE j > n + 1
      <4>1. j - 1 \in 1 .. Len(c) /\ ~(j - 1 <= n) /\ (j - 1) + 1 = j
        BY <3>3, <1>1, <1>4
      <4>2. c[j - 1] = b[j]
        BY <4>1, <1>4
      <4> QED
        BY <2>2, <4>1, <4>2 DEF Has
    <3> QED
      BY <3>1, <3>2, <3>3, <1>1
  <2>3. x \in s + 1 .. l
    BY <1>6
  <2> QED
    BY <1>6, <2>1, <2>2, <2>3 DEF Covers, Has
<1> QED
  BY <1>4, <1>5, <1>6 DEF c, u, v, Covers, Without

-----------------------------------------------------------------------------
\* Every variable keeps its type.
LEMMA NextType == TypeOK /\ [Next]_vars => TypeOK'
<1> SUFFICES ASSUME TypeOK, [Next]_vars PROVE TypeOK'
    OBVIOUS
<1> USE DEF TypeOK
<1>1. CASE UNCHANGED vars
  BY <1>1 DEF vars, busVars, subVars
<1>2. ASSUME NEW p \in Publishers, Broadcast(p)
      PROVE  TypeOK'
  <2>1. pub[p].n \in 0 .. MaxEvents /\ pub[p].n < MaxEvents
    BY <1>2, BusAssumption DEF Broadcast
  <2>2. pub[p].n + 1 \in 1 .. MaxEvents /\ 1 \in 1 .. MaxAttempts
    BY <2>1, BusAssumption
  <2> QED
    BY <1>2, <2>2 DEF Broadcast, subVars, Attempts
<1>3. ASSUME NEW p \in Publishers, Retry(p)
      PROVE  TypeOK'
  <2>1. /\ pub[p] \in [pc : {"sent"}, n : 1 .. MaxEvents, k : 1 .. MaxAttempts]
        /\ pub[p].k + 1 \in 1 .. MaxAttempts
    BY <1>3, BusAssumption DEF Retry
  <2>2. /\ [pub[p] EXCEPT !.k = pub[p].k + 1]
             \in [pc : {"sent"}, n : 1 .. MaxEvents, k : 1 .. MaxAttempts]
        /\ [p |-> p, n |-> pub[p].n, k |-> pub[p].k + 1] \in Attempts
    BY <2>1 DEF Attempts
  <2> QED
    BY <1>3, <2>2 DEF Retry, subVars
<1>4. ASSUME NEW p \in Publishers, Answered(p) \/ GiveUp(p)
      PROVE  TypeOK'
  <2>1. pub[p] \in [pc : {"sent"}, n : 1 .. MaxEvents, k : 1 .. MaxAttempts]
    BY <1>4 DEF Answered, GiveUp
  <2>2. pub[p].n \in 0 .. MaxEvents /\ pub[p].k \in 0 .. MaxAttempts
    BY <2>1, BusAssumption
  <2>4. [pub[p] EXCEPT !.pc = "idle"]
          \in [pc : {"idle"}, n : 0 .. MaxEvents, k : 0 .. MaxAttempts]
    BY <2>1, <2>2
  <2>5. <<p, pub[p].n>> \in Publishers \X (1 .. MaxEvents)
    BY <2>1
  <2>3. /\ pub' = [pub EXCEPT ![p] = [pub[p] EXCEPT !.pc = "idle"]]
        /\ answered' \in {answered, answered \union {<<p, pub[p].n>>}}
        /\ UNCHANGED <<wire, log, subVars>>
    BY <1>4 DEF Answered, GiveUp
  <2> QED
    BY <2>4, <2>5, <2>3 DEF subVars
<1>5. ASSUME NEW x \in Attempts \union {Garbage}, Deliver(x)
      PROVE  log' \in Seq(Attempts \union {Garbage}) /\ inbox' \in [Instances -> Seq(Nat)]
  <2>1. log' \in Seq(Attempts \union {Garbage})
    BY <1>5, AppendProperties DEF Deliver
  <2>2. Len(log) + 1 \in Nat
    BY LenProperties
  <2>3. \A i \in Instances : Append(inbox[i], Len(log) + 1) \in Seq(Nat)
    BY <2>2, AppendProperties
  <2>4. inbox' \in [Instances -> Seq(Nat)]
    BY <1>5, <2>3 DEF Deliver
  <2> QED
    BY <2>1, <2>4
<1>6. ASSUME (\E x \in wire : Execute(x)) \/ ExecuteGarbage
      PROVE  TypeOK'
  <2>1. \E x \in Attempts \union {Garbage} : Deliver(x)
    BY <1>6 DEF Execute, ExecuteGarbage
  <2>2. faults' \in Nat /\ wire' \subseteq wire /\ UNCHANGED <<pub, answered, sub, offered, since>>
    BY <1>6 DEF Execute, ExecuteGarbage
  <2> QED
    BY <1>5, <2>1, <2>2
<1>7. ASSUME NEW i \in Instances, SubscribeOk(i) \/ SubscribeFails(i) \/ Resubscribe(i)
      PROVE  TypeOK'
  <2>1. Len(log) \in Nat
    BY LenProperties
  <2>2. /\ \E v \in {"on", "ended"} : sub' = [sub EXCEPT ![i] = v]
        /\ since' = since \/ since' = [since EXCEPT ![i] = Len(log)]
        /\ UNCHANGED <<busVars, inbox, offered, faults>>
    BY <1>7 DEF SubscribeOk, SubscribeFails, Resubscribe
  <2> QED
    BY <2>1, <2>2 DEF busVars
<1>8. ASSUME NEW i \in Instances, Handle(i)
      PROVE  TypeOK'
  <2>1. Append(offered[i], Head(inbox[i])) \in Seq(Nat) /\ Tail(inbox[i]) \in Seq(Nat)
    BY <1>8, HeadTailProperties, AppendProperties DEF Handle
  <2> QED
    BY <1>8, <2>1 DEF Handle, busVars
<1>9. ASSUME NEW i \in Instances, Cancel(i)
      PROVE  TypeOK'
  BY <1>9, EmptySeq DEF Cancel, busVars
<1>10. ASSUME NEW i \in Instances, Break(i)
       PROVE  TypeOK'
  <2>1. PICK m \in 0 .. Len(inbox[i]) : inbox' = [inbox EXCEPT ![i] = SubSeq(@, 1, m)]
    BY <1>10 DEF Break
  <2>2. \A j \in 1 .. m : inbox[i][j] \in Nat
    BY LenProperties
  <2>3. m \in Int
    BY LenProperties
  <2>4. SubSeq(inbox[i], 1, m) \in Seq(Nat)
    BY <2>2, <2>3, SubSeqProperties
  <2> QED
    BY <1>10, <2>1, <2>4 DEF Break, busVars
<1>11. ASSUME NEW i \in Instances, DropFull(i)
       PROVE  TypeOK'
  <2> DEFINE b == inbox[i]
  <2>1. Len(b) \in Nat /\ \A j \in 1 .. Len(b) : b[j] \in Nat
    BY LenProperties
  <2>2. ChanSize + 1 \in 1 .. Len(b)
    BY <1>11, <2>1, BusAssumption DEF DropFull
  <2>3. \A j \in 1 .. ChanSize : b[j] \in Nat
    BY <2>1, <2>2, BusAssumption
  <2>4. \A j \in ChanSize + 2 .. Len(b) : b[j] \in Nat
    BY <2>1, <2>2, BusAssumption
  <2>5. SubSeq(b, 1, ChanSize) \in Seq(Nat)
    BY <2>3, BusAssumption, SubSeqProperties
  <2>6. SubSeq(b, ChanSize + 2, Len(b)) \in Seq(Nat)
    BY <2>1, <2>4, BusAssumption, SubSeqProperties
  <2>7. SubSeq(b, 1, ChanSize) \o SubSeq(b, ChanSize + 2, Len(b)) \in Seq(Nat)
    BY <2>5, <2>6, ConcatProperties
  <2>8. \E v \in Nat : since' = [since EXCEPT ![i] = v]
    BY <1>11, <2>1, <2>2 DEF DropFull
  <2>9. \E c \in Seq(Nat) : inbox' = [inbox EXCEPT ![i] = c]
    BY <1>11, <2>7 DEF DropFull
  <2>10. faults' \in Nat /\ UNCHANGED <<busVars, sub, offered>>
    BY <1>11 DEF DropFull
  <2> QED
    BY <2>8, <2>9, <2>10 DEF busVars
<1> QED
  BY <1>1, <1>2, <1>3, <1>4, <1>5, <1>6, <1>7, <1>8, <1>9, <1>10, <1>11
  DEF Next, Publish, AttemptFails, Receive

\* The types hold.
THEOREM TypeCorrect == Spec => []TypeOK
<1>1. Init => TypeOK
  BY BusAssumption, EmptySeq DEF Init, TypeOK
<1> QED
  BY <1>1, NextType, PTL DEF Spec

-----------------------------------------------------------------------------
\* The subscribers' side, instance by instance.
SubInv == PositionsIncrease /\ NoUnexplainedGap

\* The positions of the messages that are no event.
NoEvents == {x \in 1 .. Len(log) : log[x] = Garbage}

\* What SubInv says of one instance.
InstanceOk(i) ==
  /\ Good(offered[i], inbox[i], Len(log))
  /\ sub[i] = "on" => Covers(offered[i], inbox[i], since[i], Len(log), NoEvents)

(* SubInv speaks of each instance on its own.                              *)
LEMMA SubInvIsPointwise ==
  ASSUME TypeOK, TypeOK'
  PROVE  /\ SubInv <=> \A i \in Instances : InstanceOk(i)
         /\ SubInv' <=> \A i \in Instances : InstanceOk(i)'
<1>1. \A x : x \in 1 .. Len(log) => (x \in NoEvents <=> log[x] = Garbage)
  BY DEF NoEvents
<1>2. \A x : x \in 1 .. Len(log') => (x \in NoEvents' <=> log'[x] = Garbage)
  BY DEF NoEvents
<1>3. /\ Len(log) \in Nat /\ \A i \in Instances : since[i] \in Nat
      /\ Len(log') \in Nat /\ \A i \in Instances : since'[i] \in Nat
  BY LenProperties DEF TypeOK
<1>4. /\ \A i \in Instances : \A x \in since[i] + 1 .. Len(log) : x \in 1 .. Len(log)
      /\ \A i \in Instances : \A x \in since'[i] + 1 .. Len(log') : x \in 1 .. Len(log')
  BY <1>3
<1>5. /\ PositionsIncrease <=> \A i \in Instances : Good(offered[i], inbox[i], Len(log))
      /\ PositionsIncrease' <=> \A i \in Instances : Good(offered[i], inbox[i], Len(log))'
  BY DEF PositionsIncrease, Good
<1>6. NoUnexplainedGap <=>
        \A i \in Instances : sub[i] = "on" =>
          Covers(offered[i], inbox[i], since[i], Len(log), NoEvents)
  BY <1>1, <1>4 DEF NoUnexplainedGap, Covers
<1>7. NoUnexplainedGap' <=>
        \A i \in Instances : sub'[i] = "on" =>
          Covers(offered'[i], inbox'[i], since'[i], Len(log'), NoEvents')
  BY <1>2, <1>4 DEF NoUnexplainedGap, Covers
<1> QED
  BY <1>5, <1>6, <1>7 DEF SubInv, InstanceOk

\* A step that leaves an instance's variables and the log alone leaves
\* InstanceOk alone.
LEMMA OthersKeep ==
  ASSUME TypeOK, NEW i \in Instances, InstanceOk(i), log' = log,
         sub'[i] = sub[i], inbox'[i] = inbox[i], offered'[i] = offered[i],
         since'[i] = since[i]
  PROVE  InstanceOk(i)'
  BY DEF InstanceOk, Good, Covers, Has, NoEvents

\* A longer list of messages that are no event covers more.
LEMMA CoversMore ==
  ASSUME NEW o, NEW b, NEW s, NEW l, NEW g, NEW h, g \subseteq h, Covers(o, b, s, l, g)
  PROVE  Covers(o, b, s, l, h)
  BY DEF Covers

\* Every step preserves SubInv.
LEMMA SubStep == TypeOK /\ TypeOK' /\ SubInv /\ [Next]_vars => SubInv'
<1> SUFFICES ASSUME TypeOK, TypeOK', \A i \in Instances : InstanceOk(i), [Next]_vars,
                    NEW i \in Instances
             PROVE  InstanceOk(i)'
    BY SubInvIsPointwise
<1> DEFINE o == offered[i]
           b == inbox[i]
           l == Len(log)
           g == NoEvents
<1>1. /\ o \in Seq(Nat) /\ b \in Seq(Nat) /\ l \in Nat /\ since[i] \in Nat
      /\ Good(o, b, l)
      /\ sub[i] = "on" => Covers(o, b, since[i], l, g)
  BY LenProperties DEF TypeOK, InstanceOk
<1>2. CASE UNCHANGED <<log, subVars>>
  BY <1>2, OthersKeep DEF subVars
<1>3. ASSUME NEW x \in Attempts \union {Garbage}, Deliver(x),
             UNCHANGED <<sub, offered, since>>
      PROVE  InstanceOk(i)'
  <2>1. Len(log') = l + 1 /\ \A j \in 1 .. l : log'[j] = log[j]
    BY <1>3, AppendProperties DEF Deliver, TypeOK
  <2>2. UNCHANGED <<sub, offered, since>>
    BY <1>3
  <2>5. NoEvents \subseteq NoEvents'
    BY <1>1, <2>1 DEF NoEvents
  <2>3. CASE sub[i] = "on"
    <3>1. inbox'[i] = Append(b, l + 1)
      BY <1>3, <2>3 DEF Deliver, TypeOK
    <3>2. /\ Good(o, Append(b, l + 1), l + 1)
          /\ Covers(o, Append(b, l + 1), since[i], l + 1, g)
      BY <1>1, <2>3, Arrive
    <3>3. Covers(o, Append(b, l + 1), since[i], l + 1, NoEvents')
      BY <2>5, <3>2, CoversMore
    <3> QED
      BY <2>1, <2>2, <3>1, <3>2, <3>3 DEF InstanceOk
  <2>4. CASE sub[i] # "on"
    <3>1. inbox'[i] = b
      BY <1>3, <2>4 DEF Deliver, TypeOK
    <3>2. Good(o, b, l + 1)
      BY <1>1, Arrive
    <3> QED
      BY <2>1, <2>2, <2>4, <3>1, <3>2 DEF InstanceOk
  <2> QED
    BY <2>3, <2>4
<1>4. ASSUME NEW k \in Instances, k # i, Receive(k)
      PROVE  InstanceOk(i)'
  <2>1. /\ log' = log /\ sub'[i] = sub[i] /\ inbox'[i] = inbox[i]
        /\ offered'[i] = offered[i] /\ since'[i] = since[i]
    BY <1>4 DEF Receive, SubscribeOk, SubscribeFails, Handle, Cancel, Break,
                Resubscribe, DropFull, busVars, TypeOK
  <2> QED
    BY <2>1, OthersKeep
<1>5. CASE SubscribeOk(i) \/ SubscribeFails(i) \/ Resubscribe(i)
  <2>1. /\ UNCHANGED <<log, inbox, offered>>
        /\ sub'[i] = "on" => since'[i] = l
    BY <1>5 DEF SubscribeOk, SubscribeFails, Resubscribe, busVars, TypeOK
  <2>3. UNCHANGED NoEvents
    BY <2>1 DEF NoEvents
  <2>2. Covers(o, b, l, l, g)
    BY <1>1 DEF Covers
  <2> QED
    BY <1>1, <2>1, <2>2, <2>3 DEF InstanceOk
<1>6. CASE Handle(i)
  <2>0. UNCHANGED <<log, sub, since>> /\ UNCHANGED NoEvents /\ b # <<>> /\ inbox'[i] = Tail(b)
    BY <1>6 DEF Handle, busVars, TypeOK, NoEvents
  <2>3. CASE log[Head(b)] = Garbage
    <3>1. offered'[i] = o
      BY <1>6, <2>3 DEF Handle
    <3>2. Head(b) \in g
      <4>1. Head(b) = b[1] /\ 1 \in 1 .. Len(b) /\ b[1] \in Nat
        BY <1>1, <2>0, HeadTailProperties, EmptySeq, LenProperties
      <4>2. b[1] >= 1 /\ b[1] <= l
        BY <1>1, <4>1 DEF Good
      <4> QED
        BY <1>1, <2>3, <4>1, <4>2 DEF NoEvents
    <3>3. /\ Good(o, Tail(b), l)
          /\ sub[i] = "on" => Covers(o, Tail(b), since[i], l, g)
      BY <1>1, <2>0, <3>2, PassOver
    <3> QED
      BY <2>0, <3>1, <3>3 DEF InstanceOk
  <2> SUFFICES ASSUME log[Head(b)] # Garbage PROVE InstanceOk(i)'
    BY <2>3
  <2>1. /\ UNCHANGED <<log, sub, since>> /\ UNCHANGED NoEvents /\ b # <<>>
        /\ offered'[i] = Append(o, Head(b)) /\ inbox'[i] = Tail(b)
    BY <1>6 DEF Handle, busVars, TypeOK, NoEvents
  <2>2. /\ Good(Append(o, Head(b)), Tail(b), l)
        /\ sub[i] = "on" => Covers(Append(o, Head(b)), Tail(b), since[i], l, g)
    BY <1>1, <2>1, HandOver
  <2> QED
    BY <2>1, <2>2 DEF InstanceOk
<1>7. CASE Cancel(i)
  <2>1. /\ UNCHANGED <<log, offered>> /\ sub'[i] = "ended"
        /\ inbox'[i] = <<>>
    BY <1>7 DEF Cancel, busVars, TypeOK
  <2>2. Good(o, <<>>, l)
    BY <1>1, EmptySeq DEF Good
  <2> QED
    BY <2>1, <2>2 DEF InstanceOk
<1>8. CASE Break(i)
  <2>1. PICK m \in 0 .. Len(b) : inbox' = [inbox EXCEPT ![i] = SubSeq(@, 1, m)]
    BY <1>8 DEF Break
  <2>2. /\ UNCHANGED <<log, offered>> /\ sub'[i] = "broken"
        /\ inbox'[i] = SubSeq(b, 1, m)
    BY <1>8, <2>1 DEF Break, busVars, TypeOK
  <2>3. Good(o, SubSeq(b, 1, m), l)
    BY <1>1, CutOff
  <2> QED
    BY <2>2, <2>3 DEF InstanceOk
<1>9. CASE DropFull(i)
  <2>1. /\ UNCHANGED <<log, sub, offered>> /\ sub[i] = "on"
        /\ inbox'[i] = Without(b, ChanSize)
        /\ since'[i] = IF b[ChanSize + 1] > since[i] THEN b[ChanSize + 1]
                                                     ELSE since[i]
    BY <1>9 DEF DropFull, busVars, TypeOK, Without
  <2>2. ChanSize \in Nat /\ ChanSize < Len(b) /\ b[ChanSize + 1] \in Nat
    <3>1. Len(b) \in Nat /\ \A j \in 1 .. Len(b) : b[j] \in Nat
      BY <1>1, LenProperties
    <3> QED
      BY <3>1, <1>9, BusAssumption DEF DropFull
  <2>3. /\ since'[i] \in Nat /\ since'[i] >= since[i]
        /\ since'[i] >= b[ChanSize + 1]
    <3>1. \A y, z \in Nat : LET w == IF y > z THEN y ELSE z
                            IN  w \in Nat /\ w >= z /\ w >= y
      OBVIOUS
    <3>2. since[i] \in Nat
      BY <1>1
    <3> QED
      BY <2>1, <2>2, <3>1, <3>2
  <2>4. PICK q \in Nat : q = since'[i]
    BY <2>3
  <2>5. /\ Good(o, Without(b, ChanSize), l)
        /\ Covers(o, b, since[i], l, g) => Covers(o, Without(b, ChanSize), q, l, g)
    BY <1>1, <2>2, <2>3, <2>4, DropOut
  <2>6. UNCHANGED NoEvents
    BY <2>1 DEF NoEvents
  <2> QED
    BY <1>1, <2>1, <2>4, <2>5, <2>6 DEF InstanceOk
<1>10. CASE UNCHANGED vars
  BY <1>2, <1>10 DEF vars, busVars
<1>11. ASSUME NEW p \in Publishers, Publish(p)
       PROVE  InstanceOk(i)'
  BY <1>2, <1>11 DEF Publish, AttemptFails, Broadcast, Retry, Answered, GiveUp
<1>12. ASSUME (\E x \in wire : Execute(x)) \/ ExecuteGarbage
       PROVE  InstanceOk(i)'
  BY <1>3, <1>12 DEF Execute, ExecuteGarbage, TypeOK
<1>13. ASSUME NEW k \in Instances, Receive(k)
       PROVE  InstanceOk(i)'
  BY <1>4, <1>5, <1>6, <1>7, <1>8, <1>9, <1>13 DEF Receive
<1> QED
  BY <1>10, <1>11, <1>12, <1>13 DEF Next

\* SubInv holds in every reachable state.
LEMMA SubInvariance == Spec => []SubInv
<1>1. Init => SubInv
  BY EmptySeq DEF Init, SubInv, PositionsIncrease, NoUnexplainedGap
<1>2. TypeOK /\ TypeOK' /\ SubInv /\ [Next]_vars => SubInv'
  BY SubStep
<1> QED
  BY <1>1, <1>2, TypeCorrect, PTL DEF Spec

\* Any two hubs are offered the messages that reach both in the same order, and
\* no hub is offered a message twice, whatever is lost or dropped.
THEOREM BusOrder == Spec => []OneOrder
<1>1. TypeOK /\ SubInv => OneOrder
  <2> SUFFICES ASSUME TypeOK, PositionsIncrease,
                      NEW i \in Instances, NEW k \in Instances,
                      NEW a \in 1 .. Len(offered[i]), NEW b \in 1 .. Len(offered[i]),
                      NEW c \in 1 .. Len(offered[k]), NEW d \in 1 .. Len(offered[k]),
                      offered[i][a] = offered[k][c], offered[i][b] = offered[k][d]
               PROVE  a < b <=> c < d
    BY DEF OneOrder, SubInv
  <2>1. /\ offered[i][a] \in Nat /\ offered[i][b] \in Nat
        /\ a \in Int /\ b \in Int /\ c \in Int /\ d \in Int
    <3>1. offered[i] \in Seq(Nat) /\ offered[k] \in Seq(Nat)
      BY DEF TypeOK
    <3>2. Len(offered[i]) \in Nat /\ Len(offered[k]) \in Nat
      BY <3>1, LenProperties
    <3>3. offered[i][a] \in Nat /\ offered[i][b] \in Nat
      BY <3>1, ElementOfSeq
    <3>4. \A n \in Nat : \A j \in 1 .. n : j \in Int
      OBVIOUS
    <3> QED
      BY <3>2, <3>3, <3>4
  <2>2. /\ a < b => offered[i][a] < offered[i][b]
        /\ b < a => offered[i][b] < offered[i][a]
        /\ c < d => offered[k][c] < offered[k][d]
        /\ d < c => offered[k][d] < offered[k][c]
    BY DEF PositionsIncrease
  <2>3. ASSUME NEW u \in Nat, NEW v \in Nat, NEW m \in Int, NEW n \in Int,
               m < n => u < v, n < m => v < u, m = n => u = v
        PROVE  m < n <=> u < v
    BY <2>3
  <2>4. a < b <=> offered[i][a] < offered[i][b]
    BY <2>1, <2>2, <2>3
  <2>5. c < d <=> offered[k][c] < offered[k][d]
    BY <2>1, <2>2, <2>3
  <2> QED
    BY <2>4, <2>5
<1> QED
  BY <1>1, SubInvariance, TypeCorrect, PTL

\* A subscription that stands misses nothing.
THEOREM GapsAreOutages == Spec => []NoUnexplainedGap
<1>1. SubInv => NoUnexplainedGap
  BY DEF SubInv
<1> QED
  BY <1>1, SubInvariance, PTL

-----------------------------------------------------------------------------
\* The publishers' side.
PubInv == AttemptsAreSpent /\ AnsweredOnceInOrder

\* What is where after a message has been delivered.
LEMMA DeliverLog ==
  ASSUME TypeOK, NEW x \in Attempts \union {Garbage}, Deliver(x)
  PROVE  /\ Len(log) \in Nat /\ Len(log') = Len(log) + 1
         /\ \A j \in 1 .. Len(log) : log'[j] = log[j]
         /\ log'[Len(log) + 1] = x
         /\ \A y : Has(log', y) <=> (Has(log, y) \/ y = x)
<1>1. /\ Len(log) \in Nat /\ Len(log') = Len(log) + 1
      /\ \A j \in 1 .. Len(log) : log'[j] = log[j]
      /\ log'[Len(log) + 1] = x
  BY AppendProperties, LenProperties DEF Deliver, TypeOK
<1>2. /\ \A j \in 1 .. Len(log') : j \in 1 .. Len(log) \/ j = Len(log) + 1
      /\ \A j \in 1 .. Len(log) : j \in 1 .. Len(log')
      /\ Len(log) + 1 \in 1 .. Len(log')
  BY <1>1
<1>3. \A y : Has(log', y) <=> (Has(log, y) \/ y = x)
  BY <1>1, <1>2 DEF Has
<1> QED
  BY <1>1, <1>3

\* What is where before a step of a publisher.
LEMMA Bounds ==
  ASSUME TypeOK
  PROVE  /\ \A x \in Attempts : /\ x.p \in Publishers
                                /\ x.n \in Nat /\ x.k \in Nat /\ x.k >= 1
         /\ \A p \in Publishers : pub[p].n \in Nat /\ pub[p].k \in Nat
         /\ \A e \in answered : /\ e[1] \in Publishers /\ e[2] \in Nat
                                /\ e = <<e[1], e[2]>>
         /\ \A j \in 1 .. Len(log) : log[j] \in Attempts \union {Garbage}
         /\ Garbage \notin Attempts /\ Garbage.p \notin Publishers
<1>1. \A j \in 1 .. Len(log) : log[j] \in Attempts \union {Garbage}
  BY LenProperties DEF TypeOK
<1>5. Garbage \notin Attempts /\ Garbage.p \notin Publishers
  BY BusAssumption DEF Garbage, Attempts
<1>2. \A x \in Attempts : /\ x.p \in Publishers
                          /\ x.n \in Nat /\ x.k \in Nat /\ x.k >= 1
  BY DEF Attempts
<1>3. \A p \in Publishers : pub[p].n \in Nat /\ pub[p].k \in Nat
  BY BusAssumption DEF TypeOK
<1>4. \A e \in answered : /\ e[1] \in Publishers /\ e[2] \in Nat
                          /\ e = <<e[1], e[2]>>
  BY DEF TypeOK
<1> QED
  BY <1>1, <1>2, <1>3, <1>4, <1>5

\* A new attempt y of p.
LEMMA NewAttempt ==
  ASSUME TypeOK, PubInv, NEW p \in Publishers, NEW y \in Attempts, y.p = p,
         UNCHANGED <<log, answered>>, wire' = wire \union {y},
         \A q \in Publishers : q # p => pub'[q] = pub[q],
         pub'[p].n = y.n, pub'[p].k = y.k,
         <<p, y.n>> \notin answered,
         y.n > pub[p].n \/ (y.n = pub[p].n /\ y.k > pub[p].k)
  PROVE  PubInv'
<1> USE DEF PubInv
<1>1. y \notin wire /\ ~Has(log, y)
  BY Bounds DEF AttemptsAreSpent
<1>2. ASSUME NEW x \in Attempts, x \in wire' \/ Has(log', x)
      PROVE  x.n <= pub'[x.p].n /\ (x.n = pub'[x.p].n => x.k <= pub'[x.p].k)
  <2>1. CASE x = y
    BY <2>1, Bounds
  <2>2. CASE x # y
    <3>1. /\ x.n <= pub[x.p].n
          /\ x.n = pub[x.p].n => x.k <= pub[x.p].k
      BY <1>2, <2>2 DEF AttemptsAreSpent, Has
    <3>2. CASE x.p # p
      BY <3>1, <3>2, Bounds
    <3>3. CASE x.p = p
      BY <3>1, <3>3, Bounds
    <3> QED
      BY <3>2, <3>3
  <2> QED
    BY <2>1, <2>2
<1>3. ASSUME NEW e \in answered'
      PROVE  /\ e[2] <= pub'[e[1]].n
             /\ e[2] = pub'[e[1]].n => pub'[e[1]].pc = "idle"
  <2>1. /\ e \in answered /\ e[2] <= pub[e[1]].n
        /\ e[2] = pub[e[1]].n => pub[e[1]].pc = "idle"
    BY <1>3 DEF AttemptsAreSpent
  <2>2. CASE e[1] # p
    BY <2>1, <2>2, Bounds
  <2>3. CASE e[1] = p
    <3>1. e[2] # y.n
      BY <2>1, <2>3, Bounds
    <3> QED
      BY <2>1, <2>3, <3>1, Bounds
  <2> QED
    BY <2>2, <2>3
<1>4. \A x \in wire' : <<x.p, x.n>> \notin answered'
  BY DEF AttemptsAreSpent
<1>5. \A x \in Attempts : ~(x \in wire' /\ Has(log', x))
  BY <1>1 DEF AttemptsAreSpent
<1>6. \A j, m \in 1 .. Len(log') : log'[j] = log'[m] /\ log'[j] # Garbage => j = m
  BY DEF AttemptsAreSpent
<1>7. AnsweredOnceInOrder'
  BY DEF AnsweredOnceInOrder
<1> QED
  BY <1>2, <1>3, <1>4, <1>5, <1>6, <1>7 DEF AttemptsAreSpent

\* The answer to the only attempt at an event: the event is nowhere else.
LEMMA AnswerStep ==
  ASSUME TypeOK, PubInv, NEW p \in Publishers, Answered(p)
  PROVE  PubInv'
<1> USE DEF PubInv
<1> DEFINE x == Attempt(p)
           e == <<p, pub[p].n>>
<1>1. /\ UNCHANGED <<wire, log>> /\ Has(log, x) /\ pub[p].pc = "sent"
      /\ answered' = IF pub[p].k = 1 THEN answered \union {e} ELSE answered
      /\ \A q \in Publishers : pub'[q].n = pub[q].n /\ pub'[q].k = pub[q].k
      /\ \A q \in Publishers : pub'[q].pc = IF q = p THEN "idle" ELSE pub[q].pc
  BY DEF Answered, TypeOK
<1>2. x \in Attempts /\ x.p = p /\ x.n = pub[p].n /\ x.k = pub[p].k
  BY <1>1 DEF Attempt, Attempts, TypeOK
<1>3. ASSUME pub[p].k = 1, NEW y \in Attempts, y.p = p, y.n = pub[p].n,
             y \in wire \/ Has(log, y)
      PROVE  y = x
  <2>1. y.k <= pub[y.p].k
    BY <1>3 DEF AttemptsAreSpent
  <2>2. y.k = 1
    BY <1>3, <2>1, Bounds
  <2> QED
    BY <1>2, <1>3, <2>2 DEF Attempts
<1> HIDE DEF x
<1>4. ASSUME pub[p].k = 1
      PROVE  \E j \in 1 .. Len(log) :
               log[j].p = e[1] /\ log[j].n = e[2] /\ OnlyAt(log, j, e)
  <2>1. PICK j \in 1 .. Len(log) : log[j] = x
    BY <1>1 DEF Has
  <2>2. ASSUME NEW m \in 1 .. Len(log), log[m].p = p
        PROVE  /\ log[m].n = pub[p].n => m = j
               /\ ~(log[m].n > pub[p].n)
    <3>1. Has(log, log[m]) /\ log[m] \in Attempts
      BY <2>2, Bounds DEF Has
    <3>2. log[m].n <= pub[p].n
      BY <2>2, <3>1 DEF AttemptsAreSpent
    <3>3. log[m].n = pub[p].n => log[m] = log[j]
      BY <1>3, <1>4, <2>1, <2>2, <3>1
    <3> QED
      BY <3>1, <3>2, <3>3, Bounds DEF AttemptsAreSpent
  <2>3. OnlyAt(log, j, e)
    BY <2>2 DEF OnlyAt
  <2> QED
    BY <1>2, <2>1, <2>3
<1>5. AnsweredOnceInOrder'
  <2>1. ASSUME NEW f \in answered'
        PROVE  \E j \in 1 .. Len(log) :
                 log[j].p = f[1] /\ log[j].n = f[2] /\ OnlyAt(log, j, f)
    <3>1. f \in answered \/ (pub[p].k = 1 /\ f = e)
      BY <1>1
    <3> QED
      BY <1>4, <3>1 DEF AnsweredOnceInOrder
  <2> QED
    BY <1>1, <2>1 DEF AnsweredOnceInOrder
<1>6. ASSUME NEW y \in wire', <<y.p, y.n>> \in answered'
      PROVE  FALSE
  <2>1. y \in wire /\ y \in Attempts /\ <<y.p, y.n>> \notin answered
    BY <1>1, <1>6 DEF AttemptsAreSpent, TypeOK
  <2>2. pub[p].k = 1 /\ y.p = p /\ y.n = pub[p].n
    BY <1>1, <1>6, <2>1
  <2>3. y = x
    BY <1>3, <2>1, <2>2
  <2> QED
    BY <1>1, <2>1, <2>3 DEF AttemptsAreSpent
<1>7. ASSUME NEW f \in answered'
      PROVE  /\ f[2] <= pub'[f[1]].n
             /\ f[2] = pub'[f[1]].n => pub'[f[1]].pc = "idle"
  <2>1. CASE f \in answered
    BY <1>1, <2>1, Bounds DEF AttemptsAreSpent
  <2>2. CASE f = e
    BY <1>1, <2>2, Bounds
  <2> QED
    BY <1>1, <2>1, <2>2
<1>8. \A y \in Attempts : y \in wire' \/ Has(log', y) =>
        y.n <= pub'[y.p].n /\ (y.n = pub'[y.p].n => y.k <= pub'[y.p].k)
  BY <1>1, Bounds DEF AttemptsAreSpent
<1>9. /\ \A j, m \in 1 .. Len(log') : log'[j] = log'[m] /\ log'[j] # Garbage => j = m
      /\ \A y \in Attempts : ~(y \in wire' /\ Has(log', y))
  BY <1>1 DEF AttemptsAreSpent
<1> QED
  BY <1>5, <1>6, <1>7, <1>8, <1>9 DEF AttemptsAreSpent

\* Redis executes an attempt, which is not one of an answered event, or delivers
\* what is no event.
LEMMA ExecuteStep ==
  ASSUME TypeOK, PubInv, NEW x \in Attempts \union {Garbage}, Deliver(x),
         x \in wire \/ x = Garbage, wire' = wire \ {x}, UNCHANGED <<pub, answered>>
  PROVE  PubInv'
<1> USE DEF PubInv
<1>1. \A e \in answered : ~(x.p = e[1] /\ x.n = e[2])
  BY Bounds DEF AttemptsAreSpent
<1>8. x # Garbage => x \in wire /\ ~Has(log, x)
  BY DEF AttemptsAreSpent
<1>2. \A j \in 1 .. Len(log') : \/ j \in 1 .. Len(log) /\ log'[j] = log[j]
                                \/ j = Len(log) + 1 /\ log'[j] = x
  BY DeliverLog
<1>3. ASSUME NEW e \in answered'
      PROVE  \E j \in 1 .. Len(log') :
               log'[j].p = e[1] /\ log'[j].n = e[2] /\ OnlyAt(log', j, e)
  <2>1. e \in answered /\ ~(x.p = e[1] /\ x.n = e[2])
    BY <1>1, <1>3
  <2>2. PICK j \in 1 .. Len(log) :
          log[j].p = e[1] /\ log[j].n = e[2] /\ OnlyAt(log, j, e)
    BY <2>1 DEF AnsweredOnceInOrder
  <2>3. j \in 1 .. Len(log') /\ log'[j] = log[j] /\ j < Len(log) + 1
    BY DeliverLog
  <2>4. OnlyAt(log', j, e)
    BY <1>2, <2>1, <2>2, <2>3 DEF OnlyAt
  <2> QED
    BY <2>2, <2>3, <2>4
<1>4. \A j, m \in 1 .. Len(log') : log'[j] = log'[m] /\ log'[j] # Garbage => j = m
  BY <1>2, <1>8 DEF AttemptsAreSpent, Has
<1>5. /\ \A y \in Attempts : ~(y \in wire' /\ Has(log', y))
      /\ \A y \in wire' : <<y.p, y.n>> \notin answered'
  BY DeliverLog, Bounds DEF AttemptsAreSpent
<1>6. \A y \in Attempts : y \in wire' \/ Has(log', y) =>
        y.n <= pub'[y.p].n /\ (y.n = pub'[y.p].n => y.k <= pub'[y.p].k)
  BY <1>8, DeliverLog, Bounds DEF AttemptsAreSpent
<1>7. \A e \in answered' : /\ e[2] <= pub'[e[1]].n
                           /\ e[2] = pub'[e[1]].n => pub'[e[1]].pc = "idle"
  BY DEF AttemptsAreSpent
<1> QED
  BY <1>3, <1>4, <1>5, <1>6, <1>7 DEF AttemptsAreSpent, AnsweredOnceInOrder

\* Every step preserves PubInv.
LEMMA PubStep == TypeOK /\ PubInv /\ [Next]_vars => PubInv'
<1> SUFFICES ASSUME TypeOK, PubInv, [Next]_vars PROVE PubInv'
    OBVIOUS
<1>1. CASE UNCHANGED busVars
  BY <1>1 DEF busVars, PubInv, AttemptsAreSpent, AnsweredOnceInOrder
<1>2. ASSUME NEW p \in Publishers, Broadcast(p)
      PROVE  PubInv'
  <2> DEFINE y == [p |-> p, n |-> pub[p].n + 1, k |-> 1]
  <2>1. y \in Attempts /\ y.p = p /\ y.n = pub[p].n + 1 /\ y.k = 1
    BY <1>2, Bounds, BusAssumption DEF Broadcast, Attempts
  <2>2. /\ UNCHANGED <<log, answered>> /\ wire' = wire \union {y}
        /\ \A q \in Publishers : q # p => pub'[q] = pub[q]
        /\ pub'[p].n = y.n /\ pub'[p].k = y.k
    BY <1>2 DEF Broadcast, TypeOK
  <2>3. <<p, y.n>> \notin answered /\ y.n > pub[p].n
    BY <2>1, Bounds DEF PubInv, AttemptsAreSpent
  <2> QED
    BY <2>1, <2>2, <2>3, NewAttempt
<1>3. ASSUME NEW p \in Publishers, Retry(p)
      PROVE  PubInv'
  <2> DEFINE y == [p |-> p, n |-> pub[p].n, k |-> pub[p].k + 1]
  <2>1. y \in Attempts /\ y.p = p /\ y.n = pub[p].n /\ y.k = pub[p].k + 1
    BY <1>3, BusAssumption DEF Retry, Attempts, TypeOK
  <2>2. /\ UNCHANGED <<log, answered>> /\ wire' = wire \union {y}
        /\ \A q \in Publishers : q # p => pub'[q] = pub[q]
        /\ pub'[p].n = y.n /\ pub'[p].k = y.k
    BY <1>3 DEF Retry, TypeOK
  <2>3. <<p, y.n>> \notin answered
    BY <1>3, <2>1 DEF PubInv, AttemptsAreSpent, Retry
  <2>4. y.k > pub[p].k
    BY <2>1, Bounds
  <2> QED
    BY <2>1, <2>2, <2>3, <2>4, NewAttempt
<1>4. ASSUME NEW p \in Publishers, GiveUp(p)
      PROVE  PubInv'
  <2>1. /\ UNCHANGED <<wire, log, answered>>
        /\ \A q \in Publishers : pub'[q].n = pub[q].n /\ pub'[q].k = pub[q].k
        /\ \A q \in Publishers : pub'[q].pc = IF q = p THEN "idle" ELSE pub[q].pc
    BY <1>4 DEF GiveUp, TypeOK
  <2>2. AttemptsAreSpent'
    BY <2>1, Bounds DEF PubInv, AttemptsAreSpent
  <2> QED
    BY <2>1, <2>2 DEF PubInv, AnsweredOnceInOrder
<1>5. ASSUME (\E x \in wire : Execute(x)) \/ ExecuteGarbage
      PROVE  PubInv'
  <2>1. ASSUME NEW x \in wire, Execute(x)
        PROVE  PubInv'
    <3>1. x \in Attempts /\ Deliver(x) /\ wire' = wire \ {x} /\ UNCHANGED <<pub, answered>>
      BY <2>1 DEF Execute, TypeOK
    <3> QED
      BY <3>1, ExecuteStep
  <2>2. CASE ExecuteGarbage
    <3>1. Deliver(Garbage) /\ UNCHANGED <<pub, answered>>
      BY <2>2 DEF ExecuteGarbage
    <3>2. wire' = wire \ {Garbage}
      BY <2>2, Bounds DEF ExecuteGarbage, TypeOK
    <3> QED
      BY <3>1, <3>2, ExecuteStep
  <2> QED
    BY <1>5, <2>1, <2>2
<1>6. ASSUME NEW i \in Instances, Receive(i)
      PROVE  UNCHANGED busVars
  BY <1>6 DEF Receive, SubscribeOk, SubscribeFails, Handle, Cancel, Break,
              Resubscribe, DropFull
<1>7. CASE UNCHANGED vars
  BY <1>1, <1>7 DEF vars
<1>8. ASSUME NEW p \in Publishers, Publish(p)
      PROVE  PubInv'
  BY <1>2, <1>3, <1>4, <1>8, AnswerStep DEF Publish, AttemptFails
<1> QED
  BY <1>1, <1>5, <1>6, <1>7, <1>8 DEF Next

\* An event whose first attempt was answered is on the bus exactly once, and
\* before everything its publisher has sent later.
THEOREM AnsweredInOrder == Spec => []AnsweredOnceInOrder
<1>1. Init => PubInv
  BY EmptySeq DEF Init, PubInv, AttemptsAreSpent, AnsweredOnceInOrder, Has
<1>2. PubInv => AnsweredOnceInOrder
  BY DEF PubInv
<1> QED
  BY <1>1, <1>2, PubStep, TypeCorrect, PTL DEF Spec
=============================================================================
