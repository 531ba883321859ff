----------------------------- MODULE HubProofs -----------------------------
(***************************************************************************)
(* Machine-checked proofs about Hub, for any publishers, any handlers, any *)
(* buffer size and any bound on the number of events.                      *)
(***************************************************************************)
EXTENDS Hub, SequenceFacts, TLAPS

(* Subscribe makes a channel that holds at least one event.                *)
LEMMA BufferPositive == BufferSize \in Nat \ {0}
BY HubAssumption DEF BufferSize

-----------------------------------------------------------------------------
(* Type correctness needs the counters: a sending publisher has numbered   *)
(* the event it sends.                                                     *)
LEMMA TypeInit == Init => TypeOK /\ PublisherCounts
<1> SUFFICES ASSUME Init PROVE TypeOK /\ PublisherCounts
  OBVIOUS
<1>1. <<>> \in Seq(Events) /\ Len(<<>>) = 0
  BY EmptySeq
<1>2. /\ buffer \in [Handlers -> Seq(Events)]
      /\ inhand \in [Handlers -> Seq(Events)]
      /\ written \in [Handlers -> Seq(Events)]
      /\ \A h \in Handlers : Len(buffer[h]) <= BufferSize
  BY <1>1, BufferPositive DEF Init
<1>3. /\ sent \in [Publishers -> Nat]
      /\ joined \in [Handlers -> [Publishers -> Nat]]
  BY HubAssumption DEF Init
<1> QED BY <1>2, <1>3 DEF Init, TypeOK, HandlerStates, PublisherCounts

(* Handing the lock on keeps its state well typed.                         *)
LEMMA UnlockType ==
  ASSUME TypeOK, PublisherCounts, NEW subs \in SUBSET Handlers, Unlock(subs)
  PROVE  /\ subscribers' \in SUBSET Handlers
         /\ writer' \in Handlers \union {NoWriter}
         /\ pub' \in [Publishers -> {"idle", "queued", "sending"}]
         /\ todo' \in [Publishers -> SUBSET Handlers]
         /\ sent' \in [Publishers -> Nat]
         /\ PublisherCounts'
BY HubAssumption DEF TypeOK, Unlock, PublisherCounts

(* Every step keeps the state well typed and the counters in line.         *)
LEMMA TypeStep ==
  TypeOK /\ PublisherCounts /\ [Next]_vars => TypeOK' /\ PublisherCounts'
<1> SUFFICES ASSUME TypeOK, PublisherCounts, [Next]_vars
             PROVE  TypeOK' /\ PublisherCounts'
  OBVIOUS
<1> DEFINE Goal == TypeOK' /\ PublisherCounts'
<1> USE HubAssumption, BufferPositive
    DEF TypeOK, PublisherCounts, HandlerStates, lockVars, historyVars
<1>1. ASSUME NEW p \in Publishers, Broadcast(p) PROVE Goal
  <2>1. UNCHANGED <<subscribers, writer, buffer, handler, inhand, reader,
                    connected, written, dropped, joined>>
        /\ pub[p] = "idle"
    BY <1>1 DEF Broadcast
  <2>2. CASE writer = NoWriter
    <3>1. /\ pub' = [pub EXCEPT ![p] = "sending"]
          /\ todo' = [todo EXCEPT ![p] = subscribers]
          /\ sent' = [sent EXCEPT ![p] = @ + 1]
      BY <1>1, <2>2 DEF Broadcast
    <3> QED BY <2>1, <3>1
  <2>3. CASE writer # NoWriter
    <3>1. pub' = [pub EXCEPT ![p] = "queued"] /\ UNCHANGED <<todo, sent>>
      BY <1>1, <2>3 DEF Broadcast
    <3> QED BY <2>1, <3>1
  <2> QED BY <2>2, <2>3
<1>2. ASSUME NEW p \in Publishers, NEW h \in Handlers, Send(p, h) PROVE Goal
  <2>1. Current(p) \in Events
    BY <1>2 DEF Send, Current, Events
  <2>2. /\ buffer' \in [Handlers -> Seq(Events)]
        /\ \A c \in Handlers : Len(buffer'[c]) <= BufferSize
        /\ dropped' \in [Handlers -> SUBSET Events]
    <3>1. CASE Len(buffer[h]) < BufferSize
      <4>1. /\ Append(buffer[h], Current(p)) \in Seq(Events)
            /\ Len(Append(buffer[h], Current(p))) = Len(buffer[h]) + 1
            /\ Len(buffer[h]) \in Nat
        BY <2>1, AppendProperties, LenProperties
      <4>2. buffer' = [buffer EXCEPT ![h] = Append(buffer[h], Current(p))]
            /\ dropped' = dropped
        BY <1>2, <3>1 DEF Send
      <4> QED BY <3>1, <4>1, <4>2
    <3>2. CASE ~(Len(buffer[h]) < BufferSize)
      <4>1. dropped' = [dropped EXCEPT ![h] = @ \union {Current(p)}]
            /\ buffer' = buffer
        BY <1>2, <3>2 DEF Send
      <4> QED BY <4>1, <2>1
    <3> QED BY <3>1, <3>2
  <2> QED BY <1>2, <2>2 DEF Send
<1>3. ASSUME NEW p \in Publishers, BroadcastReturn(p) PROVE Goal
  BY <1>3 DEF BroadcastReturn
<1>4. ASSUME NEW h \in Handlers, Connect(h) PROVE Goal
  BY <1>4 DEF Connect
<1>5. ASSUME NEW h \in Handlers, Announce(h) PROVE Goal
  BY <1>5 DEF Announce
<1>6. ASSUME NEW h \in Handlers, Subscribe(h) PROVE Goal
  <2>1. subscribers \union {h} \in SUBSET Handlers
    OBVIOUS
  <2>2. Unlock(subscribers \union {h})
    BY <1>6 DEF Subscribe
  <2> QED BY <1>6, <2>1, <2>2, UnlockType DEF Subscribe
<1>7. ASSUME NEW h \in Handlers, TakeEvent(h) PROVE Goal
  <2>1. /\ Head(buffer[h]) \in Events
        /\ Tail(buffer[h]) \in Seq(Events)
        /\ Len(Tail(buffer[h])) = Len(buffer[h]) - 1
        /\ Len(buffer[h]) \in Nat
    BY <1>7, HeadTailProperties, LenProperties DEF TakeEvent
  <2> QED BY <1>7, <2>1 DEF TakeEvent
<1>8. ASSUME NEW h \in Handlers, WriteDone(h) PROVE Goal
  <2>1. written[h] \o inhand[h] \in Seq(Events)
    BY ConcatProperties
  <2> QED BY <1>8, <2>1 DEF WriteDone
<1>9. ASSUME NEW h \in Handlers, WriteFail(h) PROVE Goal
  BY <1>9 DEF WriteFail
<1>10. ASSUME NEW h \in Handlers, SeeClosed(h) PROVE Goal
  BY <1>10 DEF SeeClosed
<1>11. ASSUME NEW h \in Handlers, Unsubscribe(h) PROVE Goal
  <2>1. subscribers \ {h} \in SUBSET Handlers
    OBVIOUS
  <2>2. Unlock(subscribers \ {h})
    BY <1>11 DEF Unsubscribe
  <2> QED BY <1>11, <2>1, <2>2, UnlockType DEF Unsubscribe
<1>12. ASSUME NEW h \in Handlers, CloseConn(h) PROVE Goal
  BY <1>12 DEF CloseConn
<1>13. ASSUME NEW h \in Handlers, ReaderEnds(h) PROVE Goal
  BY <1>13 DEF ReaderEnds
<1>14. ASSUME NEW h \in Handlers, Disconnect(h) PROVE Goal
  BY <1>14 DEF Disconnect
<1>15. ASSUME UNCHANGED vars PROVE Goal
  BY <1>15 DEF vars
<1> HIDE DEF Goal
<1>16. Goal
  BY <1>1, <1>2, <1>3, <1>4, <1>5, <1>6, <1>7, <1>8, <1>9, <1>10, <1>11,
     <1>12, <1>13, <1>14, <1>15, Zenon
  DEF Next, PublisherStep, LockStep, HandlerStep, WriteStep
<1> QED BY <1>16 DEF Goal

(* Every reachable state of the hub is well typed and no channel holds     *)
(* more than its buffer (TypeOK).                                          *)
THEOREM TypeCorrect == Spec => []TypeOK
<1>1. Spec => [](TypeOK /\ PublisherCounts)
  BY TypeInit, TypeStep, PTL DEF Spec
<1> QED BY <1>1, PTL

-----------------------------------------------------------------------------
(* The lock keeps Unsubscribe, which closes a channel, out of every        *)
(* Broadcast: no publisher ever sends on a closed channel                  *)
(* (SendsOnlyToOpenChannels).                                              *)
THEOREM NoSendOnClosedChannel == Spec => []SendsOnlyToOpenChannels
<1>1. Init => SendsOnlyToOpenChannels
  BY DEF Init, SendsOnlyToOpenChannels
<1>2. TypeOK /\ SendsOnlyToOpenChannels /\ [Next]_vars => SendsOnlyToOpenChannels'
  <2> SUFFICES ASSUME TypeOK, SendsOnlyToOpenChannels, [Next]_vars
               PROVE  SendsOnlyToOpenChannels'
    OBVIOUS
  <2> USE DEF TypeOK, SendsOnlyToOpenChannels, lockVars
  <2>1. ASSUME NEW p \in Publishers, Broadcast(p) PROVE SendsOnlyToOpenChannels'
    BY <2>1 DEF Broadcast
  <2>2. ASSUME NEW p \in Publishers, NEW h \in Handlers, Send(p, h)
        PROVE  SendsOnlyToOpenChannels'
    BY <2>2 DEF Send
  <2>3. ASSUME NEW p \in Publishers, BroadcastReturn(p)
        PROVE  SendsOnlyToOpenChannels'
    BY <2>3 DEF BroadcastReturn
  <2>4. ASSUME NEW h \in Handlers, NEW subs, WriteLocked(h), Unlock(subs)
        PROVE  SendsOnlyToOpenChannels'
    BY <2>4 DEF WriteLocked, NoReaders, Unlock
  <2>5. ASSUME NEW h \in Handlers, Subscribe(h) \/ Unsubscribe(h)
        PROVE  SendsOnlyToOpenChannels'
    BY <2>4, <2>5 DEF Subscribe, Unsubscribe
  <2>6. CASE UNCHANGED <<subscribers, pub, todo>>
    BY <2>6
  <2> QED
    BY <2>1, <2>2, <2>3, <2>5, <2>6
    DEF Next, PublisherStep, LockStep, HandlerStep, WriteStep, Connect,
        Announce, TakeEvent, WriteDone, WriteFail, SeeClosed, CloseConn,
        ReaderEnds, Disconnect, vars
<1> QED BY <1>1, <1>2, TypeCorrect, PTL DEF Spec

-----------------------------------------------------------------------------
(* The order of the events a client sees.                                  *)

Ordered(r) ==
  \A i, k \in 1 .. Len(r) :
    (i < k /\ r[i].from = r[k].from) => r[i].seq < r[k].seq

(* A handler takes hold of an event and lets go of it in the same two      *)
(* states of its loop.                                                     *)
LEMMA InHandStep ==
  TypeOK /\ InHandWhileWriting /\ [Next]_vars => InHandWhileWriting'
<1> SUFFICES ASSUME TypeOK, InHandWhileWriting, [Next]_vars
             PROVE  InHandWhileWriting'
  OBVIOUS
<1>1. handler \in [Handlers -> HandlerStates] /\ inhand \in [Handlers -> Seq(Events)]
  BY DEF TypeOK
<1>2. ASSUME NEW h \in Handlers, TakeEvent(h) PROVE InHandWhileWriting'
  BY <1>1, <1>2 DEF TakeEvent, InHandWhileWriting
<1>3. ASSUME NEW h \in Handlers, WriteDone(h) \/ WriteFail(h)
      PROVE  InHandWhileWriting'
  BY <1>1, <1>3 DEF WriteDone, WriteFail, InHandWhileWriting
<1>4. ASSUME NEW h \in Handlers, UNCHANGED inhand, handler[h] # "writing",
             NEW pc, pc # "writing", handler' = [handler EXCEPT ![h] = pc]
      PROVE  InHandWhileWriting'
  BY <1>1, <1>4 DEF InHandWhileWriting
<1>5. ASSUME NEW h \in Handlers,
             Connect(h) \/ Subscribe(h) \/ SeeClosed(h) \/ Unsubscribe(h)
               \/ CloseConn(h)
      PROVE  InHandWhileWriting'
  BY <1>4, <1>5 DEF Connect, Subscribe, SeeClosed, Unsubscribe, CloseConn
<1>6. CASE UNCHANGED <<handler, inhand>>
  BY <1>6 DEF InHandWhileWriting
<1> QED
  BY <1>2, <1>3, <1>5, <1>6
  DEF Next, PublisherStep, LockStep, HandlerStep, WriteStep, Broadcast, Send,
      BroadcastReturn, Announce, ReaderEnds, Disconnect, vars

(* A send that finds room appends the event to what the handler received. *)
LEMMA SendReceived ==
  ASSUME TypeOK, PublisherCounts, NEW p \in Publishers, NEW h \in Handlers,
         Send(p, h), Len(buffer[h]) < BufferSize
  PROVE  Received(h)' = Append(Received(h), Current(p)) /\ dropped' = dropped
<1>1. /\ buffer'[h] = Append(buffer[h], Current(p))
      /\ UNCHANGED <<written, inhand, dropped>>
  BY DEF Send, TypeOK
<1> DEFINE a == written[h] \o inhand[h]
           b == buffer[h]
           e == Current(p)
<1>2. e \in Events
  BY HubAssumption DEF Send, Current, Events, TypeOK, PublisherCounts
<1>3. b \in Seq(Events) /\ written[h] \in Seq(Events) /\ inhand[h] \in Seq(Events)
  BY DEF TypeOK
<1>4. a \in Seq(Events)
  BY <1>3, ConcatProperties
<1> HIDE DEF a, b, e
<1>5. a \o Append(b, e) = Append(a \o b, e)
  BY <1>2, <1>3, <1>4, AppendToConcat
<1> QED BY <1>1, <1>5 DEF Received, a, b, e

(* A step leaves what a handler has received alone, appends the event that *)
(* was on its way to it, or (a failed write) loses the event in hand.      *)
LEMMA ReceivedStep ==
  ASSUME TypeOK, PublisherCounts, InHandWhileWriting, [Next]_vars,
         NEW h \in Handlers
  PROVE  \/ Received(h)' = Received(h)
         \/ \E p \in Publishers :
              /\ Send(p, h)
              /\ Received(h)' = Append(Received(h), Current(p))
         \/ /\ UNCHANGED <<sent, todo>>
            /\ handler'[h] = "lockUnsub"
            /\ Len(Received(h)') = Len(Received(h)) - 1
            /\ \E n \in Nat : \A i \in 1 .. Len(Received(h)') :
                 Received(h)'[i] = Received(h)[IF i <= n THEN i ELSE i + 1]
<1>1. /\ written[h] \in Seq(Events) /\ inhand[h] \in Seq(Events)
      /\ buffer[h] \in Seq(Events)
      /\ written \in [Handlers -> Seq(Events)]
      /\ inhand \in [Handlers -> Seq(Events)]
      /\ buffer \in [Handlers -> Seq(Events)]
      /\ Len(written[h]) \in Nat /\ Len(buffer[h]) \in Nat
      /\ written[h] \o inhand[h] \in Seq(Events)
  BY LenProperties, ConcatProperties DEF TypeOK
<1>2. ASSUME NEW p \in Publishers, NEW c \in Handlers, Send(p, c)
      PROVE  \/ Received(h)' = Received(h)
             \/ Send(p, h) /\ Received(h)' = Append(Received(h), Current(p))
  <2>1. UNCHANGED <<written, inhand>>
    BY <1>2 DEF Send
  <2>2. CASE ~(Len(buffer[c]) < BufferSize)
    BY <1>2, <2>1, <2>2 DEF Send, Received
  <2>3. CASE Len(buffer[c]) < BufferSize /\ c # h
    <3>1. buffer'[h] = buffer[h]
      BY <1>1, <1>2, <2>3 DEF Send
    <3> QED BY <2>1, <3>1 DEF Received
  <2>4. CASE Len(buffer[c]) < BufferSize /\ c = h
    BY <1>2, <2>4, SendReceived
  <2> QED BY <2>2, <2>3, <2>4
<1>3. ASSUME NEW c \in Handlers, TakeEvent(c)
      PROVE  Received(h)' = Received(h)
  <2>1. CASE c # h
    BY <1>1, <1>3, <2>1 DEF TakeEvent, Received, historyVars
  <2>2. CASE c = h
    <3>1. /\ inhand[h] = <<>> /\ buffer[h] # <<>>
          /\ inhand'[h] = <<Head(buffer[h])>> /\ buffer'[h] = Tail(buffer[h])
          /\ written' = written
      BY <1>1, <1>3, <2>2 DEF TakeEvent, InHandWhileWriting, historyVars
    <3>2. Head(buffer[h]) \in Events
      BY <1>1, <3>1, HeadTailProperties
    <3>3. written[h] \o <<Head(buffer[h])>> = Append(written[h], Head(buffer[h]))
      BY <1>1, <3>2, AppendIsConcat
    <3>4. Append(written[h], Head(buffer[h])) \o Tail(buffer[h])
            = written[h] \o buffer[h]
      BY <1>1, <3>1, MoveHead
    <3>5. written[h] \o <<>> = written[h]
      BY <1>1, ConcatEmptySeq
    <3> QED BY <3>1, <3>3, <3>4, <3>5 DEF Received
  <2> QED BY <2>1, <2>2
<1>4. ASSUME NEW c \in Handlers, WriteDone(c)
      PROVE  Received(h)' = Received(h)
  <2>1. CASE c # h
    BY <1>1, <1>4, <2>1 DEF WriteDone, Received
  <2>2. CASE c = h
    <3>1. /\ written'[h] = written[h] \o inhand[h] /\ inhand'[h] = <<>>
          /\ buffer' = buffer
      BY <1>1, <1>4, <2>2 DEF WriteDone
    <3>2. (written[h] \o inhand[h]) \o <<>> = written[h] \o inhand[h]
      BY <1>1, ConcatEmptySeq
    <3> QED BY <3>1, <3>2 DEF Received
  <2> QED BY <2>1, <2>2
<1>5. ASSUME NEW c \in Handlers, WriteFail(c)
      PROVE  \/ Received(h)' = Received(h)
             \/ /\ UNCHANGED <<sent, todo>>
                /\ handler'[h] = "lockUnsub"
                /\ Len(Received(h)') = Len(Received(h)) - 1
                /\ \E n \in Nat : \A i \in 1 .. Len(Received(h)') :
                     Received(h)'[i] = Received(h)[IF i <= n THEN i ELSE i + 1]
  <2>1. CASE c # h
    BY <1>1, <1>5, <2>1 DEF WriteFail, Received, historyVars
  <2>2. CASE c = h
    <3>1. /\ Len(inhand[h]) = 1 /\ inhand'[h] = <<>>
          /\ buffer' = buffer /\ written' = written
          /\ UNCHANGED <<sent, todo>> /\ handler'[h] = "lockUnsub"
      BY <1>1, <1>5, <2>2
      DEF WriteFail, InHandWhileWriting, historyVars, lockVars, TypeOK
    <3>2. Received(h)' = written[h] \o buffer[h]
      <4>1. written[h] \o <<>> = written[h]
        BY <1>1, ConcatEmptySeq
      <4> QED BY <3>1, <4>1 DEF Received
    <3>3. /\ Len(Received(h)) = Len(written[h]) + 1 + Len(buffer[h])
          /\ Len(written[h] \o buffer[h]) = Len(written[h]) + Len(buffer[h])
          /\ \A i \in 1 .. Len(written[h] \o buffer[h]) :
               (written[h] \o buffer[h])[i]
                 = Received(h)[IF i <= Len(written[h]) THEN i ELSE i + 1]
      <4> DEFINE a == written[h]
                 am == written[h] \o inhand[h]
                 b == buffer[h]
      <4>1. /\ Len(am) = Len(a) + 1
            /\ \A i \in 1 .. Len(a) : am[i] = a[i]
        <5>1. /\ Len(am) = Len(a) + Len(inhand[h])
              /\ \A i \in 1 .. Len(a) + Len(inhand[h]) : am[i] =
                   IF i <= Len(a) THEN a[i] ELSE inhand[h][i - Len(a)]
          BY <1>1, ConcatProperties
        <5> QED BY <1>1, <3>1, <5>1
      <4>2. a \in Seq(Events) /\ am \in Seq(Events) /\ b \in Seq(Events)
        BY <1>1
      <4>3. Received(h) = am \o b
        BY DEF Received
      <4> HIDE DEF a, am, b
      <4>4. /\ Len(am \o b) = Len(a) + 1 + Len(b)
            /\ Len(a \o b) = Len(a) + Len(b)
            /\ \A i \in 1 .. Len(a \o b) :
                 (a \o b)[i] = (am \o b)[IF i <= Len(a) THEN i ELSE i + 1]
        BY <4>1, <4>2, DropMiddle, SMTT(60)
      <4>5. /\ Len(Received(h)) = Len(a) + 1 + Len(b)
            /\ \A i \in 1 .. Len(a \o b) :
                 (a \o b)[i] = Received(h)[IF i <= Len(a) THEN i ELSE i + 1]
        BY <4>3, <4>4
      <4> QED BY <4>4, <4>5 DEF a, b
    <3>4. Len(Received(h)') = Len(Received(h)) - 1
      BY <1>1, <3>2, <3>3
    <3> QED BY <1>1, <3>1, <3>2, <3>3, <3>4
  <2> QED BY <2>1, <2>2
<1>6. CASE UNCHANGED <<written, inhand, buffer>>
  BY <1>6 DEF Received
<1> QED
  BY <1>2, <1>3, <1>4, <1>5, <1>6
  DEF Next, PublisherStep, LockStep, HandlerStep, WriteStep, Broadcast,
      BroadcastReturn, Announce, Connect, Subscribe, SeeClosed, Unsubscribe,
      CloseConn, ReaderEnds, Disconnect, vars, historyVars

(* A handler becomes due for an event only when its publisher has just     *)
(* numbered that event.                                                    *)
LEMMA DueStep ==
  ASSUME TypeOK, PublisherCounts, [Next]_vars,
         NEW p \in Publishers, NEW h \in Handlers
  PROVE  /\ sent'[p] >= sent[p]
         /\ h \in todo'[p] => \/ h \in todo[p] /\ sent'[p] = sent[p]
                             \/ sent'[p] = sent[p] + 1
<1>1. /\ sent \in [Publishers -> Nat]
      /\ todo \in [Publishers -> SUBSET Handlers]
      /\ sent[p] \in Int
  BY HubAssumption DEF TypeOK
<1> DEFINE Goal == /\ sent'[p] >= sent[p]
                   /\ h \in todo'[p] => \/ h \in todo[p] /\ sent'[p] = sent[p]
                                       \/ sent'[p] = sent[p] + 1
<1>2. ASSUME NEW q \in Publishers, Broadcast(q) PROVE Goal
  <2>1. CASE writer = NoWriter
    <3>1. /\ todo' = [todo EXCEPT ![q] = subscribers]
          /\ sent' = [sent EXCEPT ![q] = @ + 1]
      BY <1>2, <2>1 DEF Broadcast
    <3> QED BY <1>1, <3>1
  <2>2. CASE writer # NoWriter
    <3>1. todo' = todo /\ sent' = sent
      BY <1>2, <2>2 DEF Broadcast
    <3> QED BY <1>1, <3>1
  <2> QED BY <2>1, <2>2
<1>3. ASSUME NEW q \in Publishers, NEW c \in Handlers, Send(q, c) PROVE Goal
  <2>1. todo' = [todo EXCEPT ![q] = @ \ {c}] /\ sent' = sent
    BY <1>3 DEF Send
  <2> QED BY <1>1, <2>1
<1>4. ASSUME NEW subs, Unlock(subs) PROVE Goal
  BY <1>1, <1>4 DEF Unlock
<1>5. ASSUME NEW c \in Handlers, Subscribe(c) \/ Unsubscribe(c) PROVE Goal
  BY <1>4, <1>5 DEF Subscribe, Unsubscribe
<1>6. ASSUME UNCHANGED <<sent, todo>> PROVE Goal
  BY <1>1, <1>6
<1> HIDE DEF Goal
<1>7. Goal
  BY <1>2, <1>3, <1>5, <1>6
  DEF Next, PublisherStep, LockStep, HandlerStep, WriteStep,
      BroadcastReturn, Announce, Connect, TakeEvent, WriteDone, WriteFail,
      SeeClosed, CloseConn, ReaderEnds, Disconnect, vars, lockVars
<1> QED BY <1>7 DEF Goal

(* One step keeps the order at one handler, and keeps every event it has   *)
(* received no newer than its publisher's count.                           *)
LEMMA OrderStep ==
  ASSUME TypeOK, HubInv, PerPublisherOrder, [Next]_vars, NEW h \in Handlers
  PROVE  /\ Ordered(Received(h))'
         /\ \A i \in 1 .. Len(Received(h)') :
              /\ Received(h)'[i].seq <= sent'[Received(h)'[i].from]
              /\ h \in todo'[Received(h)'[i].from]
                   => Received(h)'[i].seq < sent'[Received(h)'[i].from]
<1> USE DEF HubInv
<1> DEFINE r == Received(h)
           s == Received(h)'
           Fits(e) == /\ e.seq <= sent[e.from]
                      /\ h \in todo[e.from] => e.seq < sent[e.from]
           FitsNext(e) == /\ e.seq <= sent'[e.from]
                          /\ h \in todo'[e.from] => e.seq < sent'[e.from]
<1>1. /\ r \in Seq(Events) /\ Len(r) \in Nat
      /\ \A i \in 1 .. Len(r) : r[i] \in Events
  <2>1. written[h] \in Seq(Events) /\ inhand[h] \in Seq(Events)
        /\ buffer[h] \in Seq(Events)
    BY DEF TypeOK
  <2>2. written[h] \o inhand[h] \in Seq(Events)
    BY <2>1, ConcatProperties
  <2>3. r \in Seq(Events)
    BY <2>1, <2>2, ConcatProperties DEF Received
  <2> QED BY <2>3, LenProperties
<1>2. Ordered(r) /\ \A i \in 1 .. Len(r) : Fits(r[i])
  BY DEF PerPublisherOrder, Ordered, ReceivedUpToSent
<1>3. ASSUME NEW e \in Events, Fits(e) PROVE FitsNext(e)
  <2>1. /\ e.from \in Publishers /\ e.seq \in Int /\ sent[e.from] \in Int
    BY HubAssumption DEF Events, TypeOK
  <2>2. /\ sent'[e.from] >= sent[e.from]
        /\ h \in todo'[e.from] =>
             \/ h \in todo[e.from] /\ sent'[e.from] = sent[e.from]
             \/ sent'[e.from] = sent[e.from] + 1
    BY <2>1, DueStep
  <2>3. sent'[e.from] \in Int
    <3>1. TypeOK'
      BY TypeStep
    <3> QED BY <2>1, <3>1, HubAssumption DEF TypeOK
  <2> QED BY <1>3, <2>1, <2>2, <2>3
<1> HIDE DEF r, s, Fits, FitsNext
<1>4. ASSUME NEW p \in Publishers, Send(p, h), s = Append(r, Current(p))
      PROVE  Ordered(s) /\ \A i \in 1 .. Len(s) : FitsNext(s[i])
  <2> DEFINE e == Current(p)
  <2>1. /\ e \in Events /\ e.from = p /\ e.seq = sent[p] /\ sent[p] \in Int
        /\ h \in todo[p]
    BY <1>4, HubAssumption DEF Send, Current, Events, TypeOK, PublisherCounts
  <2>2. sent' = sent /\ h \notin todo'[p]
    BY <1>4 DEF Send, TypeOK
  <2> HIDE DEF e
  <2>3. /\ Len(s) = Len(r) + 1
        /\ \A i \in 1 .. Len(r) : s[i] = r[i]
        /\ s[Len(r) + 1] = e
    BY <1>1, <1>4, <2>1, AppendProperties DEF e
  <2>4. FitsNext(e)
    BY <2>1, <2>2 DEF FitsNext
  <2>5. \A i \in 1 .. Len(s) : FitsNext(s[i])
    BY <1>1, <1>2, <1>3, <2>3, <2>4
  <2>6. \A i \in 1 .. Len(r) : r[i].from = e.from => r[i].seq < e.seq
    BY <1>2, <2>1 DEF Fits
  <2>7. Ordered(s)
    <3> SUFFICES ASSUME NEW i \in 1 .. Len(s), NEW k \in 1 .. Len(s),
                        i < k, s[i].from = s[k].from
                 PROVE  s[i].seq < s[k].seq
      BY DEF Ordered
    <3>1. i \in 1 .. Len(r)
      BY <1>1, <2>3
    <3>2. CASE k = Len(r) + 1
      BY <2>3, <2>6, <3>1, <3>2
    <3>3. CASE k \in 1 .. Len(r)
      BY <1>2, <2>3, <3>1, <3>3 DEF Ordered
    <3> QED BY <1>1, <2>3, <3>2, <3>3
  <2> QED BY <2>5, <2>7
<1>5. ASSUME Len(s) = Len(r) - 1, NEW n \in Nat,
             \A i \in 1 .. Len(s) : s[i] = r[IF i <= n THEN i ELSE i + 1]
      PROVE  Ordered(s) /\ \A i \in 1 .. Len(s) : FitsNext(s[i])
  <2> DEFINE f(i) == IF i <= n THEN i ELSE i + 1
  <2>1. /\ \A i \in 1 .. Len(s) : f(i) \in 1 .. Len(r) /\ s[i] = r[f(i)]
        /\ \A i, k \in 1 .. Len(s) : i < k => f(i) < f(k)
    BY <1>1, <1>5
  <2> HIDE DEF f
  <2> QED BY <1>1, <1>2, <1>3, <2>1 DEF Ordered
<1>6. \/ s = r
      \/ \E p \in Publishers : Send(p, h) /\ s = Append(r, Current(p))
      \/ /\ Len(s) = Len(r) - 1
         /\ \E n \in Nat : \A i \in 1 .. Len(s) :
              s[i] = r[IF i <= n THEN i ELSE i + 1]
  BY ReceivedStep DEF r, s
<1>7. Ordered(s) /\ \A i \in 1 .. Len(s) : FitsNext(s[i])
  <2>1. CASE s = r
    BY <1>1, <1>2, <1>3, <2>1
  <2> QED BY <1>4, <1>5, <1>6, <2>1
<1> QED BY <1>7 DEF Ordered, s, FitsNext

(* The counters, the loops in progress and the channels' contents agree    *)
(* (HubInv), and every client sees each publisher's events in order and    *)
(* at most once (PerPublisherOrder).                                       *)
LEMMA OrderInvariant == Spec => [](TypeOK /\ HubInv /\ PerPublisherOrder)
<1>1. Init => TypeOK /\ HubInv /\ PerPublisherOrder
  <2> SUFFICES ASSUME Init PROVE TypeOK /\ HubInv /\ PerPublisherOrder
    OBVIOUS
  <2>1. \A h \in Handlers : Received(h) = <<>>
    <3>1. <<>> \o <<>> = <<>>
      BY ConcatEmptySeq, EmptySeq
    <3> QED BY <3>1 DEF Init, Received
  <2>2. Len(<<>>) = 0 /\ 1 .. 0 = {}
    BY EmptySeq
  <2>3. ReceivedUpToSent /\ PerPublisherOrder
    BY <2>1, <2>2 DEF ReceivedUpToSent, PerPublisherOrder
  <2>4. InHandWhileWriting
    BY DEF Init, InHandWhileWriting
  <2> QED BY <2>3, <2>4, TypeInit DEF HubInv
<1>2. TypeOK /\ HubInv /\ PerPublisherOrder /\ [Next]_vars
        => (TypeOK /\ HubInv /\ PerPublisherOrder)'
  <2> SUFFICES ASSUME TypeOK, HubInv, PerPublisherOrder, [Next]_vars
               PROVE  (TypeOK /\ HubInv /\ PerPublisherOrder)'
    OBVIOUS
  <2>1. TypeOK' /\ PublisherCounts'
    BY TypeStep DEF HubInv
  <2>2. InHandWhileWriting'
    BY InHandStep DEF HubInv
  <2>3. PerPublisherOrder'
    BY OrderStep DEF PerPublisherOrder, Ordered
  <2>4. ReceivedUpToSent'
    BY OrderStep DEF ReceivedUpToSent
  <2> QED BY <2>1, <2>2, <2>3, <2>4 DEF HubInv
<1> QED BY <1>1, <1>2, PTL DEF Spec

(* Every client sees the events of one publisher in the order of their     *)
(* broadcast and none twice, whatever is dropped and whoever connects or   *)
(* leaves meanwhile (PerPublisherOrder).                                   *)
THEOREM ClientsSeeOrder == Spec => []PerPublisherOrder
BY OrderInvariant, PTL

-----------------------------------------------------------------------------
(* Nothing is lost without trace.                                          *)

\* The states in which a handler is in its loop.
Serving(h) == handler[h] \in {"select", "writing"}

\* The hub knows a handler's channel from Subscribe to Unsubscribe.
SubscribedStates ==
  \A h \in Handlers :
    h \in subscribers <=> handler[h] \in {"select", "writing", "lockUnsub"}

\* Before Subscribe nothing has come a handler's way.
FreshBeforeSubscribe ==
  \A h \in Handlers : handler[h] \in {"new", "lockSub"} =>
    written[h] = <<>> /\ inhand[h] = <<>> /\ buffer[h] = <<>> /\ dropped[h] = {}

\* A subscriber's reading of a publisher's counter is not ahead of it, and an
\* event on its way to the subscriber was numbered after it subscribed.
JoinedBefore ==
  \A h \in Handlers, p \in Publishers : Serving(h) =>
    /\ joined[h][p] <= sent[p]
    /\ h \in todo[p] => joined[h][p] < sent[p]

\* The event e was given to the handler, or dropped for it.
Got(h, e) ==
  e \in dropped[h] \/ \E i \in 1 .. Len(Received(h)) : Received(h)[i] = e

\* The event e was broadcast since the handler subscribed and has passed it.
PassedBy(h, e) ==
  /\ joined[h][e.from] < e.seq
  /\ e.seq <= sent[e.from]
  /\ h \in todo[e.from] => e.seq # sent[e.from]

\* NoSilentLoss, event by event.
GotWhatPassed ==
  \A h \in Handlers : Serving(h) => \A e \in Events : Got(h, e) <=> PassedBy(h, e)

\* The invariant behind NoSilentLoss.
LossInv ==
  SubscribedStates /\ FreshBeforeSubscribe /\ JoinedBefore /\ GotWhatPassed

(* A handler is subscribed exactly from Subscribe to Unsubscribe.          *)
LEMMA SubscribedStep ==
  ASSUME TypeOK, SubscribedStates, [Next]_vars
  PROVE  SubscribedStates'
<1> USE DEF TypeOK, SubscribedStates
<1>1. ASSUME NEW h \in Handlers, Subscribe(h) \/ Unsubscribe(h)
      PROVE  SubscribedStates'
  BY <1>1 DEF Subscribe, Unsubscribe, Unlock
<1>2. ASSUME NEW h \in Handlers, TakeEvent(h) \/ WriteDone(h) \/ WriteFail(h)
                                   \/ SeeClosed(h) \/ CloseConn(h) \/ Connect(h)
      PROVE  SubscribedStates'
  <2>1. /\ subscribers' = subscribers
        /\ \E pc \in HandlerStates : handler' = [handler EXCEPT ![h] = pc]
        /\ handler[h] \in {"select", "writing"} =>
             handler'[h] \in {"select", "writing", "lockUnsub"}
        /\ handler[h] \notin {"select", "writing"} =>
             handler[h] # "lockUnsub"
               /\ handler'[h] \notin {"select", "writing", "lockUnsub"}
    BY <1>2 DEF TakeEvent, WriteDone, WriteFail, SeeClosed, CloseConn, Connect,
                lockVars, HandlerStates
  <2> QED BY <2>1
<1>3. CASE UNCHANGED <<subscribers, handler>>
  BY <1>3
<1> QED
  BY <1>1, <1>2, <1>3
  DEF Next, PublisherStep, LockStep, HandlerStep, WriteStep, Broadcast, Send,
      BroadcastReturn, Announce, ReaderEnds, Disconnect, vars, lockVars

(* Events reach a handler only after it has subscribed.                    *)
LEMMA FreshStep ==
  ASSUME TypeOK, PublisherCounts, SendsOnlyToOpenChannels, SubscribedStates,
         FreshBeforeSubscribe, [Next]_vars
  PROVE  FreshBeforeSubscribe'
<1> SUFFICES ASSUME NEW h \in Handlers, handler'[h] \in {"new", "lockSub"}
             PROVE  /\ handler[h] \in {"new", "lockSub"}
                    /\ UNCHANGED <<written[h], inhand[h], buffer[h], dropped[h]>>
  BY DEF FreshBeforeSubscribe
<1> USE DEF TypeOK
<1> DEFINE Goal == /\ handler[h] \in {"new", "lockSub"}
                   /\ UNCHANGED <<written[h], inhand[h], buffer[h], dropped[h]>>
<1>1. ASSUME NEW p \in Publishers, NEW c \in Handlers, Send(p, c) PROVE Goal
  <2>1. c \in subscribers /\ UNCHANGED <<handler, written, inhand>>
    BY <1>1 DEF Send, SendsOnlyToOpenChannels
  <2>2. c # h
    BY <2>1 DEF SubscribedStates
  <2>3. UNCHANGED <<buffer[h], dropped[h]>>
    BY <1>1, <2>2 DEF Send
  <2> QED BY <2>1, <2>3
<1>2. ASSUME NEW c \in Handlers,
             \/ TakeEvent(c) \/ WriteDone(c) \/ WriteFail(c) \/ SeeClosed(c)
             \/ CloseConn(c) \/ Connect(c) \/ Subscribe(c) \/ Unsubscribe(c)
      PROVE  Goal
  <2>1. CASE c # h
    BY <1>2, <2>1 DEF TakeEvent, WriteDone, WriteFail, SeeClosed, CloseConn,
       Connect, Subscribe, Unsubscribe, historyVars
  <2>2. CASE c = h
    <3>1. handler[h] = "new" /\ Connect(h)
      BY <1>2, <2>2 DEF TakeEvent, WriteDone, WriteFail, SeeClosed, CloseConn,
         Connect, Subscribe, Unsubscribe
    <3> QED BY <3>1 DEF Connect, historyVars
  <2> QED BY <2>1, <2>2
<1>3. CASE UNCHANGED <<handler, written, inhand, buffer, dropped>>
  BY <1>3
<1> QED
  BY <1>1, <1>2, <1>3
  DEF Next, PublisherStep, LockStep, HandlerStep, WriteStep, Broadcast,
      BroadcastReturn, Announce, ReaderEnds, Disconnect, vars, historyVars

(* A handler starts serving at its Subscribe.                              *)
LEMMA ServingStep ==
  ASSUME TypeOK, [Next]_vars, NEW h \in Handlers, Serving(h)'
  PROVE  \/ Subscribe(h)
         \/ Serving(h) /\ joined'[h] = joined[h]
<1> USE DEF TypeOK, Serving
<1>1. ASSUME NEW c \in Handlers, Subscribe(c)
      PROVE  Subscribe(h) \/ (Serving(h) /\ joined'[h] = joined[h])
  BY <1>1 DEF Subscribe
<1>2. ASSUME NEW c \in Handlers,
             \/ TakeEvent(c) \/ WriteDone(c) \/ WriteFail(c) \/ SeeClosed(c)
             \/ CloseConn(c) \/ Connect(c) \/ Unsubscribe(c)
      PROVE  Serving(h) /\ joined'[h] = joined[h]
  BY <1>2 DEF TakeEvent, WriteDone, WriteFail, SeeClosed, CloseConn,
       Connect, Unsubscribe, historyVars
<1>3. CASE UNCHANGED <<handler, joined>>
  BY <1>3
<1> QED
  BY <1>1, <1>2, <1>3
  DEF Next, PublisherStep, LockStep, HandlerStep, WriteStep, Broadcast, Send,
      BroadcastReturn, Announce, ReaderEnds, Disconnect, vars, historyVars

(* For a handler that is served, a publisher does one of three things: it  *)
(* stays where it is, it numbers a new event and has the handler on its    *)
(* list, or it reaches the handler.                                        *)
LEMMA PublisherMoves ==
  ASSUME TypeOK, PublisherCounts, SubscribedStates, [Next]_vars,
         NEW h \in Handlers, NEW p \in Publishers, Serving(h), Serving(h)'
  PROVE  \/ sent'[p] = sent[p] /\ (h \in todo'[p] <=> h \in todo[p])
         \/ /\ sent'[p] = sent[p] + 1
            /\ h \notin todo[p] /\ h \in todo'[p]
            /\ UNCHANGED <<Received(h), dropped[h]>>
         \/ Send(p, h)
<1> USE DEF TypeOK
<1> DEFINE Goal == \/ sent'[p] = sent[p] /\ (h \in todo'[p] <=> h \in todo[p])
                   \/ /\ sent'[p] = sent[p] + 1
                      /\ h \notin todo[p] /\ h \in todo'[p]
                      /\ UNCHANGED <<Received(h), dropped[h]>>
                   \/ Send(p, h)
<1>0. h \in subscribers
  BY DEF SubscribedStates, Serving
<1>1. ASSUME NEW q \in Publishers, Broadcast(q) PROVE Goal
  <2>1. pub[q] = "idle" /\ todo[q] = {}
    BY <1>1 DEF Broadcast, PublisherCounts
  <2>2. UNCHANGED <<Received(h), dropped[h]>>
    BY <1>1 DEF Broadcast, Received, historyVars
  <2>3. CASE writer = NoWriter
    <3>1. /\ todo' = [todo EXCEPT ![q] = subscribers]
          /\ sent' = [sent EXCEPT ![q] = @ + 1]
      BY <1>1, <2>3 DEF Broadcast
    <3> QED BY <1>0, <2>1, <2>2, <3>1
  <2>4. CASE writer # NoWriter
    <3>1. UNCHANGED <<todo, sent>>
      BY <1>1, <2>4 DEF Broadcast
    <3> QED BY <3>1
  <2> QED BY <2>3, <2>4
<1>2. ASSUME NEW q \in Publishers, NEW c \in Handlers, Send(q, c) PROVE Goal
  BY <1>2 DEF Send
<1>3. ASSUME NEW c \in Handlers, Subscribe(c) \/ Unsubscribe(c) PROVE Goal
  <2>1. PICK subs : Unlock(subs)
    BY <1>3 DEF Subscribe, Unsubscribe
  <2>2. h \in subs
    <3>1. h \in subscribers'
      <4>1. SubscribedStates'
        BY SubscribedStep
      <4> QED BY <4>1 DEF SubscribedStates, Serving
    <3> QED BY <2>1, <3>1 DEF Unlock
  <2>3. UNCHANGED <<Received(h), dropped[h]>>
    BY <1>3 DEF Subscribe, Unsubscribe, Received, historyVars
  <2>4. pub[p] = "queued" => todo[p] = {}
    BY DEF PublisherCounts
  <2> QED BY <2>1, <2>2, <2>3, <2>4 DEF Unlock
<1>4. CASE UNCHANGED <<sent, todo>>
  BY <1>4
<1> QED
  BY <1>1, <1>2, <1>3, <1>4
  DEF Next, PublisherStep, LockStep, HandlerStep, WriteStep, BroadcastReturn,
      Announce, Connect, TakeEvent, WriteDone, WriteFail, SeeClosed, CloseConn,
      ReaderEnds, Disconnect, vars, lockVars

(* What a serving handler got grows by the event sent to it and by nothing *)
(* else: the event goes to the buffer, or is dropped when that is full.    *)
LEMMA GotStep ==
  ASSUME TypeOK, PublisherCounts, InHandWhileWriting, [Next]_vars,
         NEW h \in Handlers, Serving(h)', NEW e \in Events
  PROVE  \/ /\ ~ \E p \in Publishers : Send(p, h)
            /\ Got(h, e)' <=> Got(h, e)
         \/ \E p \in Publishers :
              Send(p, h) /\ (Got(h, e)' <=> (Got(h, e) \/ e = Current(p)))
<1>1. /\ Received(h) \in Seq(Events) /\ Len(Received(h)) \in Nat
  <2>1. /\ written[h] \in Seq(Events) /\ inhand[h] \in Seq(Events)
        /\ buffer[h] \in Seq(Events)
    BY DEF TypeOK
  <2>2. written[h] \o inhand[h] \in Seq(Events)
    BY <2>1, ConcatProperties
  <2>3. Received(h) \in Seq(Events)
    BY <2>1, <2>2, ConcatProperties DEF Received
  <2> QED BY <2>3, LenProperties
<1>2. CASE \E p \in Publishers : Send(p, h)
  <2>1. PICK p \in Publishers : Send(p, h)
    BY <1>2
  <2>2. Current(p) \in Events
    BY <2>1, HubAssumption DEF Send, Current, Events, TypeOK, PublisherCounts
  <2>3. UNCHANGED <<written, inhand>>
    BY <2>1 DEF Send
  <2>4. CASE Len(buffer[h]) < BufferSize
    <3>1. dropped' = dropped
      BY <2>1, <2>4, SendReceived
    <3>2. Received(h)' = Append(Received(h), Current(p))
      BY <2>1, <2>4, SendReceived
    <3>3. /\ Len(Received(h)') = Len(Received(h)) + 1
          /\ \A i \in 1 .. Len(Received(h)) : Received(h)'[i] = Received(h)[i]
          /\ Received(h)'[Len(Received(h)) + 1] = Current(p)
      BY <1>1, <2>2, <3>2, AppendProperties
    <3>4. Got(h, e)' <=> (Got(h, e) \/ e = Current(p))
      <4> DEFINE r == Received(h)
                 s == Received(h)'
                 n == Len(Received(h))
      <4>1. /\ n \in Nat /\ Len(s) = n + 1
            /\ \A i \in 1 .. n : s[i] = r[i]
            /\ s[n + 1] = Current(p)
        BY <1>1, <3>3
      <4>2. \A i : i \in 1 .. n + 1 <=> (i \in 1 .. n \/ i = n + 1)
        BY <1>1
      <4> HIDE DEF r, s, n
      <4>3. (\E i \in 1 .. Len(s) : s[i] = e)
              <=> ((\E i \in 1 .. n : r[i] = e) \/ e = Current(p))
        BY <4>1, <4>2
      <4> QED BY <3>1, <4>3 DEF Got, r, s, n
    <3> QED BY <2>1, <3>4
  <2>5. CASE ~(Len(buffer[h]) < BufferSize)
    <3>1. /\ buffer' = buffer
          /\ dropped'[h] = dropped[h] \union {Current(p)}
      BY <2>1, <2>5 DEF Send, TypeOK
    <3> QED BY <2>1, <2>3, <3>1 DEF Got, Received
  <2> QED BY <2>4, <2>5
<1>3. CASE ~ \E p \in Publishers : Send(p, h)
  <2>1. Received(h)' = Received(h)
    <3>1. handler'[h] # "lockUnsub"
      BY DEF Serving
    <3> QED BY <1>3, <3>1, ReceivedStep
  <2>2. dropped'[h] = dropped[h]
    <3>1. ASSUME NEW p \in Publishers, NEW c \in Handlers, Send(p, c)
          PROVE  dropped'[h] = dropped[h]
      BY <1>3, <3>1 DEF Send, TypeOK
    <3>2. CASE UNCHANGED dropped
      BY <3>2
    <3> QED
      BY <3>1, <3>2
      DEF Next, PublisherStep, LockStep, HandlerStep, WriteStep, Broadcast,
          BroadcastReturn, Announce, Connect, Subscribe, Unsubscribe,
          TakeEvent, WriteDone, WriteFail, SeeClosed, CloseConn, ReaderEnds,
          Disconnect, vars, historyVars
  <2> QED BY <1>3, <2>1, <2>2 DEF Got
<1> QED BY <1>2, <1>3

(* At its Subscribe a handler has got nothing, and nothing has passed it:  *)
(* a publisher that queued behind the lock numbers its event afterwards.   *)
LEMMA SubscribeLoss ==
  ASSUME TypeOK, PublisherCounts, SendsOnlyToOpenChannels, LossInv,
         NEW h \in Handlers, Subscribe(h)
  PROVE  /\ \A p \in Publishers : /\ joined'[h][p] <= sent'[p]
                                  /\ h \in todo'[p] => joined'[h][p] < sent'[p]
         /\ \A e \in Events : ~Got(h, e)' /\ ~PassedBy(h, e)'
<1>1. /\ UNCHANGED <<buffer, inhand, written, dropped>>
      /\ joined'[h] = sent
      /\ handler[h] = "lockSub"
      /\ Unlock(subscribers \union {h})
  BY DEF Subscribe, TypeOK
<1>2. \A p \in Publishers :
        /\ sent[p] \in Nat
        /\ \/ sent'[p] = sent[p] /\ h \notin todo'[p]
           \/ sent'[p] = sent[p] + 1 /\ h \in todo'[p]
  <2>1. h \notin subscribers
    BY <1>1 DEF LossInv, SubscribedStates
  <2>2. \A p \in Publishers : h \notin todo[p]
    BY <2>1 DEF SendsOnlyToOpenChannels, PublisherCounts, TypeOK
  <2> QED BY <1>1, <2>2 DEF Unlock, TypeOK
<1>3. \A p \in Publishers : /\ joined'[h][p] <= sent'[p]
                            /\ h \in todo'[p] => joined'[h][p] < sent'[p]
  BY <1>1, <1>2
<1>4. ASSUME NEW e \in Events PROVE ~Got(h, e)'
  <2>1. /\ written[h] = <<>> /\ inhand[h] = <<>> /\ buffer[h] = <<>>
        /\ dropped[h] = {}
    BY <1>1 DEF LossInv, FreshBeforeSubscribe
  <2>2. <<>> \o <<>> = <<>> /\ Len(<<>>) = 0 /\ 1 .. 0 = {}
    BY ConcatEmptySeq, EmptySeq
  <2>3. Received(h)' = <<>>
    BY <1>1, <2>1, <2>2 DEF Received
  <2> QED BY <1>1, <2>1, <2>2, <2>3 DEF Got
<1>5. ASSUME NEW e \in Events PROVE ~PassedBy(h, e)'
  <2>1. e.from \in Publishers /\ e.seq \in Nat
    BY DEF Events
  <2> QED BY <1>1, <1>2, <2>1 DEF PassedBy
<1> QED BY <1>3, <1>4, <1>5

(* Every step keeps the account of a serving handler complete.             *)
LEMMA LossStep ==
  ASSUME TypeOK, TypeOK', HubInv, SendsOnlyToOpenChannels, LossInv, [Next]_vars,
         NEW h \in Handlers, Serving(h)'
  PROVE  /\ \A p \in Publishers : /\ joined'[h][p] <= sent'[p]
                                  /\ h \in todo'[p] => joined'[h][p] < sent'[p]
         /\ \A e \in Events : Got(h, e)' <=> PassedBy(h, e)'
<1>1. PublisherCounts /\ InHandWhileWriting
  BY DEF HubInv
<1>2. CASE Subscribe(h)
  BY <1>1, <1>2, SubscribeLoss
<1>3. CASE Serving(h) /\ joined'[h] = joined[h]
  <2>1. \A p \in Publishers :
          /\ joined[h][p] \in Nat /\ sent[p] \in Nat /\ sent'[p] \in Nat
          /\ joined[h][p] <= sent[p]
          /\ h \in todo[p] => joined[h][p] < sent[p]
    BY <1>3 DEF LossInv, JoinedBefore, TypeOK
  <2>2. ASSUME NEW p \in Publishers, Send(p, h)
        PROVE  /\ sent' = sent /\ h \in todo[p] /\ h \notin todo'[p]
               /\ \A q \in Publishers : q # p => todo'[q] = todo[q]
    BY <2>2 DEF Send, TypeOK
  <2>3. ASSUME NEW p \in Publishers
        PROVE  \/ sent'[p] = sent[p] /\ (h \in todo'[p] <=> h \in todo[p])
               \/ /\ sent'[p] = sent[p] + 1
                  /\ h \notin todo[p] /\ h \in todo'[p]
               \/ Send(p, h)
    BY <1>1, <1>3, PublisherMoves DEF LossInv
  <2>4. \A p \in Publishers : /\ joined'[h][p] <= sent'[p]
                              /\ h \in todo'[p] => joined'[h][p] < sent'[p]
    BY <1>3, <2>1, <2>2, <2>3
  <2>5. ASSUME NEW e \in Events PROVE Got(h, e)' <=> PassedBy(h, e)'
    <3>1. e.from \in Publishers /\ e.seq \in Nat
      BY DEF Events
    <3>2. Got(h, e) <=> PassedBy(h, e)
      BY <1>3 DEF LossInv, GotWhatPassed
    <3>3. CASE /\ ~ \E p \in Publishers : Send(p, h)
               /\ Got(h, e)' <=> Got(h, e)
      <4>1. \/ sent'[e.from] = sent[e.from]
               /\ (h \in todo'[e.from] <=> h \in todo[e.from])
            \/ /\ sent'[e.from] = sent[e.from] + 1
               /\ h \notin todo[e.from] /\ h \in todo'[e.from]
        BY <2>3, <3>1, <3>3
      <4> QED BY <1>3, <2>1, <3>1, <3>2, <3>3, <4>1 DEF PassedBy
    <3>4. ASSUME NEW p \in Publishers, Send(p, h),
                 Got(h, e)' <=> (Got(h, e) \/ e = Current(p))
          PROVE  Got(h, e)' <=> PassedBy(h, e)'
      <4>1. sent' = sent /\ h \in todo[p] /\ h \notin todo'[p]
            /\ \A q \in Publishers : q # p => todo'[q] = todo[q]
        BY <2>2, <3>4
      <4>2. CASE e.from # p
        <5>1. e # Current(p)
          BY <4>2 DEF Current
        <5> QED BY <1>3, <3>1, <3>2, <3>4, <4>1, <4>2, <5>1 DEF PassedBy
      <4>3. CASE e.from = p
        <5>1. e = Current(p) <=> e.seq = sent[p]
          BY <4>3 DEF Current, Events
        <5> QED BY <1>3, <2>1, <3>1, <3>2, <3>4, <4>1, <4>3, <5>1 DEF PassedBy
      <4> QED BY <4>2, <4>3
    <3> QED BY <1>1, <3>3, <3>4, GotStep
  <2> QED BY <2>4, <2>5
<1> QED BY <1>2, <1>3, ServingStep

(* Each event broadcast since a handler subscribed has been written to its *)
(* client, is in hand, is buffered, or was dropped because this handler's  *)
(* own buffer was full, and nothing else arrives (NoSilentLoss), for any   *)
(* publishers, clients and buffer size.                                    *)
THEOREM NothingLostSilently == Spec => []NoSilentLoss
<1>1. Init => LossInv
  BY DEF Init, LossInv, SubscribedStates, FreshBeforeSubscribe, JoinedBefore,
         GotWhatPassed, Serving
<1>2. /\ TypeOK /\ TypeOK' /\ HubInv /\ SendsOnlyToOpenChannels
      /\ LossInv /\ [Next]_vars
      => LossInv'
  <2> SUFFICES ASSUME TypeOK, TypeOK', HubInv, SendsOnlyToOpenChannels, LossInv,
                      [Next]_vars
               PROVE  LossInv'
    OBVIOUS
  <2>1. SubscribedStates' /\ FreshBeforeSubscribe'
    BY SubscribedStep, FreshStep DEF LossInv, HubInv
  <2>2. JoinedBefore' /\ GotWhatPassed'
    BY LossStep DEF JoinedBefore, GotWhatPassed
  <2> QED BY <2>1, <2>2 DEF LossInv
<1>3. TypeOK /\ HubInv /\ LossInv => NoSilentLoss
  <2> SUFFICES ASSUME TypeOK, HubInv, LossInv,
                      NEW h \in Handlers, handler[h] \in {"select", "writing"}
               PROVE  UNION {Passed(p, h) : p \in Publishers}
                        = dropped[h]
                            \union {Received(h)[i] : i \in 1 .. Len(Received(h))}
    BY DEF NoSilentLoss
  <2> DEFINE P == UNION {Passed(p, h) : p \in Publishers}
             G == dropped[h] \union {Received(h)[i] : i \in 1 .. Len(Received(h))}
  <2>1. \A e : e \in G <=> Got(h, e)
    BY DEF Got
  <2>2. \A e \in G : e \in Events
    <3>1. Received(h) \in Seq(Events)
      <4>1. /\ written[h] \in Seq(Events) /\ inhand[h] \in Seq(Events)
            /\ buffer[h] \in Seq(Events)
        BY DEF TypeOK
      <4>2. written[h] \o inhand[h] \in Seq(Events)
        BY <4>1, ConcatProperties
      <4> QED BY <4>1, <4>2, ConcatProperties DEF Received
    <3>2. \A i \in 1 .. Len(Received(h)) : Received(h)[i] \in Events
      BY <3>1, LenProperties
    <3>3. dropped[h] \subseteq Events
      BY DEF TypeOK
    <3> QED BY <3>2, <3>3
  <2>3. \A e : e \in P <=> e \in Events /\ PassedBy(h, e)
    <3>1. ASSUME NEW e, NEW p \in Publishers
          PROVE  e \in Passed(p, h) <=> e \in Events /\ e.from = p /\ PassedBy(h, e)
      <4>1. /\ joined[h][p] \in Nat /\ sent[p] \in Nat
            /\ h \in todo[p] <=> (pub[p] = "sending" /\ h \in todo[p])
        BY DEF TypeOK, HubInv, PublisherCounts
      <4>2. ASSUME e \in Passed(p, h)
            PROVE  e \in Events /\ e.from = p /\ PassedBy(h, e)
        <5>1. PICK n \in joined[h][p] + 1 .. sent[p] :
                /\ n = sent[p] /\ pub[p] = "sending" => h \notin todo[p]
                /\ e = [from |-> p, seq |-> n]
          BY <4>2 DEF Passed
        <5>2. n \in Nat \ {0} /\ joined[h][p] < n /\ n <= sent[p]
          BY <4>1, <5>1
        <5>3. e.from = p /\ e.seq = n /\ e \in Events
          BY <5>1, <5>2 DEF Events
        <5> QED BY <4>1, <5>1, <5>2, <5>3 DEF PassedBy
      <4>3. ASSUME e \in Events, e.from = p, PassedBy(h, e)
            PROVE  e \in Passed(p, h)
        <5>1. e = [from |-> p, seq |-> e.seq] /\ e.seq \in Nat
          BY <4>3 DEF Events
        <5>2. /\ e.seq \in joined[h][p] + 1 .. sent[p]
              /\ e.seq = sent[p] /\ pub[p] = "sending" => h \notin todo[p]
          BY <4>1, <4>3, <5>1 DEF PassedBy
        <5> QED BY <5>1, <5>2 DEF Passed
      <4> QED BY <4>2, <4>3
    <3>2. \A e \in Events : e.from \in Publishers
      BY DEF Events
    <3> QED BY <3>1, <3>2
  <2>4. \A e \in Events : Got(h, e) <=> PassedBy(h, e)
    BY DEF LossInv, GotWhatPassed, Serving
  <2> HIDE DEF P, G
  <2>5. P = G
    BY <2>1, <2>2, <2>3, <2>4
  <2> QED BY <2>5 DEF P, G
<1> QED
  BY <1>1, <1>2, <1>3, OrderInvariant, NoSendOnClosedChannel, PTL DEF Spec
=============================================================================
