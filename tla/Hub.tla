-------------------------------- MODULE Hub --------------------------------
(***************************************************************************)
(* internal/realtime/hub.go together with its only subscribers, the        *)
(* WebSocket handlers of internal/api/handlers.go.  Publishers are the     *)
(* goroutines that call Broadcast (workers, the reconciler, HTTP handlers, *)
(* the Redis subscriber).  A handler serves one connection and owns one    *)
(* channel, so the handler's name also names the channel.                  *)
(*                                                                         *)
(* The lock is Go's sync.RWMutex (external): one writer at a time          *)
(* announces itself, new readers then queue behind it, and when it unlocks *)
(* every queued reader gets the lock before the next writer can.  The      *)
(* writers' critical sections contain no blocking call, so a critical      *)
(* section and its Unlock are one step.  A Broadcast holds the read lock   *)
(* over one step per subscriber.                                           *)
(***************************************************************************)
EXTENDS Integers, Sequences, FiniteSets

CONSTANTS
  BufferSizeArg,  \* NewHub's bufferSize argument
  Publishers,     \* goroutines that broadcast
  Handlers,       \* WebSocket connections, each with its handler
  MaxEvents,      \* bound: events of all publishers together, at a time
  NoWriter        \* nobody has announced itself to the lock

ASSUME HubAssumption ==
  /\ BufferSizeArg \in Int
  /\ MaxEvents \in Nat
  /\ NoWriter \notin Handlers

\* NewHub's default.
BufferSize == IF BufferSizeArg <= 0 THEN 16 ELSE BufferSizeArg

\* An event is known by its publisher and its number there.
Events == [from : Publishers, seq : Nat \ {0}]

VARIABLES
  subscribers,  \* h.subscribers
  buffer,       \* the buffered channel of each handler
  writer,       \* the handler that holds or has announced the write lock
  pub,          \* where each publisher is in Broadcast
  todo,         \* subscribers a running Broadcast has not reached yet
  sent,         \* number of events a publisher has begun to broadcast
  handler,      \* where each handler is in the websocket function
  inhand,       \* the event a handler is writing (empty or one)
  reader,       \* the goroutine that detects the client's disconnect
  connected,    \* the client's end of the connection is up
  \* History: not in the code, read only by the properties.
  written,      \* events written to each client, in order
  dropped,      \* events dropped for each handler (full buffer)
  joined        \* joined[h][p]: what p had begun when h subscribed

vars == <<subscribers, buffer, writer, pub, todo, sent, handler, inhand,
          reader, connected, written, dropped, joined>>
historyVars == <<written, dropped, joined>>
lockVars == <<subscribers, writer, pub, todo, sent>>

HandlerStates ==
  {"new", "lockSub", "select", "writing", "lockUnsub", "closing", "gone"}

Init ==
  /\ subscribers = {}
  /\ buffer = [h \in Handlers |-> <<>>]
  /\ writer = NoWriter
  /\ pub = [p \in Publishers |-> "idle"]
  /\ todo = [p \in Publishers |-> {}]
  /\ sent = [p \in Publishers |-> 0]
  /\ handler = [h \in Handlers |-> "new"]
  /\ inhand = [h \in Handlers |-> <<>>]
  /\ reader = [h \in Handlers |-> "none"]
  /\ connected = [h \in Handlers |-> FALSE]
  /\ written = [h \in Handlers |-> <<>>]
  /\ dropped = [h \in Handlers |-> {}]
  /\ joined = [h \in Handlers |-> [p \in Publishers |-> 0]]

-----------------------------------------------------------------------------
(* The lock.                                                               *)

\* No Broadcast holds the read lock.
NoReaders == \A p \in Publishers : pub[p] # "sending"

\* Mutant: the writer does not announce itself while somebody reads (TryLock
\* in a loop, or a lock that prefers readers).
AnnounceTry(h) ==
  /\ handler[h] \in {"lockSub", "lockUnsub"}
  /\ writer = NoWriter
  /\ NoReaders
  /\ writer' = h
  /\ UNCHANGED <<subscribers, buffer, pub, todo, sent, handler, inhand,
                 reader, connected, historyVars>>

\* Lock, first half: the handler becomes the one announced writer.
Announce(h) ==
  /\ handler[h] \in {"lockSub", "lockUnsub"}
  /\ writer = NoWriter
  /\ writer' = h
  /\ UNCHANGED <<subscribers, buffer, pub, todo, sent, handler, inhand,
                 reader, connected, historyVars>>

\* Mutant: the writer does not wait for the readers (a missing Lock).
WriteLockedNoWait(h) == writer = h

\* Lock, second half: the readers that were active have left.
WriteLocked(h) == writer = h /\ NoReaders

\* Unlock: the readers that queued behind the writer enter together and
\* range over the subscribers they find.
Unlock(subs) ==
  /\ writer' = NoWriter
  /\ subscribers' = subs
  /\ pub' = [p \in Publishers |->
               IF pub[p] = "queued" THEN "sending" ELSE pub[p]]
  /\ todo' = [p \in Publishers |->
                IF pub[p] = "queued" THEN subs ELSE todo[p]]
  /\ sent' = [p \in Publishers |->
                IF pub[p] = "queued" THEN sent[p] + 1 ELSE sent[p]]

-----------------------------------------------------------------------------
(* Broadcast.                                                              *)

\* The events begun so far, those of queued publishers included.
Begun ==
  {e \in [from : Publishers, seq : 1 .. MaxEvents] :
     e.seq <= IF pub[e.from] = "queued" THEN sent[e.from] + 1 ELSE sent[e.from]}

\* RLock succeeds at once, unless a writer has announced itself.
Broadcast(p) ==
  /\ pub[p] = "idle"
  /\ Cardinality(Begun) < MaxEvents
  /\ IF writer = NoWriter
     THEN /\ pub' = [pub EXCEPT ![p] = "sending"]
          /\ todo' = [todo EXCEPT ![p] = subscribers]
          /\ sent' = [sent EXCEPT ![p] = @ + 1]
     ELSE /\ pub' = [pub EXCEPT ![p] = "queued"]
          /\ UNCHANGED <<todo, sent>>
  /\ UNCHANGED <<subscribers, writer, buffer, handler, inhand, reader,
                 connected, historyVars>>

Current(p) == [from |-> p, seq |-> sent[p]]

\* Mutant: no default case, the send waits for room in the channel.
SendBlocking(p, h) ==
  /\ pub[p] = "sending"
  /\ h \in todo[p]
  /\ Len(buffer[h]) < BufferSize
  /\ todo' = [todo EXCEPT ![p] = @ \ {h}]
  /\ buffer' = [buffer EXCEPT ![h] = Append(@, Current(p))]
  /\ UNCHANGED <<subscribers, writer, pub, sent, handler, inhand, reader,
                 connected, historyVars>>

\* Mutant: one slow subscriber ends the loop for all that follow it.
SendBreaks(p, h) ==
  /\ pub[p] = "sending"
  /\ h \in todo[p]
  /\ IF Len(buffer[h]) < BufferSize
     THEN /\ todo' = [todo EXCEPT ![p] = @ \ {h}]
          /\ buffer' = [buffer EXCEPT ![h] = Append(@, Current(p))]
          /\ UNCHANGED dropped
     ELSE /\ todo' = [todo EXCEPT ![p] = {}]
          /\ dropped' = [dropped EXCEPT ![h] = @ \union {Current(p)}]
          /\ UNCHANGED buffer
  /\ UNCHANGED <<subscribers, writer, pub, sent, handler, inhand, reader,
                 connected, written, joined>>

\* One turn of the loop, in the map's arbitrary order: the select sends if
\* the buffer has room and drops the event for this subscriber otherwise.
Send(p, h) ==
  /\ pub[p] = "sending"
  /\ h \in todo[p]
  /\ todo' = [todo EXCEPT ![p] = @ \ {h}]
  /\ IF Len(buffer[h]) < BufferSize
     THEN /\ buffer' = [buffer EXCEPT ![h] = Append(@, Current(p))]
          /\ UNCHANGED dropped
     ELSE /\ dropped' = [dropped EXCEPT ![h] = @ \union {Current(p)}]
          /\ UNCHANGED buffer
  /\ UNCHANGED <<subscribers, writer, pub, sent, handler, inhand, reader,
                 connected, written, joined>>

\* The deferred RUnlock.
BroadcastReturn(p) ==
  /\ pub[p] = "sending"
  /\ todo[p] = {}
  /\ pub' = [pub EXCEPT ![p] = "idle"]
  /\ UNCHANGED <<subscribers, buffer, writer, todo, sent, handler, inhand,
                 reader, connected, historyVars>>

-----------------------------------------------------------------------------
(* The websocket handler.                                                  *)

\* The upgrade succeeds and the handler calls Subscribe.  (When it fails the
\* handler returns at once and nothing has changed.)
Connect(h) ==
  /\ handler[h] = "new"
  /\ handler' = [handler EXCEPT ![h] = "lockSub"]
  /\ connected' = [connected EXCEPT ![h] = TRUE]
  /\ UNCHANGED <<lockVars, buffer, inhand, reader, historyVars>>

\* Subscribe's critical section; then the reader goroutine is started.
Subscribe(h) ==
  /\ handler[h] = "lockSub"
  /\ WriteLocked(h)
  /\ Unlock(subscribers \union {h})
  /\ handler' = [handler EXCEPT ![h] = "select"]
  /\ reader' = [reader EXCEPT ![h] = "reading"]
  /\ joined' = [joined EXCEPT ![h] = sent]
  /\ UNCHANGED <<buffer, inhand, connected, written, dropped>>

\* case ev := <-events.  The branch for a closed channel is unreachable: only
\* this handler closes it, after leaving the loop.
TakeEvent(h) ==
  /\ handler[h] = "select"
  /\ buffer[h] # <<>>
  /\ handler' = [handler EXCEPT ![h] = "writing"]
  /\ inhand' = [inhand EXCEPT ![h] = <<Head(buffer[h])>>]
  /\ buffer' = [buffer EXCEPT ![h] = Tail(@)]
  /\ UNCHANGED <<lockVars, reader, connected, historyVars>>

\* Mutant: a write that went through is tried once more.
WriteDoneRetried(h) ==
  /\ handler[h] = "writing"
  /\ \/ /\ handler' = [handler EXCEPT ![h] = "select"]
        /\ inhand' = [inhand EXCEPT ![h] = <<>>]
     \/ UNCHANGED <<handler, inhand>>
  /\ written' = [written EXCEPT ![h] = @ \o inhand[h]]
  /\ UNCHANGED <<lockVars, buffer, reader, connected, dropped, joined>>

\* conn.WriteJSON returns nil (it may, for a while, after a disconnect).
WriteDone(h) ==
  /\ handler[h] = "writing"
  /\ handler' = [handler EXCEPT ![h] = "select"]
  /\ written' = [written EXCEPT ![h] = @ \o inhand[h]]
  /\ inhand' = [inhand EXCEPT ![h] = <<>>]
  /\ UNCHANGED <<lockVars, buffer, reader, connected, dropped, joined>>

\* conn.WriteJSON fails: the handler returns, which runs Unsubscribe.
WriteFail(h) ==
  /\ handler[h] = "writing"
  /\ ~connected[h]
  /\ handler' = [handler EXCEPT ![h] = "lockUnsub"]
  /\ inhand' = [inhand EXCEPT ![h] = <<>>]
  /\ UNCHANGED <<lockVars, buffer, reader, connected, historyVars>>

\* Mutant: the handler only learns of the disconnect from a failed write.
SeeClosedIgnored(h) ==
  /\ handler[h] = "select"
  /\ reader[h] = "ended"
  /\ buffer[h] # <<>>
  /\ handler' = [handler EXCEPT ![h] = "lockUnsub"]
  /\ UNCHANGED <<lockVars, buffer, inhand, reader, connected, historyVars>>

\* case <-closed: the handler returns, which runs Unsubscribe.
SeeClosed(h) ==
  /\ handler[h] = "select"
  /\ reader[h] = "ended"
  /\ handler' = [handler EXCEPT ![h] = "lockUnsub"]
  /\ UNCHANGED <<lockVars, buffer, inhand, reader, connected, historyVars>>

\* Unsubscribe's critical section: the channel leaves the map and is closed.
Unsubscribe(h) ==
  /\ handler[h] = "lockUnsub"
  /\ WriteLocked(h)
  /\ Unlock(subscribers \ {h})
  /\ handler' = [handler EXCEPT ![h] = "closing"]
  /\ UNCHANGED <<buffer, inhand, reader, connected, historyVars>>

\* The deferred conn.Close.
CloseConn(h) ==
  /\ handler[h] = "closing"
  /\ handler' = [handler EXCEPT ![h] = "gone"]
  /\ UNCHANGED <<lockVars, buffer, inhand, reader, connected, historyVars>>

\* The reader goroutine's ReadMessage fails, because the client went away or
\* because the handler closed the connection; close(closed).
ReaderEnds(h) ==
  /\ reader[h] = "reading"
  /\ ~connected[h] \/ handler[h] = "gone"
  /\ reader' = [reader EXCEPT ![h] = "ended"]
  /\ UNCHANGED <<lockVars, buffer, handler, inhand, connected, historyVars>>

\* Environment: the client goes away.
Disconnect(h) ==
  /\ connected[h]
  /\ connected' = [connected EXCEPT ![h] = FALSE]
  /\ UNCHANGED <<lockVars, buffer, handler, inhand, reader, historyVars>>

-----------------------------------------------------------------------------
PublisherStep(p) == BroadcastReturn(p) \/ \E h \in Handlers : Send(p, h)
LockStep(h)      == Announce(h) \/ Subscribe(h) \/ Unsubscribe(h)
HandlerStep(h)   == LockStep(h) \/ TakeEvent(h) \/ SeeClosed(h) \/ CloseConn(h)
WriteStep(h)     == WriteDone(h) \/ WriteFail(h)

Next ==
  \/ \E p \in Publishers : Broadcast(p) \/ PublisherStep(p)
  \/ \E h \in Handlers : \/ Connect(h) \/ HandlerStep(h) \/ WriteStep(h)
                         \/ ReaderEnds(h) \/ Disconnect(h)

Spec == Init /\ [][Next]_vars

\* Goroutines that can run do run.  Nothing is assumed of a connected client:
\* a write to it may never complete.  The select between the events and the
\* closed channel chooses at random, so a closed channel that stays ready is
\* chosen in the end (SF).
Fairness ==
  /\ \A p \in Publishers : WF_vars(PublisherStep(p))
  /\ \A h \in Handlers : /\ WF_vars(LockStep(h))
                         /\ WF_vars(HandlerStep(h))
                         /\ SF_vars(SeeClosed(h))
                         /\ WF_vars(~connected[h] /\ WriteStep(h))
                         /\ WF_vars(ReaderEnds(h))

FairSpec == Spec /\ Fairness

-----------------------------------------------------------------------------
(* Properties.                                                             *)

\* Every variable has its type, and no channel exceeds its buffer.
TypeOK ==
  /\ subscribers \in SUBSET Handlers
  /\ buffer \in [Handlers -> Seq(Events)]
  /\ \A h \in Handlers : Len(buffer[h]) <= BufferSize
  /\ writer \in Handlers \union {NoWriter}
  /\ pub \in [Publishers -> {"idle", "queued", "sending"}]
  /\ todo \in [Publishers -> SUBSET Handlers]
  /\ sent \in [Publishers -> Nat]
  /\ handler \in [Handlers -> HandlerStates]
  /\ inhand \in [Handlers -> Seq(Events)]
  /\ reader \in [Handlers -> {"none", "reading", "ended"}]
  /\ connected \in [Handlers -> BOOLEAN]
  /\ written \in [Handlers -> Seq(Events)]
  /\ dropped \in [Handlers -> SUBSET Events]
  /\ joined \in [Handlers -> [Publishers -> Nat]]

\* A Broadcast in progress only has open channels left to send to: no
\* Unsubscribe closes a channel between the moment a publisher ranges over the
\* map and its send, which would panic the publisher's goroutine.
SendsOnlyToOpenChannels ==
  \A p \in Publishers : pub[p] = "sending" => todo[p] \subseteq subscribers

\* What a handler has been given so far, oldest first.
Received(h) == written[h] \o inhand[h] \o buffer[h]

\* Every client sees the events of one publisher in the order in which they
\* were broadcast, and none of them twice, whatever was dropped in between.
PerPublisherOrder ==
  \A h \in Handlers :
    LET r == Received(h)
    IN  \A i, k \in 1 .. Len(r) :
          (i < k /\ r[i].from = r[k].from) => r[i].seq < r[k].seq

\* The events of p that have passed handler h since it subscribed.
Passed(p, h) ==
  {[from |-> p, seq |-> n] :
     n \in {n \in joined[h][p] + 1 .. sent[p] :
             n = sent[p] /\ pub[p] = "sending" => h \notin todo[p]}}

\* No event is lost without trace: each event broadcast since the handler
\* subscribed has been written, is in hand, is buffered, or was dropped
\* because this handler's own buffer was full; and nothing else arrives.
NoSilentLoss ==
  \A h \in Handlers : handler[h] \in {"select", "writing"} =>
    UNION {Passed(p, h) : p \in Publishers}
      = dropped[h] \union {Received(h)[i] : i \in 1 .. Len(Received(h))}

\* A publisher that is sending has begun an event, and one that is not has
\* reached every subscriber.
PublisherCounts ==
  \A p \in Publishers :
    /\ pub[p] = "sending" => sent[p] >= 1
    /\ pub[p] # "sending" => todo[p] = {}

\* A handler has an event in hand only while it writes it.
InHandWhileWriting ==
  \A h \in Handlers :
    /\ handler[h] = "writing" => Len(inhand[h]) = 1
    /\ handler[h] # "writing" => inhand[h] = <<>>

\* What a handler has received was begun by its publisher, and the event that
\* is on its way to it is newer than all of them.
ReceivedUpToSent ==
  \A h \in Handlers : \A i \in 1 .. Len(Received(h)) :
    LET e == Received(h)[i]
    IN  /\ e.seq <= sent[e.from]
        /\ h \in todo[e.from] => e.seq < sent[e.from]

\* The publishers' counters, the loops in progress and the contents of every
\* channel agree.  With PerPublisherOrder this is inductive (HubProofs).
HubInv == PublisherCounts /\ InHandWhileWriting /\ ReceivedUpToSent

\* Broadcast never waits for a client: every call returns even if connected
\* clients never read again.
BroadcastReturns ==
  \A p \in Publishers : (pub[p] # "idle") ~> (pub[p] = "idle")

\* A stream of broadcasts, even one that never ends and never leaves a moment
\* without a reader, does not keep a new client from being subscribed.
SubscribeReturns ==
  \A h \in Handlers : (handler[h] = "lockSub") ~> (handler[h] # "lockSub")

\* After a disconnect the handler unsubscribes and returns, and its reader
\* goroutine ends: neither a channel nor a goroutine is leaked.
DisconnectReleases ==
  \A h \in Handlers :
    (handler[h] # "new" /\ ~connected[h])
      ~> (handler[h] = "gone" /\ reader[h] = "ended" /\ h \notin subscribers)
=============================================================================
