------------------------------ MODULE EventBus ------------------------------
(***************************************************************************)
(* internal/cache/redis.go, Broadcast and Subscribe, as cmd/server/main.go *)
(* wires them: every instance of the server publishes its events to one    *)
(* Redis channel, and a goroutine of every instance re-broadcasts what it  *)
(* receives to the instance's own hub (module Hub, of which that goroutine *)
(* then is the only publisher).                                            *)
(*                                                                         *)
(* Redis executes commands one at a time and sends a published message to  *)
(* the connections that are subscribed at that moment.  The client library *)
(* repeats a PUBLISH whose connection failed, although the first one may   *)
(* have been executed or may still be, and renews a broken subscription,   *)
(* without what was published meanwhile.  It looks at the context of a     *)
(* command between two attempts only; an attempt that has been sent ends   *)
(* with its answer or with an error, the client's own read timeout at the  *)
(* latest.  All of this is external and modelled from how redis.go uses it.*)
(***************************************************************************)
EXTENDS Naturals, Sequences

CONSTANTS
  Instances,    \* servers that share the Redis channel
  Publishers,   \* goroutines that call Broadcast, on any of the instances
  MaxAttempts,  \* one PUBLISH and its repetitions by the client library
  ChanSize,     \* capacity of the channel that sub.Channel returns
  MaxEvents,    \* bound: events of a publisher
  MaxFaults,    \* bound: broken connections, dropped messages and messages
                \* that are no event
  Stranger      \* somebody else who publishes to the channel

ASSUME BusAssumption ==
  /\ MaxAttempts \in Nat \ {0}
  /\ ChanSize \in Nat \ {0}
  /\ MaxEvents \in Nat
  /\ MaxFaults \in Nat
  /\ Stranger \notin Publishers

\* The k-th attempt to publish the n-th event of p.
Attempts == [p : Publishers, n : 1 .. MaxEvents, k : 1 .. MaxAttempts]

\* A message that is not the JSON of an event.
Garbage == [p |-> Stranger, n |-> 0, k |-> 0]

Has(s, x) == \E j \in 1 .. Len(s) : s[j] = x

VARIABLES
  pub,      \* where each publisher's Broadcast is
  wire,     \* attempts that Redis may still execute (one whose connection was
            \* lost with it stays here and is never executed)
  log,      \* what Redis has executed, in order
  sub,      \* each instance's Subscribe
  inbox,    \* positions of log on their way to it: the first ChanSize of them
            \* in its channel at most, the others in its connection
  offered,  \* positions of log that it has handed to its hub
  \* History: not in the code.
  answered, \* events whose first attempt was answered
  since,    \* how far log was when the subscription that stands last missed
            \* something
  faults   \* how many broken connections, dropped messages and messages that
           \* are no event there were

busVars == <<pub, wire, log, answered>>
subVars == <<sub, inbox, offered, since, faults>>
vars    == <<busVars, subVars>>

Init ==
  /\ pub = [p \in Publishers |-> [pc |-> "idle", n |-> 0, k |-> 0]]
  /\ wire = {}
  /\ log = <<>>
  /\ sub = [i \in Instances |-> "start"]
  /\ inbox = [i \in Instances |-> <<>>]
  /\ offered = [i \in Instances |-> <<>>]
  /\ answered = {}
  /\ since = [i \in Instances |-> 0]
  /\ faults = 0

-----------------------------------------------------------------------------
(* Broadcast.                                                              *)

Attempt(p) == [p |-> p, n |-> pub[p].n, k |-> pub[p].k]

\* The first PUBLISH of an event.
Broadcast(p) ==
  /\ pub[p].pc = "idle"
  /\ pub[p].n < MaxEvents
  /\ pub' = [pub EXCEPT ![p] = [pc |-> "sent", n |-> @.n + 1, k |-> 1]]
  /\ wire' = wire \union {[p |-> p, n |-> pub[p].n + 1, k |-> 1]}
  /\ UNCHANGED <<log, answered, subVars>>

\* An attempt ends without an answer when there is no connection, when the
\* connection breaks, or when the client's read timeout is over.

\* Mutant: the attempts start again after the last one (none of them finds a
\* connection).
RetryForever(p) ==
  /\ pub[p].pc = "sent"
  /\ pub' = [pub EXCEPT ![p].k = 1 + (@ % MaxAttempts)]
  /\ UNCHANGED <<wire, log, answered, subVars>>

\* The attempt fails and the library tries once more.
Retry(p) ==
  /\ pub[p].pc = "sent"
  /\ pub[p].k < MaxAttempts
  /\ pub' = [pub EXCEPT ![p].k = @ + 1]
  /\ wire' = wire \union {[p |-> p, n |-> pub[p].n, k |-> pub[p].k + 1]}
  /\ UNCHANGED <<log, answered, subVars>>

\* The attempt fails, and it was the last one or the two seconds are over before
\* the next one: Publish returns an error, which Broadcast ignores.  The attempts
\* may still be under way.
GiveUp(p) ==
  /\ pub[p].pc = "sent"
  /\ pub' = [pub EXCEPT ![p].pc = "idle"]
  /\ UNCHANGED <<wire, log, answered, subVars>>

\* Mutant: Broadcast does not wait for the answer.
AnsweredEarly(p) ==
  /\ pub[p].pc = "sent"
  /\ pub' = [pub EXCEPT ![p].pc = "idle"]
  /\ answered' = IF pub[p].k = 1 THEN answered \union {<<p, pub[p].n>>} ELSE answered
  /\ UNCHANGED <<wire, log, subVars>>

\* The answer arrives and Broadcast returns.
Answered(p) ==
  /\ pub[p].pc = "sent"
  /\ Has(log, Attempt(p))
  /\ pub' = [pub EXCEPT ![p].pc = "idle"]
  /\ answered' = IF pub[p].k = 1 THEN answered \union {<<p, pub[p].n>>} ELSE answered
  /\ UNCHANGED <<wire, log, subVars>>

\* Redis executes a PUBLISH and sends its message to the subscribed
\* connections.
Deliver(message) ==
  /\ log' = Append(log, message)
  /\ inbox' = [i \in Instances |-> IF sub[i] = "on" THEN Append(inbox[i], Len(log) + 1)
                                                    ELSE inbox[i]]

Execute(x) ==
  /\ x \in wire
  /\ wire' = wire \ {x}
  /\ Deliver(x)
  /\ UNCHANGED <<pub, answered, sub, offered, since, faults>>

\* Environment: somebody else publishes what is no event.
ExecuteGarbage ==
  /\ faults < MaxFaults
  /\ faults' = faults + 1
  /\ Deliver(Garbage)
  /\ UNCHANGED <<pub, wire, answered, sub, offered, since>>

-----------------------------------------------------------------------------
(* Subscribe, in a goroutine of main.                                      *)

\* sub.Receive: the subscription is confirmed, or Subscribe returns an error,
\* which main logs; nothing starts it again.
SubscribeOk(i) ==
  /\ sub[i] = "start"
  /\ sub' = [sub EXCEPT ![i] = "on"]
  /\ since' = [since EXCEPT ![i] = Len(log)]
  /\ UNCHANGED <<busVars, inbox, offered, faults>>

SubscribeFails(i) ==
  /\ sub[i] = "start"
  /\ sub' = [sub EXCEPT ![i] = "ended"]
  /\ UNCHANGED <<busVars, inbox, offered, since, faults>>

\* Mutant: every message is handled in a goroutine of its own.
HandleAny(i) ==
  /\ sub[i] \in {"on", "broken"}
  /\ \E j \in 1 .. Len(inbox[i]) :
       /\ offered' = [offered EXCEPT ![i] = Append(@, inbox[i][j])]
       /\ inbox' = [inbox EXCEPT ![i] = SubSeq(@, 1, j - 1) \o SubSeq(@, j + 1, Len(@))]
  /\ UNCHANGED <<busVars, sub, since, faults>>

\* Mutant: of the messages that are waiting only the newest is handled.
HandleNewest(i) ==
  /\ sub[i] \in {"on", "broken"}
  /\ inbox[i] # <<>>
  /\ offered' = [offered EXCEPT ![i] = Append(@, inbox[i][Len(inbox[i])])]
  /\ inbox' = [inbox EXCEPT ![i] = <<>>]
  /\ UNCHANGED <<busVars, sub, since, faults>>

\* The loop takes a message and hands it to hub.Broadcast, unless
\* json.Unmarshal fails on it.
Handle(i) ==
  /\ sub[i] \in {"on", "broken"}
  /\ inbox[i] # <<>>
  /\ offered' = IF log[Head(inbox[i])] = Garbage
                THEN offered
                ELSE [offered EXCEPT ![i] = Append(@, Head(inbox[i]))]
  /\ inbox' = [inbox EXCEPT ![i] = Tail(@)]
  /\ UNCHANGED <<busVars, sub, since, faults>>

\* The context is cancelled and the loop ends.
Cancel(i) ==
  /\ sub[i] # "ended"
  /\ sub' = [sub EXCEPT ![i] = "ended"]
  /\ inbox' = [inbox EXCEPT ![i] = <<>>]
  /\ since' = [since EXCEPT ![i] = 0]
  /\ UNCHANGED <<busVars, offered, faults>>

\* Mutant: a broken connection ends the loop.
BreakEnds(i) ==
  /\ sub[i] = "on"
  /\ faults < MaxFaults
  /\ sub' = [sub EXCEPT ![i] = "ended"]
  /\ faults' = faults + 1
  /\ UNCHANGED <<busVars, inbox, offered, since>>

\* The subscribed connection breaks, and what was still in it is lost: at most
\* the channel and the message that the library is about to put there remain.
Break(i) ==
  /\ sub[i] = "on"
  /\ faults < MaxFaults
  /\ sub' = [sub EXCEPT ![i] = "broken"]
  /\ \E m \in 0 .. Len(inbox[i]) :
       /\ m <= ChanSize + 1
       /\ inbox' = [inbox EXCEPT ![i] = SubSeq(@, 1, m)]
  /\ faults' = faults + 1
  /\ since' = [since EXCEPT ![i] = 0]
  /\ UNCHANGED <<busVars, offered>>

\* The library subscribes again.
Resubscribe(i) ==
  /\ sub[i] = "broken"
  /\ sub' = [sub EXCEPT ![i] = "on"]
  /\ since' = [since EXCEPT ![i] = Len(log)]
  /\ UNCHANGED <<busVars, inbox, offered, faults>>

\* The channel has been full for a minute: the library drops the message that
\* it wants to put there.
DropFull(i) ==
  /\ sub[i] = "on"
  /\ faults < MaxFaults
  /\ Len(inbox[i]) > ChanSize
  /\ inbox' = [inbox EXCEPT ![i] = SubSeq(@, 1, ChanSize) \o SubSeq(@, ChanSize + 2, Len(@))]
  /\ LET dropped == inbox[i][ChanSize + 1]
     IN  since' = [since EXCEPT ![i] = IF dropped > @ THEN dropped ELSE @]
  /\ faults' = faults + 1
  /\ UNCHANGED <<busVars, sub, offered>>

-----------------------------------------------------------------------------
AttemptFails(p) == Retry(p) \/ GiveUp(p)
Publish(p) == Broadcast(p) \/ Answered(p) \/ AttemptFails(p)
Receive(i) == \/ SubscribeOk(i) \/ SubscribeFails(i) \/ Handle(i) \/ Cancel(i)
              \/ Break(i) \/ Resubscribe(i) \/ DropFull(i)

Next ==
  \/ \E p \in Publishers : Publish(p)
  \/ \E x \in wire : Execute(x)
  \/ ExecuteGarbage
  \/ \E i \in Instances : Receive(i)

Spec == Init /\ [][Next]_vars

\* The read timeout ends an attempt that is not answered (whether another one
\* follows is left open), and a goroutine with a message to handle runs.
\* Nothing is assumed of Redis or the network.
Fairness ==
  /\ \A p \in Publishers : WF_vars(AttemptFails(p))
  /\ \A i \in Instances : WF_vars(Handle(i))

FairSpec == Spec /\ Fairness

-----------------------------------------------------------------------------
(* Properties.                                                             *)

\* Every variable has its type.
TypeOK ==
  /\ pub \in [Publishers ->
                 [pc : {"idle"}, n : 0 .. MaxEvents, k : 0 .. MaxAttempts] \union
                 [pc : {"sent"}, n : 1 .. MaxEvents, k : 1 .. MaxAttempts]]
  /\ wire \subseteq Attempts
  /\ log \in Seq(Attempts \union {Garbage})
  /\ sub \in [Instances -> {"start", "on", "broken", "ended"}]
  /\ inbox \in [Instances -> Seq(Nat)]
  /\ offered \in [Instances -> Seq(Nat)]
  /\ answered \subseteq Publishers \X (1 .. MaxEvents)
  /\ since \in [Instances -> Nat]
  /\ faults \in Nat

\* The hubs of all instances are offered messages in one and the same order and
\* none of them twice: of two messages that both have reached two hubs, the same
\* came first at both, whatever was lost on the way.  (A message is one execution
\* of a PUBLISH.  An event that was executed twice is two messages, and two
\* clients that each saw one of them may place that event differently.)
OneOrder ==
  \A i, k \in Instances :
    \A a, b \in 1 .. Len(offered[i]), c, d \in 1 .. Len(offered[k]) :
      (offered[i][a] = offered[k][c] /\ offered[i][b] = offered[k][d])
        => (a < b <=> c < d)

\* What an instance missed is explained by an outage: as long as its
\* subscription has stood and no message was dropped, every event since then has
\* reached its hub or is on its way, also behind a message that is no event.
NoUnexplainedGap ==
  \A i \in Instances : sub[i] = "on" =>
    \A x \in since[i] + 1 .. Len(log) :
      Has(offered[i], x) \/ Has(inbox[i], x) \/ log[x] = Garbage

\* Of the messages of s the j-th is the only one with event e, and what e's
\* publisher sent later is behind it.
OnlyAt(s, j, e) ==
  \A m \in 1 .. Len(s) : s[m].p = e[1] =>
    /\ s[m].n = e[2] => m = j
    /\ s[m].n > e[2] => j < m

\* An event whose first attempt was answered is on the bus exactly once and
\* before everything its publisher has sent later, whatever repetitions and
\* timeouts the other events met.  (An event with a failed attempt may appear
\* several times, late, or never.)
AnsweredOnceInOrder ==
  \A e \in answered : \E j \in 1 .. Len(log) :
    log[j].p = e[1] /\ log[j].n = e[2] /\ OnlyAt(log, j, e)

\* The inductive invariants behind these.  Positions increase from the oldest
\* that was offered to the newest that is under way, and log has them all.
PositionsIncrease ==
  \A i \in Instances :
    /\ \A j, k \in 1 .. Len(offered[i]) : j < k => offered[i][j] < offered[i][k]
    /\ \A j \in 1 .. Len(offered[i]) : offered[i][j] <= Len(log)
    /\ \A j \in 1 .. Len(inbox[i]) : inbox[i][j] >= 1 /\ inbox[i][j] <= Len(log)
    /\ \A j, k \in 1 .. Len(inbox[i]) : j < k => inbox[i][j] < inbox[i][k]
    /\ \A j \in 1 .. Len(offered[i]), k \in 1 .. Len(inbox[i]) :
         offered[i][j] < inbox[i][k]

\* An attempt is made once and executed at most once, and an answered event
\* has no other attempt than the one that was executed.
AttemptsAreSpent ==
  /\ \A j, m \in 1 .. Len(log) : log[j] = log[m] /\ log[j] # Garbage => j = m
  /\ \A x \in Attempts : ~(x \in wire /\ Has(log, x))
  /\ \A x \in Attempts : x \in wire \/ Has(log, x) =>
       x.n <= pub[x.p].n /\ (x.n = pub[x.p].n => x.k <= pub[x.p].k)
  /\ \A x \in wire : <<x.p, x.n>> \notin answered
  /\ \A e \in answered :
       e[2] <= pub[e[1]].n /\ (e[2] = pub[e[1]].n => pub[e[1]].pc = "idle")

\* No state of Redis or the network holds a worker or a request handler in
\* Broadcast for good.  The context of two seconds does not see to that, since an
\* attempt that has been sent outlasts it: the read timeout and the limited
\* number of attempts do.
PublishReturns ==
  \A p \in Publishers : pub[p].pc = "sent" ~> pub[p].pc = "idle"

\* Messages that wait in an instance's channel are not left there: the loop takes
\* them, a cancelled context ends it, or they are lost with their connection; a
\* connection that breaks does not end the loop before it has taken them.
ReceivedIsOffered ==
  \A i \in Instances : inbox[i] # <<>> ~> (inbox[i] = <<>>)
=============================================================================
