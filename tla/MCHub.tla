------------------------------- MODULE MCHub -------------------------------
(***************************************************************************)
(* Hub for TLC, with a stream of broadcasts that never ends.  MaxEvents    *)
(* bounds the events that are told apart.  At the bound a publisher's      *)
(* first event, once it is on its way to nobody, may be forgotten: the     *)
(* later ones are renumbered and there is room for another broadcast.      *)
(***************************************************************************)
EXTENDS Hub

First(p) == [from |-> p, seq |-> 1]

OnItsWay(e) ==
  \/ pub[e.from] = "sending" /\ e = Current(e.from)
  \/ \E h \in Handlers : \/ \E i \in DOMAIN buffer[h] : buffer[h][i] = e
                         \/ inhand[h] = <<e>>

Forget(p) ==
  LET renumber(e) == IF e.from = p THEN [e EXCEPT !.seq = @ - 1] ELSE e
      rest(s)     == LET kept == SelectSeq(s, LAMBDA e : e # First(p))
                     IN  [i \in DOMAIN kept |-> renumber(kept[i])]
  IN  /\ sent[p] >= 1
      /\ Cardinality(Begun) = MaxEvents
      /\ ~OnItsWay(First(p))
      /\ sent' = [sent EXCEPT ![p] = @ - 1]
      /\ buffer' = [h \in Handlers |-> rest(buffer[h])]
      /\ inhand' = [h \in Handlers |-> rest(inhand[h])]
      /\ written' = [h \in Handlers |-> rest(written[h])]
      /\ dropped' = [h \in Handlers |->
                       {renumber(e) : e \in dropped[h] \ {First(p)}}]
      /\ joined' = [h \in Handlers |->
                      [joined[h] EXCEPT ![p] = IF @ >= 1 THEN @ - 1 ELSE 0]]
      /\ UNCHANGED <<subscribers, writer, pub, todo, handler, reader, connected>>

StreamSpec ==
  /\ Init
  /\ [][Next \/ \E p \in Publishers : Forget(p)]_vars
  /\ Fairness
=============================================================================
