--------------------------- MODULE MCAuthSessions ---------------------------
(* Sets of model values for the runs of AuthSessions, and the bounds of    *)
(* the first.                                                              *)
EXTENDS AuthSessions, FiniteSets, TLC

AuthSymmetry ==
  UNION {Permutations(UserIDs), Permutations(Usernames), Permutations(Passwords),
         Permutations(Tokens), Permutations(Requests)}

\* Bounds: one failed write at a time may yet be executed, and of the first
\* account only; the lifetime of one valid token at a time has passed; an
\* account is created while no Login or Refresh is under way.
Bounds ==
  /\ Cardinality(late') <= 1
  /\ late' # {} => Cardinality(used) = 1
  /\ Cardinality({t \in Live : refresh[t].expired})' <= 1
  /\ used' = used \/ \A c \in Requests : req[c] = Idle

BoundedSpec == Init /\ [][Next /\ Bounds]_vars
=============================================================================
