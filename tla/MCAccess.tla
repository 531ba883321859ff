------------------------------ MODULE MCAccess ------------------------------
(* Symmetric sets of model values for the run of Access, and its bound.    *)
EXTENDS Access, TLC

AccessSymmetry ==
  UNION {Permutations(UserIDs), Permutations(Usernames), Permutations(Tokens)}

\* Bound: no refresh token outlives its lifetime.  (Access tokens do; to the
\* properties of this run an expired refresh token is one logged out.)
NoneExpired == \A t \in Live : ~refresh[t].expired

BoundedAccessSpec == AccessInit /\ [][AccessNext /\ NoneExpired']_allVars
=============================================================================
