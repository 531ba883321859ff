SPECIFICATION BoundedSpec
CONSTANTS
  UserIDs = {u1, u2}
  Usernames = {n1}
  Passwords = {p1, p2}
  Roles = {viewer}
  RoleLists = {}
  Viewer = viewer
  Admin = viewer
  Tokens = {t1, t2}
  Requests = {r1, r2}
  Updaters = {a1}
  NoUser = NoUser
  NoToken = NoToken
  Keep = Keep
  Mongo = TRUE
  CallsMayFail = TRUE
SYMMETRY AuthSymmetry
INVARIANTS
  UniqueUsernames
  RotationReplaces
  NoPairForDeletedUser
  SessionsMatchPassword
