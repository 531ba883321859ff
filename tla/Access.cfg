SPECIFICATION BoundedAccessSpec
CONSTANTS
  UserIDs = {u1, u2}
  Usernames = {n1, n2}
  Passwords = {p1}
  Roles = {viewer, admin}
  RoleLists = {{viewer}, {admin}}
  Viewer = viewer
  Admin = admin
  Tokens = {t1, t2}
  Requests = {r1}
  Updaters = {a1}
  NoUser = NoUser
  NoToken = NoToken
  Keep = Keep
  Mongo = TRUE
  CallsMayFail = FALSE
  TTL = 0
  DefaultTTL = 2
  MaxTime = 2
SYMMETRY AccessSymmetry
INVARIANTS
  StaleAccessDiesOut
PROPERTIES
  NoAuthorityFromNothing
