SPECIFICATION FairSpec
CONSTANTS
  UserIDs = {u1}
  Usernames = {n1}
  Passwords = {p1}
  Roles = {viewer, admin}
  RoleLists = {{}, {viewer}, {admin}}
  Viewer = viewer
  Admin = admin
  Tokens = {t1}
  Requests = {r1}
  Updaters = {a1, a2}
  NoUser = NoUser
  NoToken = NoToken
  Keep = Keep
  Mongo = FALSE
  CallsMayFail = FALSE
PROPERTY
  NilRolesKeepsRoles
