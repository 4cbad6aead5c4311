SPECIFICATION Spec
SYMMETRY Symmetry
CONSTANTS
  Request = {r1, r2}
  Cli = {c1}
  Email = {e1, e2}
  Password = {p1}
  NoUser = NoUser
  Role = {"admin", "viewer"}
  AccessTTL = 1
  RefreshTTL = 2
  EphemeralKey = TRUE
  RequireMfa = TRUE
INVARIANTS SessionsAreLogins RightsAreHandedDown OneFirstAdmin AccessEndsWithSession
CHECK_DEADLOCK FALSE
