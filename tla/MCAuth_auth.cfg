\* Two callers, three requests, one failed write or crash, two families of up to three tokens.
SPECIFICATION Spec
CONSTANTS
  Users = {"admin", "ann"}
  Admin = "admin"
  NFams = 2
  MaxGen = 3
  Callers = {p, q}
  Passwords = {1, 2}
  NSecrets = 2
  MaxCalls = 3
  MaxFaults = 1
INVARIANTS AdminRemains SingleUse
PROPERTY RevokedStays
SYMMETRY Alike
CHECK_DEADLOCK FALSE
