CONSTANTS
  a = a
  b = b
  a1 = a1
  a2 = a2
  b1 = b1
  Procs = {p1, p2}
  Hosts = {h1}
  Users = {a, b}
  Tokens = {a1, b1}
  Owner <- MCOwner
  NoUser = NoUser
  NoToken = NoToken
  FaultKinds = {"error", "timeout", "write", "crash"}
  MaxFaults = 1
  MaxRuns = 3
SPECIFICATION Spec
INVARIANTS OwnershipInv
CHECK_DEADLOCK FALSE
