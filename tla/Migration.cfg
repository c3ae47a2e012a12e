CONSTANTS
  a = a
  b = b
  t1 = t1
  t2 = t2
  Procs = {p1, p2}
  Hosts = {h1, h2}
  Users = {a, b}
  Tokens = {t1, t2}
  Owner <- MCOwner
  NoUser = NoUser
  Anonymous = Anonymous
  NoToken = NoToken
  MaxFaults = 1
  MaxRuns = 3
SPECIFICATION Spec
INVARIANTS TokensKept MigrationSound
CHECK_DEADLOCK FALSE
