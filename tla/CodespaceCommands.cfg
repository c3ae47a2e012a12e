CONSTANTS
  MaxChanges = 3
  MaxFaults = 3
  Steps = 3
  Codespaces = {c1, c2}
  MaxManaged = 2
  Visibilities = {private, org, public}
  Protocols = {http, https}
  Default = private
  HTTP = http
  Forwards = TRUE
SPECIFICATION CommandsSpec
INVARIANTS NoSecondStart AllAccounted OneConnection UpdateHonest StepsWaitedFor
PROPERTIES AgreedOnly GetsReady CommandsEnd KeptAlive
CHECK_DEADLOCK FALSE
