SPECIFICATION FairSpec
CONSTANTS
  x = x
  y = y
  a1 = a1
  a2 = a2
  Domains = {x}
  Admins = {a1}
  MaxVersion = 3
  VersionOnly = TRUE
  PortsExclusive = TRUE
  Faults = {}
  MaxFaults = 0
  MaxRestarts = 0
  NoCache = NoCache
PROPERTY Converges
