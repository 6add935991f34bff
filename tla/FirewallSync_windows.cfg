SPECIFICATION FairSpec
CONSTANTS
  x = x
  y = y
  a1 = a1
  a2 = a2
  Domains = {x}
  Admins = {a1, a2}
  MaxVersion = 1
  VersionOnly = FALSE
  PortsExclusive = FALSE
  Faults = {"hosts", "quic", "port", "unhosts", "unquic", "cache"}
  MaxFaults = 1
  MaxRestarts = 1
  NoCache = NoCache
INVARIANT SyncTypeOK
PROPERTY Converges
