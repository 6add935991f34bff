SPECIFICATION Spec
CONSTANTS
  d1 = d1
  t1 = t1
  t2 = t2
  r1 = r1
  r2 = r2
  Devices = {d1}
  Tokens = {t1, t2}
  Owner <- OwnedByD1
  Reqs = {r1, r2}
  Timeout = 0
  Expiry = 0
  AdminStatuses = {"online", "offline"}
  Null = Null
SYMMETRY Threads
INVARIANT TypeOK
INVARIANT PairedIsBacked
INVARIANT OneLiveCredential
INVARIANT NoOrphanCredential
INVARIANT PairingInFlight
