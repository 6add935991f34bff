SPECIFICATION FairSpec
CONSTANTS
  d1 = d1
  t1 = t1
  t2 = t2
  r1 = r1
  r2 = r2
  Devices = {d1}
  Tokens = {t1}
  Owner <- OneToken
  Reqs = {r1, r2}
  Timeout = 1
  Expiry = 0
  AdminStatuses = {"online", "offline"}
  Null = Null
PROPERTY SilentGoesOffline
PROPERTY UnpairedGoesOffline
