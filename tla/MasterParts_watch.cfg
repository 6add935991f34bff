SPECIFICATION Spec
CONSTANTS
  c1 = c1
  p1 = p1
  p2 = p2
  k1 = k1
  k2 = k2
  t1 = t1
  t2 = t2
  r1 = r1
  r2 = r2
  i1 = i1
  Checkers = {c1}
  Poller = Poller
  Endpoints = {p1, p2}
  Behaviours <- TwoBehaviours
  NoCamera = NoCamera
  CctvChanges = 3
  Commands = {k1, k2}
  Types = {"REAUTHENTICATE_AGENT", "CONNECTIVITY_CHECK", "UPDATE_MONITORING_POLICY", "OTHER"}
  Policies <- ThreePolicies
  Absent = Absent
  Null = Null
  Word = Word
  MaxMishaps = 2
  AwsRequests = {t1, t2}
  Regions = {r1, r2}
  Instances = {i1}
  LivesIn <- OneInstance
  NoKey = NoKey
  AwsChanges = 3
  x = x
  y = y
  a1 = a1
  a2 = a2
  Domains = {x, y}
  Admins = {a1, a2}
  MaxVersion = 3
CHECK_DEADLOCK FALSE
INVARIANT PartsTypeOK
INVARIANT TransitionsAddUp
PROPERTY StatusSettles
INVARIANT RecordTellsTheTruth
INVARIANT RestartBringsBackSettings
INVARIANT VersionNamesOnePolicy
 
