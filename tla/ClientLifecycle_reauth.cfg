SPECIFICATION FairSpec
CONSTANTS
  t1 = t1
  t2 = t2
  w1 = w1
  Tokens = {t1, t2}
  Workers = {w1}
  None = None
  EnvToken = t1
  MaxMishaps = 1
CHECK_DEADLOCK FALSE
PROPERTY PendingDisconnectIsTaken
