SPECIFICATION MasterSpec
CONSTANTS
  x = x
  y = y
  a1 = a1
  a2 = a2
  Domains = {x}
  Admins = {a1, a2}
  MaxVersion = 2
CHECK_DEADLOCK FALSE
INVARIANT OtherLinesStay
