SPECIFICATION Spec
CONSTANTS
  Clients = {8}
  Topics = {t1, t2}
  Packets <- Lists
  MaxPid = 2
  CtxIds = {x1, x2}
  Workers = {w1}
  MaxPubs = 1
  Allow = {}
  None = None
  t1 = t1
  t2 = t2
CHECK_DEADLOCK FALSE
INVARIANT AllServed
