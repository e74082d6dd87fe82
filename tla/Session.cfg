SPECIFICATION Spec
CONSTANTS
  Clients = {8}
  Topics = {t1, t2}
  Packets <- Lists
  MaxPid = 3
  CtxIds = {x1, x2}
  Workers = {w1}
  MaxPubs = 2
  Allow = {}
  None = None
  t1 = t1
  t2 = t2
INVARIANTS TypeOK HashTreeAgree CtxAgree CtxLiveIffUsed NeverAbsent HashVacant SteadyServed
PROPERTY HandlersEnd
CHECK_DEADLOCK FALSE
