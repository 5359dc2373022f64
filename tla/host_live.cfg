SPECIFICATION LiveSpec
CONSTANTS
  c1 = c1
  c2 = c2
  c3 = c3
  c4 = c4
  p1 = p1
  p2 = p2
  Port = {p1, p2}
  NoCall = NoCall
  MaxQueuedJobs = 2
  MaxQueuedBytes = 3
  Call = {c1, c2, c3, c4}
  Request <- LiveRequests
INVARIANT BudgetExact
PROPERTY EveryCallSettles
