SPECIFICATION Spec
CONSTANTS
  c1 = c1
  c2 = c2
  c3 = c3
  c4 = c4
  p1 = p1
  p2 = p2
  Port = {p1, p2}
  Call = {c1, c2, c3}
  Request <- WorkRequests
  MaxQueuedJobs = 2
  MaxQueuedBytes = 3
  NoCall = NoCall
SYMMETRY Symmetry
INVARIANTS TypeOK ReceiptsHonest OneCommandAtATime NoLostWakeup CloseDrains
PROPERTIES ImplementsReceipts
