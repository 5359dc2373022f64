SPECIFICATION Spec
CONSTANTS
  MaxRow = 4
  Candidate <- Transactions
  PageLimit = 2
  Online = TRUE
  MaxAttempts = 1
  MaxTrouble = 0
INVARIANTS OnlyLocalFailureRejects
