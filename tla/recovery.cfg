SPECIFICATION FairSpec
CONSTANTS
  MaxRow = 4
  Candidate <- Transactions
  PageLimit = 2
  Online = TRUE
  MaxAttempts = 1
  MaxTrouble = 1
INVARIANTS TypeOK ReportExact
PROPERTIES EveryPaymentAttempted
