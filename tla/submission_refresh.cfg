SPECIFICATION FairSpec
CONSTANTS
  Caller = {c1}
  LastStep = 2
  Parents <- ParentsOf
  MaxRefreshes = 3
  MaxAttempts <- Once
  MaxTip = 4
  MaxTrouble = 0
PROPERTIES AbortEnds
