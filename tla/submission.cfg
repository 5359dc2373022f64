SPECIFICATION Spec
CONSTANTS
  Caller = {c1, c2}
  LastStep = 2
  Parents <- ParentsOf
  MaxRefreshes = 1
  MaxAttempts <- Retried
  MaxTip = 2
  MaxTrouble = 2
SYMMETRY Symmetry
INVARIANTS TypeOK OneTransmission OutcomeHonest
PROPERTIES Serialized EvidenceFirst
