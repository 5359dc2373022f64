SPECIFICATION FairSpec
CONSTANTS
    Chains <- TheChains
    Requests <- TheRequests
    Birthday = 1
    ScanBatchSize = 2
    MaxAttempts = 2
    MaxPasses = 2
    Stream = 3
    AddressBatch = 2
    MaxRequests = 2
INVARIANT TargetServed
PROPERTIES RewindJustified EvidenceCoherent RunEnds
