SPECIFICATION FairSpec
CONSTANTS
    Chains <- TheChains
    Paid = 9
    Confirmations = 2
    Capacity = 2
    MaxReads = 2
    MaxMoves = 2
    MaxForeign = 1
INVARIANTS ObservationCoherent StatesInOrder
PROPERTY CutEnds
