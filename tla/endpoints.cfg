SPECIFICATION Spec
CONSTANTS
    Attempts = 2
    HeaderBytes = 2
    MaxMessages = 2
    MaxLength = 2
    Bodies <- MCBodies
    MaxItems = 2
    From = 1
    To = 3
    Chains <- MCChains
    Carriers <- MCCarriers
    RootHeights <- MCRootHeights
    Confirmations = 2
    AskedHeight = 3
    Inventories <- MCInventories
    Kinds <- MCKinds
    MaxManifestBytes = 2
    MaxAssetBytes = 2
    MaxTotalBytes = 5
    MaxFiles = 4
    AssetBytes = 2
INVARIANTS StreamsExact GivenBack AnswersTrue
PROPERTIES ImplementsCall ExchangesEnd
