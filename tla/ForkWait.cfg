CONSTANTS
    MaxNum = 4
SPECIFICATION FairSpec
INVARIANTS
    TypeOK
    LaunchedIsSuffix
    NoChildLeftBehind
PROPERTIES
    ImplementsBatch
    EveryBatchReturns
