CONSTANTS
    MaxNum = 2
    Batches <- MixedBatches
SPECIFICATION CtrdSpec
INVARIANTS
    CtrdTypeOK
PROPERTIES
    QuietBetweenBatches
    ImplementsForkWait
