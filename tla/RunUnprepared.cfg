CONSTANTS
    MaxNum = 2
    Batches <- UniformBatches
SPECIFICATION CtrdSpec
INVARIANTS
    RunNeedsNoPrepare
