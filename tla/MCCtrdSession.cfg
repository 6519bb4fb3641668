CONSTANTS
    MaxNum = 2
    Batches <- UniformBatches
    Script <- TwoTests
    Expected <- StagesOfTwoTests
SPECIFICATION SessionFairSpec
INVARIANTS
    SessionTypeOK
    SoundCallsSucceed
    MeasuredTasksRun
    NoOrphanTask
    SessionLeavesNothing
PROPERTIES
    SessionEnds
