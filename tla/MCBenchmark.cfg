CONSTANTS
    MaxNum = 2
    MaxOverlay = 2
    Rounds <- TwoRounds
SPECIFICATION BenchFairSpec
INVARIANTS
    BenchTypeOK
    SoundCommandsSucceed
    MeasuredContainersRun
    RootMountedOnce
    RoundLeavesNothing
PROPERTIES
    BenchmarkEnds
