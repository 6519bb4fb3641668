CONSTANTS
    MaxNum = 2
    MaxOverlay = 1
SPECIFICATION ExecSpec
INVARIANTS
    ExecTypeOK
PROPERTIES
    QuietBetweenBatches
    ImplementsForkWait
