CONSTANTS
    ChangeModes = {TRUE}
    SpuriousWakes = {FALSE}
    MaxSignals = 2
SPECIFICATION Spec
INVARIANTS
    FlagsBeforeThreads
CHECK_DEADLOCK FALSE
