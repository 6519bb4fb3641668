CONSTANTS
    ChangeModes = {FALSE}
    SpuriousWakes = {FALSE}
    MaxSignals = 1
SPECIFICATION FairSpec
PROPERTIES
    SignalEndsProcess
CHECK_DEADLOCK FALSE
