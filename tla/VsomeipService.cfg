CONSTANTS
    ChangeModes = {FALSE, TRUE}
    SpuriousWakes = {FALSE, TRUE}
    MaxSignals = 2
SPECIFICATION FairSpec
INVARIANTS
    TypeOK
    PayloadBeforeSend
    SendOnlyOffered
    AtMostOneLateOffer
    NoLostOffer
PROPERTIES
    OfferThreadJoins
    CleanShutdown
CHECK_DEADLOCK FALSE
