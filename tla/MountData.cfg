CONSTANTS
    MaxApplications = 2
    Fields = 2
    Slots = 4
    Options <- Overlays
    LengthOf <- Lengths
SPECIFICATION Spec
INVARIANT MountDataFromConfig
