SPECIFICATION Spec
CONSTANTS
    g1 = g1
    g2 = g2
    g3 = g3
    NoGuid = NoGuid
    Guids <- TwoGuids
    NumExposures = 2
    NumImages = 2
    MaxImages = 2
    ImageModes <- MultipleMode
    Patient = TRUE
    FaultyCalls <- NoCalls
    Repeats = FALSE
    DeviceErrors = FALSE
INVARIANTS ActiveForFirstFrame
