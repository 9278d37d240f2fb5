SPECIFICATION FairSpec
CONSTANTS
    g1 = g1
    g2 = g2
    g3 = g3
    NoGuid = NoGuid
    Guids <- TwoGuids
    NumExposures = 1
    NumImages = 2
    MaxImages = 2
    ImageModes <- SingleMode
    Patient = FALSE
    FaultyCalls <- SomeCalls
    Repeats = TRUE
    DeviceErrors = TRUE
INVARIANTS
    NoLostStart
    WakeUpOwed
PROPERTIES
    ExposureEnds
