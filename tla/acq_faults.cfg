SPECIFICATION Spec
CONSTANTS
    g1 = g1
    g2 = g2
    g3 = g3
    NoGuid = NoGuid
    Guids <- ThreeGuids
    NumExposures = 2
    NumImages = 2
    MaxImages = 2
    ImageModes <- MultipleMode
    Patient = TRUE
    FaultyCalls <- AllCallsButFinish
    Repeats = FALSE
    DeviceErrors = FALSE
SYMMETRY SameGuids
INVARIANTS
    ImageComplete
    CountedExposuresCompleted
    NoStaleCallback
    CleanupCanSucceed
PROPERTIES
    ImplementsImages
