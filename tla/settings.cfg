CONSTANTS
    LensModes <- MCLensModes
    PassEnergies <- MCPassEnergies
    DetectorModes = {"Image", "Event"}
    MaxSize <- MCMaxSize
    Camera <- MCCamera
    Analyser <- MCAnalyser
    Database <- MCDatabase
    Written <- MCWritten
    MaxWrites = 3

SPECIFICATION Spec

INVARIANTS
    DefinitionCurrent
    WithinLimits
    
    EtaShown
    SweepCoversRange

 
