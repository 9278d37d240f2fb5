SPECIFICATION Spec
CONSTANTS
    NumExposures = 2
    NumImages = 2
    ActualSteps = 2
    EstimatedSteps = 3
    MaxInbox = 2
INVARIANTS SpectrumTaskNeverDies
