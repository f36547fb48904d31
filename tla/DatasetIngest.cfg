SPECIFICATION Spec
CHECK_DEADLOCK FALSE
CONSTANTS
    Submitted <- MCSubmitted
    DatasetsPerProducer = 2
    MaxWorkers = 2
    Unit = 256
    SamplesPerFile = 2
    MaxRuns = 2
    MaxFaults = 2
INVARIANTS
    PassedItemsAreAccountedFor
    NothingPassedIsSentAgain
    ADueSaveIsMissingForAReason
    SilentLossIsBounded
PROPERTIES
    OnlyCutsAndMisreadsForget
    EveryRunEnds
