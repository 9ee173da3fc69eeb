SPECIFICATION Spec
CONSTANTS
    conf1 = conf1
    conf2 = conf2
    factory = factory
    new = new
    cmd = cmd
    Absent = Absent
    Partial = Partial
    Dests <- TwoDests
    Wildcards <- SecondIsWildcard
    Contents <- TwoContents
    Sources <- OneSource
    Commands <- OneCommand
    Strategies <- BothStrategies
    MaxSaves = 3
INVARIANTS
    TypeOK
    UpMeansApplied
    DefaultKept
    RemovedIsUndone
PROPERTIES
    TrackedIsKept
    RestoreFindsDefault
    ConfiguredIsFrozen
