SPECIFICATION Spec
CONSTANTS
    conf1 = conf1
    conf2 = conf2
    factory = factory
    new = new
    cmd = cmd
    Absent = Absent
    Partial = Partial
    Dests <- OneDest
    Wildcards <- NoWildcard
    Contents <- TwoContents
    Sources <- OneSource
    Commands <- OneCommand
    Strategies <- CopyAlways
    MaxSaves = 3
INVARIANT RemovedIsRestored
