SPECIFICATION ContainerSpec
CONSTANTS
    ca_certs = ca_certs
    none = none
    shared = shared
    old = old
    cmd1 = cmd1
    cmd2 = cmd2
    Absent = Absent
    Partial = Partial
    Dests <- OneDest
    Wildcards <- NoWildcard
    Contents <- TwoContents
    Sources <- TwoContents
    Commands <- TwoCommands
    Strategies <- BothStrategies
    MaxSaves = 3
    CaDest = ca_certs
    Certs <- TwoCerts
    CertsOf <- MCCertsOf
    LegacyDirs <- TwoLegacyDirs
    FindAnswers = {FALSE, TRUE}
INVARIANT StartedIsUnchanged
