SPECIFICATION Spec
CONSTANTS
    main = main
    plugin = plugin
    master = master
    j2 = j2
    j2new = j2new
    fix = fix
    fix2 = fix2
    None = None
    Torn = Torn
    NoSeries = NoSeries
    Main = main
    Plugins <- OnePlugin
    Labels <- OneLabel
    Templates <- TwoTemplates
    Patches <- TwoPatches
    PartOf <- NameParts
    SeriesChoices <- TwoSeries
    Parents <- MCParents
    Good <- TwoPatches
    Retries = 1
    MaxVersion = 2
    MaxRuns = 2
CHECK_DEADLOCK FALSE
INVARIANTS
    TypeOK
    ContextIsCurrent
    NothingForeign
 
