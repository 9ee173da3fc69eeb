SPECIFICATION Spec
CONSTANTS
    ctl1 = ctl1
    ctl11 = ctl11
    NoCert = NoCert
    Torn = Torn
    Haproxies <- TwoHosts
    LooksLocal <- Addresses
    MaxCerts = 2
    MaxOutages = 2
INVARIANTS
    TypeOK
    VisitedServesLast
    RestartIsHarmless
