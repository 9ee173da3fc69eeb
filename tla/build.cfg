CONSTANTS
    base = base
    openstack = openstack
    nova = nova
    redis = redis
    b1 = b1
    b2 = b2
    p1 = p1
    NoImage = NoImage
    Images <- TreeImages
    Parent <- TreeParent
    BuildThreads <- MCBuildThreads
    PushThreads <- MCPushThreads
    Confs <- TreeConfs
    AllowedToFail = {redis}
    MaxInterrupts = 0
SPECIFICATION Spec
SYMMETRY ThreadSymmetry
INVARIANTS
    TypeOK
    OneWriterPerImage
    ParentBuiltFirst
    UnfinishedIsExact
    ExitZeroIsHonest
    UntriedOnlyBelowFailure
    ParentErrorNeedsPush
PROPERTY BuiltIsNotRebuilt
