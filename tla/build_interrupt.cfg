CONSTANTS
    base = base
    openstack = openstack
    nova = nova
    redis = redis
    b1 = b1
    b2 = b2
    p1 = p1
    NoImage = NoImage
    Images <- PairImages
    Parent <- PairParent
    BuildThreads <- MCBuildThreads
    PushThreads <- MCPushThreads
    Confs <- InterruptConfs
    AllowedToFail = {openstack}
    MaxInterrupts = 2
SPECIFICATION Spec
SYMMETRY ThreadSymmetry
INVARIANTS
    OneWriterPerImage
    ExitZeroIsHonest
    CleanupAfterWorkers
