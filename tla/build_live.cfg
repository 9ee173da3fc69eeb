CONSTANTS
    base = base
    openstack = openstack
    nova = nova
    redis = redis
    b1 = b1
    b2 = b2
    p1 = p1
    NoImage = NoImage
    Images <- PairImages
    Parent <- PairParent
    BuildThreads <- OneBuildThread
    PushThreads <- MCPushThreads
    Confs <- RetryConfs
    AllowedToFail = {openstack}
    MaxInterrupts = 1
SPECIFICATION FairSpec
PROPERTIES
    
    BuiltIsPushed
    ImplementsImageBuilds
