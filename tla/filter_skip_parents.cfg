CONSTANTS
    base = base
    openstack = openstack
    nova = nova
    redis = redis
    NoImage = NoImage
    Images <- MCImages
    Parent <- MCParent
SPECIFICATION Spec
INVARIANT SkipParentsKeepsRequested
