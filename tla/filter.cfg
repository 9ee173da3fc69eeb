CONSTANTS
    base = base
    openstack = openstack
    nova = nova
    redis = redis
    NoImage = NoImage
    Images <- MCImages
    Parent <- MCParent
SPECIFICATION Spec
INVARIANTS
    TypeOK
    FilterIsOrderIndependent
    FilterYieldsPlan
PROPERTY UnbuildableStays
