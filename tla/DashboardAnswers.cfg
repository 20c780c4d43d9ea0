\* Four acts of users, failures included, each while at most one handler is under way.
CONSTANTS
    None = None
    u1 = u1
    u2 = u2
    k1 = k1
    k2 = k2
    Users <- MCUsers
    Keys <- MCKeys
    AtFirst <- MCAtFirst
    MaxModels = 2
    MaxVersions = 2
    MaxInFlight = 1
    MaxActs = 4
SPECIFICATION FairSpec
INVARIANTS TypeOK ShownIsSelected ShownIsOwn DetailIsListed
PROPERTY ButtonComesBack
CHECK_DEADLOCK FALSE
