\* Keys are made, used and revoked while requests with them are under way.
SPECIFICATION Spec
CONSTANTS
    k1 = k1
    k2 = k2
    s1 = s1
    s2 = s2
    x = x
    here = here
    localhost = localhost
    elsewhere = elsewhere
    Loopbacks = {localhost}
    NoHost = NoHost
    NoUrl = NoUrl
    NoKey = NoKey
    NoCredential = NoCredential
    StaticKey = StaticKey
    Nobody = Nobody
    Sessions = {s1, s2}
    Keys = {k1, k2}
    Requests <- ServerRequests
    Configs <- OpenAndClosed
    MaxFailures = 1
    MaxRevokes = 1
SYMMETRY Symmetry
INVARIANTS
    TypeOK
    ServedRequestsWereGranted
    RefusalsAreDeserved
    UnshownKeysComeFromFailures
    KeyAuditFollowsKeys
