\* The documented calls on one record.
SPECIFICATION Spec
CONSTANTS
    k1 = k1
    k2 = k2
    s1 = s1
    s2 = s2
    x = x
    here = here
    localhost = localhost
    elsewhere = elsewhere
    Loopbacks = {localhost}
    NoHost = NoHost
    NoUrl = NoUrl
    NoKey = NoKey
    NoCredential = NoCredential
    StaticKey = StaticKey
    Nobody = Nobody
    Sessions = {s1}
    Keys = {k1}
    Requests <- DocumentedRequests
    Configs <- StaticConfig
    MaxFailures = 0
    MaxRevokes = 1
INVARIANT
    DocumentedAnswers
