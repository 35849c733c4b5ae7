\* Two requests at a time on two records.
SPECIFICATION WatchedSpec
CONSTANTS
    a = a
    b = b
    s1 = s1
    s2 = s2
    t1 = t1
    t2 = t2
    NoId = NoId
    Absent = Absent
    NoRow = NoRow
    Managed = TRUE
    Ids = {a, b}
    Titles = {t1, t2}
    Sessions = {s1, s2}
    Payloads <- DependencyPayloads
    MaxCommits = 4
SYMMETRY SessionSymmetry
INVARIANTS
    RowIsARevision
    RevisionsAndAuditPairUp
    QuietHistoryLegal
    AnsweredMutationIsRecorded
    AloneHeadMatchesTrail
PROPERTY
    AloneImplementsSerialUpserts
