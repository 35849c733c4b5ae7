\* Two sessions and two records, one of which may name the other as its
\* prerequisite: every interleaving of reads, writes, failures and crashes.
SPECIFICATION WatchedSpec
CONSTANTS
    a = a
    b = b
    s1 = s1
    s2 = s2
    t1 = t1
    t2 = t2
    NoId = NoId
    Absent = Absent
    NoRow = NoRow
    Managed = TRUE
    Ids = {a, b}
    Titles = {t1}
    Sessions = {s1, s2}
    Payloads <- DependencyPayloads
    MaxCommits = 4
SYMMETRY SessionSymmetry
INVARIANTS
    TypeOK
    HeadMatchesTrail
    RevisionHistoryGapFree
    TransitionsFromLegalBase
    AuditTellsLifetimes
    PrerequisiteWasPublished
    AnsweredMutationIsRecorded
PROPERTIES
    ImplementsSnapshotContract
    AloneImplementsSerialContract
