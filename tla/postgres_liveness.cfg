\* Every call returns, although writers of one row wait for each other; the
\* record may name itself as its prerequisite.
SPECIFICATION FairSpec
CONSTANTS
    a = a
    b = b
    s1 = s1
    s2 = s2
    t1 = t1
    t2 = t2
    NoId = NoId
    Absent = Absent
    NoRow = NoRow
    Managed = TRUE
    Ids = {a}
    Titles = {t1}
    Sessions = {s1, s2}
    Payloads <- PrerequisitePayloads
    MaxCommits = 4
PROPERTY
    RequestsEnd
