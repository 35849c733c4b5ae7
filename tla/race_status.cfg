\* Two calls race: a finished record comes back as published.
SPECIFICATION Spec
CONSTANTS
    a = a
    b = b
    s1 = s1
    s2 = s2
    t1 = t1
    t2 = t2
    NoId = NoId
    Absent = Absent
    NoRow = NoRow
    Managed = TRUE
    Ids = {a}
    Titles = {t1}
    Sessions = {s1, s2}
    Payloads <- PlainPayloads
    MaxCommits = 4
PROPERTY
    StatusFollowsLifecycle
