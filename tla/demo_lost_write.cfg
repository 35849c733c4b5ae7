\* A process saves over what another one saved.
SPECIFICATION Spec
CONSTANTS
    a = a
    b = b
    p1 = p1
    p2 = p2
    t1 = t1
    NoId = NoId
    Absent = Absent
    NoRow = NoRow
    NoFile = NoFile
    HalfFile = HalfFile
    Managed = TRUE
    Ids = {a, b}
    Titles = {t1}
    Payloads <- PlainPayloads
    Processes = {p1, p2}
    SeedCalls <- PublishedRecord
    MayCrash = FALSE
    MayFail = FALSE
    FineClock = TRUE
    MaxWrites = 3
INVARIANT
    AcknowledgedWritesSurvive
