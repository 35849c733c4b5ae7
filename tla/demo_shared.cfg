\* Two processes over one file; they die, and file operations fail, anywhere.
SPECIFICATION Spec
CONSTANTS
    a = a
    b = b
    p1 = p1
    p2 = p2
    t1 = t1
    NoId = NoId
    Absent = Absent
    NoRow = NoRow
    NoFile = NoFile
    HalfFile = HalfFile
    Managed = TRUE
    Ids = {a, b}
    Titles = {t1}
    Payloads <- DemoPayloads
    Processes = {p1, p2}
    SeedCalls <- PublishedRecord
    MayCrash = TRUE
    MayFail = TRUE
    FineClock = FALSE
    MaxWrites = 3
SYMMETRY ProcessSymmetry
INVARIANTS
    AloneWritesSurvive
    AloneWorksOnLatest
PROPERTIES
    ReadingNeverBlanks
    AloneSeedingReplacesNothing
