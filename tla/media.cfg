\* Two requests at a time on two uploads, with failing steps and crashes.
SPECIFICATION Spec
CONSTANTS
    m1 = m1
    m2 = m2
    s1 = s1
    s2 = s2
    NoMedia = NoMedia
    Media = {m1, m2}
    Sessions = {s1, s2}
    MaxFailures = 2
SYMMETRY Symmetry
INVARIANTS
    TypeOK
    OrphansComeFromFailures
    ListedMediaHasFile
    UploadsAreKept
    DeletedIsGone
    AuditedOnce
PROPERTY
    OnlyWholeFilesServed
