\* Two runs at once, failures, and editors; the page holds all drafts.
SPECIFICATION FairSpec
CONSTANTS
    j1 = j1
    j2 = j2
    NoId = NoId
    Absent = Absent
    NoRow = NoRow
    NoTime = NoTime
    Managed = TRUE
    Titles = {}
    Payloads = {}
    Ids = {1, 2}
    Runners = {j1, j2}
    PageLimit = 2
    ListsNewestFirst = TRUE
    MaxTime = 2
    MaxEdits = 2
    MaxFailures = 1
PROPERTIES
    JobPublishesWhatWasDue
    DeletedStaysDeleted
    ReadyDraftsAreServed
