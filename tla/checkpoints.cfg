\* Crashes of every kind and errors, in and between checkpoints of up to three
\* pages by a pool of two; a caller that holds one page at a time.
SPECIFICATION Spec
CONSTANTS
    MaxPages = 2
    PageLimit = 3
    MaxChanges = 3
    MaxCommits = 1
    MaxHeld = 1
    Incidents = {"kill", "power", "torn", "error"}
    MaxIncidents = 2
INVARIANTS
    TypeOK
    ReadsLatest
    CheckpointOnDisk
    CheckpointKept
PROPERTIES
    GrowsOnlyWhenDirty
\* With every bound used up and nothing to read, the caller is done.
CHECK_DEADLOCK FALSE
