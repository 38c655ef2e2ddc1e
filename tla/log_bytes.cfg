\* Three records with payloads of none and one byte, and two incidents; two
\* bytes for an integer are enough to cut one in two.
SPECIFICATION Spec
CONSTANTS
    IntSize = 2
    Lengths = {0, 1}
    MaxRecords = 3
    MaxIncidents = 2
INVARIANTS
    TypeOK
    ReadsWhatWasAppended
    SyncedAreRead
    AppendsAreReadable
PROPERTIES
    ImplementsRecordLog
