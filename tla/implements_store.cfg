\* One caller; clean restarts and crashes at the compiled-in fault points.
SPECIFICATION Spec
CONSTANTS
    Txn = {t1, t2, t3}
    Key = {k1}
    None = None
    SingleCaller = TRUE
    Incidents = {"close", "fault"}
    MaxIncidents = 2
SYMMETRY Symmetry
\* Callers may stop calling, and every transaction is used once.
CHECK_DEADLOCK FALSE
PROPERTIES
    ImplementsStore
INVARIANTS
    SnapshotReads
    NoLostUpdate
