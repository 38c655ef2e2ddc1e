\* Threads; repeated crashes of every kind, and appends and syncs that raise.
SPECIFICATION Spec
CONSTANTS
    Txn = {t1, t2}
    Key = {k1}
    None = None
    SingleCaller = FALSE
    Incidents = {"close", "fault", "kill", "power", "raise"}
    MaxIncidents = 3
SYMMETRY Symmetry
\* Callers may stop calling, and every transaction is used once.
CHECK_DEADLOCK FALSE
INVARIANTS
    Durability
    CommitsOrdered
PROPERTIES
    SyncedLogKept
