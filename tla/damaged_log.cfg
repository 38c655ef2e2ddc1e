\* Threads; crashes of every kind, and appends that write short.  commit(),
\* recovery and the operator's restart are scheduled fairly; no symmetry, as
\* one of the properties is a liveness property.
SPECIFICATION FairSpec
CONSTANTS
    Txn = {t1, t2}
    Key = {k1}
    None = None
    SingleCaller = FALSE
    Incidents = {"close", "fault", "kill", "power", "short"}
    MaxIncidents = 3
\* Callers may stop calling, and every transaction is used once.
CHECK_DEADLOCK FALSE
INVARIANTS
    TypeOK
    CatalogOrdered
    CountersPastLog
PROPERTIES
    SyncedEventuallyReadable
