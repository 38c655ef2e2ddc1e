\* A thread per transaction, as server.py gives each connection; a clean
\* restart, a fault point, a kill or a power loss, once, at any step of a
\* commit, of a recovery or between calls.
SPECIFICATION Spec
CONSTANTS
    Txn = {t1, t2}
    Key = {k1, k2}
    None = None
    SingleCaller = FALSE
    Incidents = {"close", "fault", "kill", "power"}
    MaxIncidents = 1
SYMMETRY Symmetry
\* Callers may stop calling, and every transaction is used once.
CHECK_DEADLOCK FALSE
INVARIANTS
    OnlyCommittedInCatalog
    Atomicity
    AbortedInvisible
    VisibleIsSynced
    FirstCommitterWins
