\* A redo record that a crash left without its COMMIT, and two restarts.
SPECIFICATION Spec
CONSTANTS
    Txn = {t1, t2}
    Key = {k1}
    None = None
    SingleCaller = TRUE
    Incidents = {"close", "kill"}
    MaxIncidents = 2
SYMMETRY Symmetry
\* Callers may stop calling, and every transaction is used once.
CHECK_DEADLOCK FALSE
INVARIANTS
    OnlyCommittedInCatalog
