\* begin() takes no lock: a transaction that begins inside another's commit,
\* reads, and goes on to write what it read.
SPECIFICATION Spec
CONSTANTS
    Txn = {t1, t2}
    Key = {k1}
    None = None
    SingleCaller = FALSE
    Incidents = {}
    MaxIncidents = 0
SYMMETRY Symmetry
\* Callers may stop calling, and every transaction is used once.
CHECK_DEADLOCK FALSE
INVARIANTS
    NoLostUpdate
