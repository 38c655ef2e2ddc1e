\* Three transactions on a key, a crash, a get and a flaw, in nine events.
SPECIFICATION Spec
CONSTANTS
    Txn = {t1, t2, t3}
    Key = {k1}
    None = None
    MaxEvents = 9
    MaxReads = 1
    MaxFlaws = 1
SYMMETRY Symmetry
\* A history ends when every transaction has.
CHECK_DEADLOCK FALSE
INVARIANTS
    NoFalseAlarm
    LostUpdateAlarms
    FlawsAreReported
    DirtyReadsAreMisreads
