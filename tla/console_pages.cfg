\* Three engines, of pages open together or one after another, and resets.
SPECIFICATION Spec
CONSTANTS
    Session = {s1, s2}
    Key = {k1}
    None = None
    Ops = {"put"}
    MaxBegins = 2
    MaxCommits = 3
    MaxOpens = 3
    Sizes = {33, 43}
    Garbage <- SomeGarbage
    MaxMisread = 1
SYMMETRY Symmetry
\* Pages may be closed, and the bounds used up.
CHECK_DEADLOCK FALSE
INVARIANTS
    TypeOK
    OnePageIsOneStore
    ConflictsOnlyIfShared
    OwnCommitsServed
    WipedStaysWiped
