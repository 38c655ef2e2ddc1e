\* Two experiments in the same second, of either kind.
SPECIFICATION ExperimentsSpec
CONSTANTS
    s1 = s1
    s2 = s2
    balance = balance
    CrashKey = crash_key
    CheckpointKey = checkpoint_data
    None = None
    Session = {s1, s2}
    Key = {crash_key, checkpoint_data, balance}
    ChaosKeys = {balance}
    Inputs <- UserInputs
    Faults <- PickedFaults
    Sizes = {43}
    Garbage <- SomeGarbage
    MaxMisread = 1
ACTION_CONSTRAINT PrivateFirst
\* Experiments end.
CHECK_DEADLOCK FALSE
INVARIANTS
    SurvivesAsTold
    VerdictIsDeserved
    ChaosCleansUp
