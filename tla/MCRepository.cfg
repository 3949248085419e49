CONSTANTS
    Ids = {a}
    Payloads = {"deposited", "withdrawn"}
    MaxEvents = 3
    MaxBatch = 2
    Callers = {c1, c2}
    Commands = {"deposit", "withdraw", "transfer", "inspect"}
    Handle <- AccountHandle
SPECIFICATION Spec
INVARIANTS
    LoadedIsFaithful
    SnapshotsAreFaithful
    IndexMatchesLog
PROPERTIES
    ImplementsAtomicCommands
    ConflictsAreGenuine
