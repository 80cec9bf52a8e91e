SPECIFICATION QuietSpec
CONSTANTS
    NoDocument = NoDocument
    Ids = {"A", "B", "C"}
    Documents <- All
    Loaders = {watcher, control}
    MaxCalls = 5
INVARIANTS LoadedIsRunnable RunAfterGoodLoad
PROPERTY LoadVerdictExact
CHECK_DEADLOCK FALSE
