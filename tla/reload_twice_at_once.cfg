SPECIFICATION Spec
CONSTANTS
    NoDocument = NoDocument
    Ids = {"A", "B", "C"}
    Documents <- Good
    Loaders = {watcher, control}
    MaxCalls = 4
PROPERTY LoadVerdictExact
CHECK_DEADLOCK FALSE
