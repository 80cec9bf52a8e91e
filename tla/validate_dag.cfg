SPECIFICATION GBSpec
CONSTANTS
    Nodes = {"A", "B", "C"}
    Copies = {1, 2}
    MaxEntries = 4
INVARIANTS AcceptsOnlyDags RejectsOnlyCycles DependenciesFirst
PROPERTY BuiltRuns
CHECK_DEADLOCK FALSE
