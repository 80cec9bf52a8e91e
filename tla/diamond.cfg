SPECIFICATION FairOrderlySpec
CONSTANTS
    Nodes <- DiamondNodes
    Edges <- DiamondEdges
    From <- DiamondFrom
    To <- DiamondTo
    MaxRetries <- DiamondRetries
    ForeignThrow = {"D"}
    Workers = {w1, w2}
    Callers = {c1, c2}
    MaxRuns = 2
    NoNode = NoNode
INVARIANTS
    TypeOK DependencyOrder CompletionSound OutcomeDetermined MetricsExact
    ContextOfThisRun
PROPERTIES VerdictIsFinal RunDrains ImplementsDagRun
CHECK_DEADLOCK FALSE
