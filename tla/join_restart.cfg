SPECIFICATION Spec
CONSTANTS
    Nodes <- JoinNodes
    Edges <- JoinEdges
    From <- JoinFrom
    To <- JoinTo
    MaxRetries <- JoinRetries
    ForeignThrow = {}
    Workers = {w1, w2}
    Callers = {c1}
    MaxRuns = 2
    NoNode = NoNode
INVARIANT DependencyOrder
CHECK_DEADLOCK FALSE
