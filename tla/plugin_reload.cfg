SPECIFICATION Spec
CONSTANTS
    Reloaders = {watcher, control}
    Adapters = {a1, a2}
    Nothing = Nothing
    MaxVersion = 2
    MaxNodes = 4
    MaxHandles = 3
INVARIANTS PluginTypeOK CodeStaysMapped HandlesBalanced
CHECK_DEADLOCK FALSE
