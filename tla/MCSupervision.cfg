SPECIFICATION Spec
CONSTANTS
    a = a
    b = b
    Task <- MCTask
    Plan <- MCTask
    PlanDeps <- MCPlanDeps
    PlanParent <- MCPlanParent
    PlanPriority <- MCPlanPriority
    Priority = {2}
    Identity = {coordinator}
    Coordinator = coordinator
    NoTask = NoTask
    NoOne = NoOne
    MaxRestarts = 1
    Worker = {w1, w2}
    MaxWorkers = 2
    RestartLimit = 1
    First = a
    Orphans = {b}
    Kinds = {"process", "sdk"}
INVARIANTS
    TypeOK
    NoOrphanIsMade
PROPERTIES
    SilentIsStopped
    OrphansComeBack
CHECK_DEADLOCK FALSE
