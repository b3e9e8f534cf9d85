\* When every task is settled and no crash is left, the run is over.
CHECK_DEADLOCK FALSE
SPECIFICATION Spec
CONSTANTS
    a = a
    b = b
    c = c
    Task <- MCTask
    Plan <- MCTask
    PlanDeps <- MCPlanDeps
    PlanParent <- MCPlanParent
    PlanPriority <- MCPlanPriority
    Priority = {2}
    Identity = {coordinator}
    Coordinator = coordinator
    NoTask = NoTask
    NoOne = NoOne
    MaxRestarts = 2
    MaxCrashes = 2
SYMMETRY MCSymmetry
INVARIANTS
    TypeOK
    DependenciesBuilt
    AcknowledgedIsKept
