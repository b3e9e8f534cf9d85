\* The queue may come to rest: every task is done, denied or waiting for a verdict.
CHECK_DEADLOCK FALSE
SPECIFICATION Spec
CONSTANTS
    a = a
    a1 = a1
    a2 = a2
    d = d
    Task <- MCTask
    Series <- MCSeries
    ParentId <- MCParentId
    Number <- MCNumber
    Plan <- MCPlan
    PlanDeps <- MCPlanDeps
    PlanParent <- MCPlanParent
    PlanPriority <- MCPlanPriority
    Snapshots <- MCSnapshots
    Discoveries <- MCDiscoveries
    Priority = {2}
    Identity = {coordinator}
    NoTask = NoTask
    NoOne = NoOne
    MaxSubtasks = 2
    MaxRestarts = 1
    FailureBound = 1
INVARIANTS
    TypeOK
    NoMissedWakeup
    OnlyApprovedWork
    ClaimsAreRecorded
    IdsAreUnique
PROPERTY VerdictIsFinal
