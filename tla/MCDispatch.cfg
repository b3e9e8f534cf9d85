SPECIFICATION Spec
CONSTANTS
    a = a
    b = b
    c = c
    Task <- MCTask
    Plan <- MCTask
    PlanDeps <- MCPlanDeps
    PlanParent <- MCPlanParent
    PlanPriority <- MCPlanPriority
    Priority = {2}
    Identity = {coordinator}
    Coordinator = coordinator
    NoTask = NoTask
    NoOne = NoOne
    MaxRestarts = 2
    Worker = {w1, w2, w3, w4, w5, w6}
    Loop = loop
    NoWorker = NoWorker
    MaxWorkers = 2
    RestartLimit = 1
    MaxNoProgress = 3
    SpawnFailures = 1
    Outcomes = {"finished", "gave up"}
INVARIANTS
    TypeOK
    ExactlyOneOwner
    FailedHadEveryAttempt
    NothingLeftBehind
PROPERTIES
    TaskLife
