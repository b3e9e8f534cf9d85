SPECIFICATION Spec
CONSTANTS
    risky = risky
    plain = plain
    Plan <- MCPlan
    Found = {extra}
    RiskOf <- MCRiskOf
    Mode = "permissive"
    Issue = {bug, gap}
    Owned = {bug}
    SameIssueLimit = 2
    CostLimit = 5
    LoopLimit = 2
    FixLimits = {2, 3}
    IntegrationFixes = 2
    CallerDirectory = TRUE
    MaxRuns = 1
    MaxReads <- NoReads
PROPERTY
    AddedIsPickedUp
CHECK_DEADLOCK FALSE
