SPECIFICATION Spec
CONSTANTS
    risky = risky
    plain = plain
    Plan <- MCPlan
    Found = {}
    RiskOf <- MCRiskOf
    Mode = "permissive"
    Issue = {bug, gap}
    Owned = {bug}
    SameIssueLimit = 2
    CostLimit = 5
    LoopLimit = 2
    FixLimits = {2}
    IntegrationFixes = 2
    CallerDirectory = TRUE
    MaxRuns = 2
    MaxReads <- MCMaxReads
INVARIANTS
    TypeOK
    HumanDecides
    UngatedOnce
    CleanMeansReviewed
    NoRoundInVain
PROPERTY
    Returns
CHECK_DEADLOCK FALSE
