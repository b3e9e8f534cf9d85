SPECIFICATION Spec
CONSTANTS
    Parts = {"files", "contracts", "mail", "questions", "review", "specs", "agents", "detached"}
    Agent = {u, v, w}
    Logical = {l}
    File <- MCFile
    Pattern <- MCPattern
    MaxReserved = 2
    Peer = {u, v}
    Item = {i, j}
    MaxCreated = 1
    Message = {m}
    Foreign = {o}
    MaxClock = 3
    Choice = {x, y}
    Default = x
    Nothing = nothing
    ReviewerKind = {"process", "sdk"}
    ReviewLimit = 3
    FreshLimit = 2
    MaxPrompts = 5
    a = a
    b = b
    c = c
    Id <- MCId
    Missing = missing
    Malformed = malformed
    Text <- MCText
    MaxRetries = 1
    Jobs = 3
    Limit = 2
    Models = 2
    Detach = {r1, r2}
    Dir = {here, there}
    Nowhere = nowhere
    MaxPids = 2
    MaxEvents = 2
INVARIANTS
    TypeOK
    ExclusiveMeansAlone
    EditsAreChecked
    InboxLosesOnlyRaces
    AnswerStands
    CompletionIsReviewed
    AcceptedIsWorkedOff
PROPERTIES
    ReadyIsKept
    Answered
    EndIsKnown
CHECK_DEADLOCK FALSE
