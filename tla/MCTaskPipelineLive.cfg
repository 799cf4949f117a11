CONSTANTS
    NoTask = NoTask
    SingleTasks = {s1}
    BatchTasks = {b1, b2, b3}
    Repeated = {}
    Tasks <- MCTasks
    Kind <- MCKind
    Id <- MCId
    Workers <- MCWorkers
    WorkflowCap = 1
    PublishCap = 1
    BatchSize = 2
SPECIFICATION FairSpec
CHECK_DEADLOCK FALSE
INVARIANTS
    NobodyWaitsInVain
PROPERTIES
    TakenIsAnswered
    CancelledStops
    StoppedEndsWorkers
