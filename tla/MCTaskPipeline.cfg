CONSTANTS
    NoTask = NoTask
    SingleTasks = {s1, s2}
    BatchTasks = {b1, b2, b3}
    Repeated = {s1, s2}
    Tasks <- MCTasks
    Kind <- MCKind
    Id <- MCId
    Workers <- MCWorkers
    WorkflowCap = 2
    PublishCap = 1
    BatchSize = 2
SPECIFICATION Spec
SYMMETRY MCSymmetry
CHECK_DEADLOCK FALSE
INVARIANTS
    TypeOK
    OnePlace
    PendingIsOwed
    CompletedTally
    WorkerLimits
PROPERTIES
    SeriesInOrder
    BatchesInOrder
    WorkerEndsWithChannel
    KeepsLedger
