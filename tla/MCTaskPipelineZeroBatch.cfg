CONSTANTS
    NoTask = NoTask
    SingleTasks = {}
    BatchTasks = {b1, b2, b3}
    Repeated = {}
    Tasks <- MCTasks
    Kind <- MCKind
    Id <- MCId
    Workers <- MCWorkers
    WorkflowCap = 1
    PublishCap = 1
    BatchSize = 0
SPECIFICATION FairSpec
CHECK_DEADLOCK FALSE
PROPERTIES
    NodeEndsWithWorkers
