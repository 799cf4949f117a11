CONSTANTS
    task = task
    result = result
    error = error
    short = short
    None = None
    Messages <- MCMessages
    FormOf <- MCFormOf
    TaskOf <- MCTaskOf
    MsgCap = 1
SPECIFICATION FairSpec
CHECK_DEADLOCK FALSE
INVARIANTS
    TypeOK
PROPERTIES
    ReportsAreExact
    ArrivedIsAccepted
    CancelledExits
