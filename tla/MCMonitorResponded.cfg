CONSTANTS
    task = task
    result = result
    error = error
    short = short
    None = None
    Messages <- MCMessages
    FormOf <- MCFormOf
    TaskOf <- MCTaskOf
    MsgCap = 1
SPECIFICATION Spec
CHECK_DEADLOCK FALSE
PROPERTY
    RespondedAreOff
