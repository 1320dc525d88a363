SPECIFICATION FairSpec
CONSTANTS
    Sources = {a}
    AtStart = {a}
    Kinds = {"good"}
    Ports = 1
    ReloadOnSighup = FALSE
    MaxWrites = 0
    MaxRequests = 1
    MaxSignals = 1
    Exceptions = TRUE
PROPERTY ExceptionEndsAtOnce
CHECK_DEADLOCK FALSE
