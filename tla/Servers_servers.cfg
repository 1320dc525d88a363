SPECIFICATION FairSpec
CONSTANTS
    Sources = {a, b}
    AtStart = {a}
    Kinds = {"good", "broken", "fails", "none"}
    Ports = 2
    ReloadOnSighup = TRUE
    MaxWrites = 2
    MaxRequests = 1
    MaxSignals = 2
    Exceptions = TRUE
INVARIANTS ChildrenAreKnown
PROPERTIES TakenRequestsAreServed ServersFollowFiles RetiredAreClosed StopEnds
CHECK_DEADLOCK FALSE
