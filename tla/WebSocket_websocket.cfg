SPECIFICATION FairSpec
CONSTANTS
    Messages = 2
    Pushes = 2
    Window = 1
    Together = 2
    SlotLimit = 2
    Pings = TRUE
    LeavesEarly = FALSE
    Exits = TRUE
INVARIANTS ClientPaced SlotsCounted TrueWhenTaken NothingForgotten
PROPERTIES GivenBack MessagesAreDelivered
CHECK_DEADLOCK FALSE
