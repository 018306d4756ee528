SPECIFICATION Spec
CONSTANTS
    Users = {"ann", "bob"}
    Chats = {"group"}
    Plays = {"thanks"}
    Bet = 50
    Grids <- SomeGrids
    MinRTP = 94
    MaxRTP = 98
    MaxSpins = 3
    Funds <- Purses
    Faults = {}
    SourceChat = "group"
    ThanksReward = 20
    Limit = 2
    Cooldown = 1
    Day = 3
    Zone = 1
    Horizon = 4
    MaxThanks = 4
    Requests = 2
    Window = 2
INVARIANTS
    ThanksWithinLimit
CHECK_DEADLOCK FALSE
