SPECIFICATION Spec
CONSTANTS
    Users = {"ann", "bob"}
    Chats = {"group", "other"}
    Plays = {"slots", "thanks", "messages"}
    Bet = 50
    Grids <- SomeGrids
    MinRTP = 94
    MaxRTP = 98
    MaxSpins = 3
    Funds <- Purses
    Faults = {"refused", "lost", "rng", "crash"}
    SourceChat = "group"
    ThanksReward = 20
    Limit = 2
    Cooldown = 2
    Day = 3
    Zone = 1
    Horizon = 5
    MaxThanks = 4
    Requests = 2
    Window = 2
INVARIANTS
    LinePaysBestRun
    BooksAgree
    DatedThanksWithinLimit
    CooldownHolds
    BurstIsBounded
CHECK_DEADLOCK FALSE
