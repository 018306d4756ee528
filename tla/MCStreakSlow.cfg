SPECIFICATION Spec
CONSTANTS
    u1 = u1
    u2 = u2
    r1 = r1
    r2 = r2
    Users <- OneUser
    Runs <- OneRun
    Target = 2
    MaxReward = 2
    Threshold = 1
    Retention = 1
    MaxDay = 3
    MaxMessages = 7
    Straddle = TRUE
    Faults = TRUE
INVARIANTS RewardIsEarned RewardNotTooHigh
PROPERTIES StreakLostToLateRun
