SPECIFICATION Spec
CONSTANTS
    u1 = u1
    u2 = u2
    r1 = r1
    r2 = r2
    Users <- OneUser
    Runs <- TwoRuns
    Target = 2
    MaxReward = 2
    Threshold = 1
    Retention = 1
    MaxDay = 4
    MaxMessages = 8
    Straddle = FALSE
    Faults = FALSE
INVARIANTS FourMessagesRewarded RewardMatchesRun ReminderOncePerReset ReminderNotLost
SYMMETRY Symmetry
