SPECIFICATION Spec
CONSTANTS
    Staff = {"root", "dep", "mod"}
    EnvAdmins = {"root"}
    Moderators = {"dep", "mod"}
    Flagged = {"dep"}
    Agendas <- Plans
    MaxAttempts = 3
    Window = 3
    Retention = 3
    SessionTTL = 1
    FlowTTL = 0
    Zone = 1
    UndoTTL = 0
    Faults = {"refused", "late", "crash"}
    Users = {1, 2}
    RoleNames = {"knight"}
    MaxChanges = 1
    Amounts = {0, 1}
    MaxBalance = 1
    MaxDeltas = 1
    MaxDrafts = 2
INVARIANTS
    GuessesAreLimited
    NothingForbidden
    UndoneOnce
    OperationIsWhole
    PostedIsWhole
CHECK_DEADLOCK FALSE
