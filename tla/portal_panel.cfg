SPECIFICATION PortalSpec
CONSTANTS
    Version = {v1}
    Client = {c1}
    User = {u1, u2}
    PortalUser = u1
    LastApprover = u2
    Idle = Idle
    None = None
    MaxRounds = 1
    MaxSubmitted = 1
    DeskActions = {}
INVARIANT
    PendingReviewerCanDecide
