SPECIFICATION Spec
CONSTANTS
    Version = {v1}
    Client = {c1}
    User = {u1}
    Idle = Idle
    MaxRounds = 2
    DeskActions = {"Revise"}
INVARIANT
    AwaitsApprovals
