\* Two versions, the portal user and one more approver, two submissions
\* of one version or one of each, two requests or tabs at a time.
SPECIFICATION PortalSpec
CONSTANTS
    Version = {v1, v2}
    Client = {c1, c2}
    User = {u1, u2}
    PortalUser = u1
    LastApprover = u2
    Idle = Idle
    None = None
    MaxRounds = 2
    MaxSubmitted = 2
    DeskActions = {"Revise"}
SYMMETRY Symmetry
INVARIANTS
    PortalTypeOK
    RemarksAreDecided
    PendingIsOffered
PROPERTIES
    AnswerShowsDecision
    DecidesShownVersion
