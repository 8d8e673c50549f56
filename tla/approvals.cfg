\* One version, two approvers, two submissions, three requests or tabs at a
\* time, every workflow action.
SPECIFICATION Spec
CONSTANTS
    Version = {v1}
    Client = {c1, c2, c3}
    User = {u1, u2}
    Idle = Idle
    MaxRounds = 2
    DeskActions = {"Submit for Review", "Approve", "Reject", "Revise",
                   "Request Signature", "Supersede", "Complete Signing", "Cancel Signature"}
SYMMETRY Symmetry
INVARIANTS
    TypeOK
    NoLostCompletion
    OnePendingPerApprover
    ApprovedByAll
PROPERTIES
    DecisionsAreFinal
    FollowsProtocol
