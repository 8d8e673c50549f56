SPECIFICATION Spec
CONSTANTS
    Version = {v1, v2}
    Client = {c1, c2}
    Idle = Idle
    MaxNumber = 2
    DeskActions = {"Submit for Review", "Approve", "Reject", "Revise",
                   "Request Signature", "Supersede", "Complete Signing", "Cancel Signature"}
PROPERTY
    CurrentMovesOnRequest
