SPECIFICATION Spec
CONSTANTS
    Version = {v1}
    Client = {c1}
    Request = {r1}
    Envelope = {e1}
    Signer = {s1}
    Idle = Idle
    None = None
    DeskActions = {}
INVARIANT
    EnvelopesOnRecord
CHECK_DEADLOCK FALSE
