SPECIFICATION Spec
CONSTANTS
    Mailbox = {m1, m2}
    Counterparty = m1
    MaxRows = 2
    None = None
INVARIANT
    OfferedURLIsOwn
CHECK_DEADLOCK FALSE
