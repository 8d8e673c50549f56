\* Up to two recipients out of two mailboxes, each spelled in two ways, with
\* every signing order from 0 to 3.  A completed request stays as it is.
SPECIFICATION Spec
CONSTANTS
    Mailbox = {m1, m2}
    Counterparty = m1
    MaxRows = 2
    None = None
INVARIANTS
    TypeOK
    SigningOrderIsTotal
    OneRecipientPerMailbox
    LinkedIsOwn
    PendingIsOut
    CompletedMarksLinked
CHECK_DEADLOCK FALSE
