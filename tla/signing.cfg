\* One version, decided or not, two signature requests, two envelopes, two requests
\* or tabs at a time, and the two ways in which the desk takes a version out of
\* Signature Requested.  An Executed version without open requests has nothing
\* left to do: the system may stop there.
SPECIFICATION Spec
CONSTANTS
    Version = {v1}
    Client = {c1, c2}
    Request = {r1, r2}
    Envelope = {e1, e2}
    Signer = {s1, s2}
    Idle = Idle
    None = None
    DeskActions = {"Complete Signing", "Cancel Signature"}
SYMMETRY Symmetry
INVARIANTS
    TypeOK
    OnePendingPerVersion
    CompletionIsWhole
    PendingIsDistributed
    PendingMatchesVersion
PROPERTIES
    ClosedIsClosed
CHECK_DEADLOCK FALSE
