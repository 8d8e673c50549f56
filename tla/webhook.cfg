\* One version, one signature request and two envelopes of it (a second sending
\* after a failure), two requests or tabs at a time; the desk may take the version
\* out of Signature Requested, and so may a late approval.
SPECIFICATION WebhookSpec
CONSTANTS
    Version = {v1}
    Client = {c1, c2}
    Request = {r1}
    Envelope = {e1, e2}
    Signer = {s1}
    Idle = Idle
    None = None
    DeskActions = {"Complete Signing", "Cancel Signature"}
INVARIANTS
    WebhookTypeOK
    AcknowledgedIsSettled
PROPERTIES
    CompletionArrives
    FollowsProtocol
CHECK_DEADLOCK FALSE
