------------------------------ MODULE Webhook ------------------------------
(***************************************************************************)
(* The webhook endpoint between Documenso and the completion of signature  *)
(* requests: handle_webhook, WebhookAuthenticator, WebhookDispatcher and   *)
(* the early returns of process_document_completed.                        *)
(*                                                                         *)
(* Documenso delivers an event until a delivery is acknowledged.  An error *)
(* answer, or a lost one, leaves the event due: it is delivered again,     *)
(* possibly after the work was committed.                                  *)
(***************************************************************************)
EXTENDS Signing

VARIABLES acked,      \* envelopes whose completion Documenso has seen acknowledged
          reply,      \* reply[c]: the envelope whose delivery c is working on
          expected,   \* the webhook secret in Documenso Settings
          sent        \* the secret Documenso puts in the header

webhookVars == <<acked, reply, expected, sent>>
allVars == <<vars, webhookVars>>

\* A client that holds nothing does not work on a copy.
ASSUME IdleAssumption == Idle \notin Work

\* A secret is unset, or the one before or after a rotation.
Secret == {"unset", "old", "new"}

-----------------------------------------------------------------------------
(* Authentication and dispatch *)

\* verify: a missing header or another secret is answered 401, a secret not
\* configured raises; neither is an acknowledgement.
Authentic == expected # "unset" /\ sent # "unset" /\ sent = expected

\* Class DocumensoWebhookEvent.
Event == {"DOCUMENT_COMPLETED", "DOCUMENT_DELETED", "DOCUMENT_REJECTED", "DOCUMENT_SENT",
          "RECIPIENT_COMPLETED", "RECIPIENT_SIGNED"}

Acts_Mutant == {"RECIPIENT_COMPLETED"}

\* The dispatch table: the handlers that do more than write a log line.  (The
\* mutant has the names of two handlers swapped.)
Acts == {"DOCUMENT_COMPLETED"}

\* process_document_completed logs and returns when no request has this ID, or
\* when it is closed.
Settled(e) == externalId[e] \notin Filed \/ ~MayComplete(externalId[e])

Acknowledge_Mutant(e) == acked' \in {acked, acked \union {externalId[e]}}

\* The answer "Webhook received." may be lost on its way.  (The mutant answers
\* for the signature request.)
Acknowledge(e) == acked' \in {acked, acked \union {e}}

-----------------------------------------------------------------------------
(* Deliveries *)

\* An envelope's completion is due, and gets past the authenticator.
Due(e) == documenso[e] = "completed" /\ e \notin acked /\ Authentic

\* A delivery that is acknowledged without effect.
DeliverSettled(e) ==
    /\ Due(e)
    /\ "DOCUMENT_COMPLETED" \notin Acts \/ Settled(e)
    /\ Acknowledge(e)
    /\ UNCHANGED <<vars, reply, expected, sent>>

Deliver(c, e) ==
    /\ Due(e)
    /\ "DOCUMENT_COMPLETED" \in Acts /\ ~Settled(e)
    /\ BeginWebhook(c, e)
    /\ reply' = [reply EXCEPT ![c] = e]
    /\ UNCHANGED <<acked, expected, sent>>

\* Frappe commits at the end of the request and then answers.
CommitDelivery(c) ==
    /\ reply[c] # None
    /\ CommitComplete(c)
    /\ Acknowledge(reply[c])
    /\ reply' = [reply EXCEPT ![c] = None]
    /\ UNCHANGED <<expected, sent>>

AnswerFailure_Mutant(c) == acked' = acked \union {reply[c]}

\* handle_webhook logs the exception and raises it again.  (The mutant only
\* logs it and answers "Webhook received.")
AnswerFailure(c) == UNCHANGED acked

FailDelivery(c) ==
    /\ reply[c] # None
    /\ Abandon(c)
    /\ AnswerFailure(c)
    /\ reply' = [reply EXCEPT ![c] = None]
    /\ UNCHANGED <<expected, sent>>

\* An administrator changes the secret here and at Documenso, in either order.
RotateHere == expected' = "new" /\ UNCHANGED <<vars, acked, reply, sent>>

RotateThere == sent' = "new" /\ UNCHANGED <<vars, acked, reply, expected>>

-----------------------------------------------------------------------------
(* Everything else in Signing *)

\* A request of a user, or an open tab, ends.
UserEnd(c) ==
    /\ reply[c] = None
    /\ Commit(c) \/ Abandon(c)
    /\ UNCHANGED webhookVars

UserStep(c) ==
    \/ \E r \in Request, v \in Version : BeginCreate(c, r, v)
    \/ \E r \in Request : OpenRequest(c, r) \/ BeginSend(c, r) \/ BeginCancel(c, r)
    \/ \E r \in Request, s \in Signer : BeginMark(c, r, s)
    \/ \E v \in Version, a \in DeskActions : BeginAction(c, v, a)
    \/ \E v \in Version : BeginLateApproval(c, v)
    \/ BeginForm(c) \/ CreateEnvelope(c) \/ RefuseSend(c) \/ Distribute(c)

WebhookInit ==
    /\ Init
    /\ acked = {}
    /\ reply = [c \in Client |-> None]
    /\ expected \in {"unset", "old"}
    /\ sent = "old"

WebhookNext ==
    \/ \E c \in Client :
         \/ \E e \in Envelope : Deliver(c, e)
         \/ CommitDelivery(c) \/ FailDelivery(c)
         \/ UserStep(c) /\ UNCHANGED webhookVars
         \/ UserEnd(c)
    \/ \E e \in Envelope :
         \/ DeliverSettled(e)
         \/ Sign(e) /\ UNCHANGED webhookVars
    \/ RotateHere \/ RotateThere

\* Every request ends, the rotation of the secret is finished, Documenso delivers
\* what is due again and again, and not every delivery fails for its own reason.
Redelivery ==
    /\ \A c \in Client :
         /\ WF_allVars(CommitDelivery(c) \/ FailDelivery(c) \/ UserEnd(c))
         /\ SF_allVars(CommitDelivery(c))
    /\ \A e \in Envelope : SF_allVars(\E c \in Client : Deliver(c, e))
    /\ WF_allVars(RotateHere) /\ WF_allVars(RotateThere)

WebhookSpec == WebhookInit /\ [][WebhookNext]_allVars /\ Redelivery

-----------------------------------------------------------------------------
(* Properties *)

\* Every variable of the endpoint has its type.
WebhookTypeOK ==
    /\ acked \subseteq Envelope
    /\ reply \in [Client -> Envelope \union {None}]
    /\ {expected, sent} \subseteq Secret

\* A completion is acknowledged only when its request is closed and stays so:
\* no failure, no early return and no secret that does not match makes Documenso
\* stop delivering while the request is still open.
AcknowledgedIsSettled ==
    \A e \in acked : /\ externalId[e] \in Filed
                     /\ request[externalId[e]].status \in {"Completed", "Cancelled"}

\* Redelivery brings a completion home: once the envelope of a pending request is
\* completed the request is closed, through refusals while the secrets differ,
\* failures and lost answers ("the surrounding webhook transaction rolls back and
\* can be retried"), unless its version is moved past the service: by a workflow
\* action of the desk, or by a late approval, after which every delivery fails.
CompletionArrives ==
    \A r \in Request :
        (r \in In("Pending") /\ documenso[request[r].envelope] = "completed")
            ~> (r \notin In("Pending") \/ request[r].version \in bypassed)
=============================================================================
