---------------------------- MODULE WebhookProofs ----------------------------
(***************************************************************************)
(* Proofs about the webhook endpoint.  Every step of it is a step of       *)
(* Signing or leaves the requests alone, so what is proved of Signing      *)
(* holds here too; what is new is when a delivery may be acknowledged.     *)
(***************************************************************************)
EXTENDS Webhook, SigningProtocolProofs

\* A client that answers a delivery completes the request the envelope is of.
Answering(c) ==
    /\ work[c] # Idle /\ work[c].op \in {"complete", "resave"}
    /\ documenso[reply[c]] = "completed"
    /\ work[c].req = externalId[reply[c]]

ReplyInv == \A c \in Client : reply[c] # None => Answering(c)

\* Documenso has seen acknowledged only what it has completed.
AckedAreCompleted == \A e \in acked : documenso[e] = "completed"

WebhookIInv == IInv /\ WebhookTypeOK /\ ReplyInv /\ AckedAreCompleted /\ AcknowledgedIsSettled

-----------------------------------------------------------------------------
(* What stays acknowledged, and who answers *)

\* An acknowledged envelope stays completed and settled.
LEMMA KeepAcked ==
    ASSUME WebhookIInv, [Next]_vars, NEW e \in acked
    PROVE  /\ documenso'[e] = "completed"
           /\ externalId'[e] \in Filed'
           /\ request'[externalId'[e]].status \in {"Completed", "Cancelled"}
<1>1. /\ e \in Envelope /\ documenso[e] = "completed" /\ externalId[e] \in Filed
      /\ request[externalId[e]].status \in {"Completed", "Cancelled"}
  BY DEF WebhookIInv, WebhookTypeOK, AckedAreCompleted, AcknowledgedIsSettled
<1>2. documenso'[e] = "completed" /\ externalId'[e] = externalId[e]
  BY <1>1, StepIsExternal DEF External, WebhookIInv
<1>3. request'[externalId[e]] = request[externalId[e]]
  BY <1>1, StepKeepsClosed DEF WebhookIInv, ClosedStays, In
<1> QED
  BY <1>1, <1>2, <1>3 DEF Filed

\* A client that is answering and does not step goes on answering.
LEMMA KeepAnswering ==
    ASSUME WebhookIInv, [Next]_vars, NEW c \in Client, reply[c] # None,
           work'[c] = work[c], reply'[c] = reply[c]
    PROVE  Answering(c)'
<1>1. Answering(c) /\ reply[c] \in Envelope
  BY DEF WebhookIInv, WebhookTypeOK, ReplyInv
<1>2. documenso'[reply[c]] = "completed" /\ externalId'[reply[c]] = externalId[reply[c]]
  BY <1>1, StepIsExternal DEF External, WebhookIInv, Answering
<1> QED
  BY <1>1, <1>2 DEF Answering

-----------------------------------------------------------------------------
(* The steps of the endpoint *)

LEMMA InitWebhookInv == WebhookInit => WebhookIInv
<1> SUFFICES ASSUME WebhookInit PROVE WebhookIInv
  OBVIOUS
<1>1. IInv
  BY InitInv DEF WebhookInit
<1>2. WebhookTypeOK /\ ReplyInv /\ AckedAreCompleted /\ AcknowledgedIsSettled
  BY DEF WebhookInit, WebhookTypeOK, Secret, ReplyInv, AckedAreCompleted, AcknowledgedIsSettled
<1> QED
  BY <1>1, <1>2 DEF WebhookIInv

\* What is left to show of a step once it is known to be one of Signing.
LEMMA EndpointStep ==
    ASSUME WebhookIInv, [Next]_vars, WebhookTypeOK', ReplyInv',
           \A e \in acked' : e \in acked \/
                /\ documenso'[e] = "completed" /\ externalId'[e] \in Filed'
                /\ request'[externalId'[e]].status \in {"Completed", "Cancelled"}
    PROVE  WebhookIInv'
<1>1. IInv'
  BY NextInv DEF WebhookIInv
<1>2. \A e \in acked' : /\ documenso'[e] = "completed" /\ externalId'[e] \in Filed'
                        /\ request'[externalId'[e]].status \in {"Completed", "Cancelled"}
  BY KeepAcked
<1> QED
  BY <1>1, <1>2 DEF WebhookIInv, AckedAreCompleted, AcknowledgedIsSettled

LEMMA DeliverSettledStep ==
    ASSUME WebhookIInv, NEW e \in Envelope, DeliverSettled(e)
    PROVE  WebhookIInv'
<1>1. /\ documenso[e] = "completed" /\ Settled(e)
      /\ acked' \in {acked, acked \union {e}}
      /\ UNCHANGED <<vars, reply, expected, sent>>
  BY DEF DeliverSettled, Due, Acts, Acknowledge
<1>2. externalId[e] \in Filed
  BY <1>1 DEF WebhookIInv, IInv, RequestInv, EnvelopesAreFiled
<1>3. request[externalId[e]].status \in {"Completed", "Cancelled"}
  BY <1>1, <1>2, FiledType DEF Settled, MayComplete, Filed, WebhookIInv, IInv
<1>4. UNCHANGED <<work, request, documenso, externalId>> /\ Filed' = Filed
  BY <1>1 DEF vars, Filed
<1>5. WebhookTypeOK'
  BY <1>1 DEF WebhookIInv, WebhookTypeOK
<1>6. ReplyInv'
  BY <1>1, <1>4 DEF WebhookIInv, ReplyInv, Answering
<1>7. [Next]_vars
  BY <1>1
<1>8. \A f \in acked' : f \in acked \/ f = e
  BY <1>1
<1> QED
  BY <1>1, <1>2, <1>3, <1>4, <1>5, <1>6, <1>7, <1>8, EndpointStep

LEMMA DeliverStep ==
    ASSUME WebhookIInv, NEW c \in Client, NEW e \in Envelope, Deliver(c, e)
    PROVE  WebhookIInv'
<1>1. /\ BeginWebhook(c, e) /\ reply' = [reply EXCEPT ![c] = e]
      /\ UNCHANGED <<acked, expected, sent>>
  BY DEF Deliver
<1>2. [Next]_vars
  BY <1>1 DEF Next, Begin
<1>3. WebhookTypeOK'
  BY <1>1 DEF WebhookIInv, WebhookTypeOK
<1>4. Answering(c)'
  <2> DEFINE r == externalId[e]
             sr == [request[r] EXCEPT
                       !.signed = @ \union (IF e = request[r].envelope THEN request[r].linked ELSE {})]
             w(op) == LoadCompleting(op, r, sr)
  <2>1. documenso[e] = "completed" /\ Completing(c, r, sr) /\ UNCHANGED external
    BY <1>1 DEF BeginWebhook
  <2>2. PICK op \in {"complete", "resave"} : Hold(c, w(op))
    BY <2>1 DEF Completing
  <2>3. work'[c] = w(op) /\ reply'[c] = e
    BY <1>1, <2>2 DEF Hold, WebhookIInv, IInv, TypeOK, WebhookTypeOK
  <2>4. w(op).op = op /\ w(op).req = r
    BY DEF LoadCompleting, Load
  <2>5. work'[c] # Idle
    <3>1. r \in Request /\ request[r] # None
      BY <1>1 DEF BeginWebhook, Filed
    <3>2. request[r] \in RequestDoc
      BY <3>1, FiledType DEF WebhookIInv, IInv
    <3>3. (IF e = request[r].envelope THEN request[r].linked ELSE {}) \in SUBSET Signer
      BY <3>2 DEF RequestDoc
    <3>4. sr \in RequestDoc
      BY <3>1, <3>3, SignedCopy DEF WebhookIInv, IInv
    <3>5. sr.version \in Version /\ sr.envelope \in Envelope \union {None}
      BY <3>4 DEF RequestDoc
    <3>6. SignedDocument(sr.version, sr) \in Envelope \union {None}
      BY <3>5 DEF SignedDocument, WebhookIInv, IInv, TypeOK
    <3>7. w(op) \in Work
      BY <3>1, <3>4, <3>5, <3>6, LoadType DEF LoadCompleting, WebhookIInv, IInv, Status
    <3> QED
      BY <2>3, <3>7, IdleAssumption
  <2> HIDE DEF sr, w
  <2>6. documenso' = documenso /\ externalId' = externalId
    BY <2>1 DEF external
  <2> QED
    BY <2>1, <2>3, <2>4, <2>5, <2>6 DEF Answering
<1>5. ReplyInv'
  <2>1. ASSUME NEW d \in Client, d # c, reply'[d] # None
        PROVE  Answering(d)'
    <3>1. reply'[d] = reply[d]
      BY <1>1, <2>1 DEF WebhookIInv, WebhookTypeOK
    <3>2. work'[d] = work[d]
      BY <1>1, <2>1 DEF BeginWebhook, Completing, Hold, WebhookIInv, IInv, TypeOK
    <3> QED
      BY <1>2, <2>1, <3>1, <3>2, KeepAnswering
  <2> QED
    BY <1>4, <2>1 DEF ReplyInv
<1> QED
  BY <1>1, <1>2, <1>3, <1>5, EndpointStep

LEMMA CommitDeliveryStep ==
    ASSUME WebhookIInv, NEW c \in Client, CommitDelivery(c)
    PROVE  WebhookIInv'
<1>1. /\ reply[c] # None /\ CommitComplete(c)
      /\ acked' \in {acked, acked \union {reply[c]}}
      /\ reply' = [reply EXCEPT ![c] = None] /\ UNCHANGED <<expected, sent>>
  BY DEF CommitDelivery, Acknowledge
<1>2. [Next]_vars
  BY <1>1 DEF Next, Commit
<1>3. Answering(c) /\ reply[c] \in Envelope
  BY <1>1 DEF WebhookIInv, WebhookTypeOK, ReplyInv
<1>4. WebhookTypeOK'
  BY <1>1, <1>3 DEF WebhookIInv, WebhookTypeOK
<1>5. /\ Busy(c, "complete") /\ SaveRequest(c, [work[c].sr EXCEPT !.status = "Completed"])
      /\ work' = [work EXCEPT ![c] = Idle] /\ UNCHANGED <<documenso, externalId>>
  BY <1>1 DEF CommitComplete, Release, external
<1>6. HoldsOK(work[c])
  BY <1>5 DEF Busy, WebhookIInv, IInv, WorkInv, CopyOK
<1>7. ReplyInv'
  <2>1. ASSUME NEW d \in Client, reply'[d] # None
        PROVE  Answering(d)'
    <3>1. d # c /\ reply'[d] = reply[d]
      BY <1>1, <2>1 DEF WebhookIInv, WebhookTypeOK
    <3>2. work'[d] = work[d]
      BY <1>5, <3>1 DEF WebhookIInv, IInv, TypeOK
    <3> QED
      BY <1>2, <2>1, <3>1, <3>2, KeepAnswering
  <2> QED
    BY <2>1 DEF ReplyInv
<1>8. /\ documenso'[reply[c]] = "completed" /\ externalId'[reply[c]] \in Filed'
      /\ request'[externalId'[reply[c]]].status = "Completed"
  <2>1. /\ documenso'[reply[c]] = "completed"
        /\ externalId'[reply[c]] = work[c].req
    BY <1>3, <1>5 DEF Answering
  <2>2. work[c].req \in Request /\ work[c].sr \in RequestDoc
    BY <1>6 DEF HoldsOK
  <2> DEFINE sr == [work[c].sr EXCEPT !.status = "Completed"]
  <2>3. sr \in RequestDoc /\ sr.status = "Completed"
    BY <2>2 DEF RequestDoc
  <2>4. SaveRequest(c, sr)
    BY <1>5
  <2> HIDE DEF sr
  <2>5. request'[work[c].req] = sr /\ sr # None
    BY <2>2, <2>3, <2>4, RowStep DEF WebhookIInv
  <2> QED
    BY <2>1, <2>2, <2>3, <2>5 DEF Filed
<1>9. \A e \in acked' : e \in acked \/ e = reply[c]
  BY <1>1
<1> QED
  BY <1>2, <1>4, <1>7, <1>8, <1>9, EndpointStep

LEMMA FailDeliveryStep ==
    ASSUME WebhookIInv, NEW c \in Client, FailDelivery(c)
    PROVE  WebhookIInv'
<1>1. /\ Abandon(c) /\ UNCHANGED acked
      /\ reply' = [reply EXCEPT ![c] = None] /\ UNCHANGED <<expected, sent>>
  BY DEF FailDelivery, AnswerFailure
<1>2. [Next]_vars
  BY <1>1 DEF Next
<1>3. WebhookTypeOK'
  BY <1>1 DEF WebhookIInv, WebhookTypeOK
<1>4. ReplyInv'
  <2>1. ASSUME NEW d \in Client, reply'[d] # None
        PROVE  Answering(d)'
    <3>1. d # c /\ reply'[d] = reply[d]
      BY <1>1, <2>1 DEF WebhookIInv, WebhookTypeOK
    <3>2. work'[d] = work[d]
      BY <1>1, <3>1 DEF Abandon, Rollback, Release, WebhookIInv, IInv, TypeOK
    <3> QED
      BY <1>2, <2>1, <3>1, <3>2, KeepAnswering
  <2> QED
    BY <2>1 DEF ReplyInv
<1> QED
  BY <1>1, <1>2, <1>3, <1>4, EndpointStep

\* A step of a client that answers no delivery, or of Documenso or an administrator.
LEMMA OtherStep ==
    ASSUME WebhookIInv, [Next]_vars, UNCHANGED <<acked, reply>>, {expected', sent'} \subseteq Secret,
           \A d \in Client : reply[d] # None => work'[d] = work[d]
    PROVE  WebhookIInv'
<1>1. WebhookTypeOK'
  BY DEF WebhookIInv, WebhookTypeOK
<1>2. ReplyInv'
  BY KeepAnswering DEF ReplyInv
<1> QED
  BY <1>1, <1>2, EndpointStep

LEMMA UserSteps ==
    ASSUME WebhookIInv, NEW c \in Client, UserStep(c) \/ UserEnd(c), UNCHANGED webhookVars
    PROVE  WebhookIInv'
<1>1. [Next]_vars
  BY DEF UserStep, UserEnd, Next, Begin
<1>2. reply[c] = None
  <2>1. CASE UserEnd(c)
    BY <2>1 DEF UserEnd
  <2>2. CASE UserStep(c)
    <3>1. work[c] = Idle \/ work[c].op \in {"form", "send", "refused", "created"}
      BY <2>2 DEF UserStep, BeginCreate, OpenRequest, BeginForm, BeginSend, BeginCancel, BeginMark,
                  BeginAction, BeginLateApproval, CreateEnvelope, RefuseSend, Distribute, Busy
    <3> QED
      BY <3>1 DEF WebhookIInv, ReplyInv, Answering
  <2> QED
    BY <2>1, <2>2
<1>3. \E w : work' = [work EXCEPT ![c] = w]
  <2>1. CASE UserEnd(c)
    BY <2>1 DEF UserEnd, Abandon, Rollback, Commit, CommitCreate, CommitForm, CommitSend,
                CommitComplete, CommitMark, CommitDrop, CommitCancel, CommitAction,
                CommitLateApproval, SaveVersion, WriteVersion, Release
  <2>2. CASE UserStep(c)
    BY <2>2 DEF UserStep, BeginCreate, OpenRequest, BeginForm, BeginSend, BeginCancel, BeginMark,
                Completing, BeginAction, BeginLateApproval, CreateEnvelope, RefuseSend, Distribute,
                Rollback, Release, Hold
  <2> QED
    BY <2>1, <2>2
<1>4. \A d \in Client : reply[d] # None => work'[d] = work[d]
  BY <1>2, <1>3 DEF WebhookIInv, IInv, TypeOK
<1>5. UNCHANGED <<acked, reply, expected, sent>>
  BY DEF webhookVars
<1> QED
  BY <1>1, <1>4, <1>5, OtherStep DEF WebhookIInv, WebhookTypeOK

LEMMA WebhookNextInv == WebhookIInv /\ [WebhookNext]_allVars => WebhookIInv'
<1> SUFFICES ASSUME WebhookIInv, [WebhookNext]_allVars
             PROVE  WebhookIInv'
  OBVIOUS
<1>1. ASSUME NEW c \in Client, NEW e \in Envelope, Deliver(c, e)
      PROVE  WebhookIInv'
  BY <1>1, DeliverStep
<1>2. ASSUME NEW c \in Client, CommitDelivery(c) \/ FailDelivery(c)
      PROVE  WebhookIInv'
  BY <1>2, CommitDeliveryStep, FailDeliveryStep
<1>3. ASSUME NEW c \in Client, UserStep(c) /\ UNCHANGED webhookVars
      PROVE  WebhookIInv'
  BY <1>3, UserSteps
<1>4. ASSUME NEW c \in Client, UserEnd(c)
      PROVE  WebhookIInv'
  BY <1>4, UserSteps DEF UserEnd
<1>5. ASSUME NEW e \in Envelope, DeliverSettled(e)
      PROVE  WebhookIInv'
  BY <1>5, DeliverSettledStep
<1>6. ASSUME NEW e \in Envelope, Sign(e) /\ UNCHANGED webhookVars
      PROVE  WebhookIInv'
  BY <1>6, OtherStep DEF Sign, Next, webhookVars, WebhookIInv, WebhookTypeOK
<1>7. CASE RotateHere \/ RotateThere \/ UNCHANGED allVars
  <2>1. UNCHANGED <<vars, acked, reply>> /\ {expected', sent'} \subseteq Secret
    BY <1>7 DEF RotateHere, RotateThere, allVars, webhookVars, Secret, WebhookIInv, WebhookTypeOK
  <2> QED
    BY <2>1, OtherStep DEF vars
<1> QED
  BY <1>1, <1>2, <1>3, <1>4, <1>5, <1>6, <1>7 DEF WebhookNext

\* What the proofs below rest on: whoever answers a delivery holds the request
\* the envelope is of, and what was acknowledged is completed and settled.
THEOREM WebhookInvariance == WebhookSpec => []WebhookIInv
<1>1. WebhookInit => WebhookIInv
  BY InitWebhookInv
<1>2. WebhookIInv /\ [WebhookNext]_allVars => WebhookIInv'
  BY WebhookNextInv
<1> QED
  BY <1>1, <1>2, PTL DEF WebhookSpec

\* Every variable of the endpoint has its type.
THEOREM WebhookTypeCorrect == WebhookSpec => []WebhookTypeOK
<1>1. WebhookIInv => WebhookTypeOK
  BY DEF WebhookIInv
<1> QED
  BY <1>1, WebhookInvariance, PTL

\* Documenso stops delivering only when the request is closed for good.
THEOREM NoEarlyAcknowledgement == WebhookSpec => []AcknowledgedIsSettled
<1>1. WebhookIInv => AcknowledgedIsSettled
  BY DEF WebhookIInv
<1> QED
  BY <1>1, WebhookInvariance, PTL

LEMMA StepOfSigning == [WebhookNext]_allVars => [Next]_vars
<1> SUFFICES ASSUME WebhookNext
             PROVE  [Next]_vars
  BY DEF allVars
<1>1. ASSUME NEW c \in Client, NEW e \in Envelope, Deliver(c, e)
      PROVE  Next
  BY <1>1 DEF Deliver, Next, Begin
<1>2. ASSUME NEW c \in Client, CommitDelivery(c) \/ FailDelivery(c) \/ UserEnd(c)
      PROVE  Next
  BY <1>2 DEF CommitDelivery, FailDelivery, UserEnd, Next, Commit
<1>3. ASSUME NEW c \in Client, UserStep(c)
      PROVE  Next
  BY <1>3 DEF UserStep, Next, Begin
<1>4. ASSUME NEW e \in Envelope, Sign(e)
      PROVE  Next
  BY <1>4 DEF Next
<1>5. ASSUME NEW e \in Envelope, DeliverSettled(e)
      PROVE  UNCHANGED vars
  BY <1>5 DEF DeliverSettled
<1>6. CASE RotateHere \/ RotateThere
  BY <1>6 DEF RotateHere, RotateThere
<1> QED
  BY <1>1, <1>2, <1>3, <1>4, <1>5, <1>6 DEF WebhookNext

\* The endpoint implements Signing: redelivery, lost answers and secrets that
\* do not match add no behaviour to it, so every safety property of Signing holds
\* with the endpoint in front.
THEOREM EndpointImplementsSigning == WebhookSpec => Spec
<1>1. WebhookInit => Init
  BY DEF WebhookInit
<1>2. [WebhookNext]_allVars => [Next]_vars
  BY StepOfSigning
<1> QED
  BY <1>1, <1>2, PTL DEF WebhookSpec, Spec

\* With deliveries repeated, lost and refused in front of it, the books still
\* change only as the operations of SigningProtocol, one after the other, change them.
THEOREM EndpointFollowsProtocol == WebhookSpec => FollowsProtocol
BY EndpointImplementsSigning, SigningRefinement
=============================================================================
