------------------------------ MODULE Signing ------------------------------
(***************************************************************************)
(* The signature of contract versions: SignatureService, the Signature     *)
(* Request controller, the Documenso envelopes they create and the         *)
(* DOCUMENT_COMPLETED webhook that reports one signed.                     *)
(*                                                                         *)
(* What a request does in Documenso is visible at once and stays when the  *)
(* request rolls back; what it does in the database becomes visible when   *)
(* it commits (see VersionTable).                                          *)
(***************************************************************************)
EXTENDS VersionTable

CONSTANTS Request,       \* the signature requests that may ever be created
          Envelope,      \* the envelopes Documenso may ever hold (a bound)
          Signer,        \* the users a request may name as recipients
          None,          \* no request, no envelope, no document
          DeskActions    \* the workflow actions applied from the desk

ASSUME SigningAssumption == None \notin Envelope /\ DeskActions \subseteq WorkflowAction

VARIABLES request,     \* request[r]: the Signature Request row, None before the insert
          lapsed,      \* clients whose copy of a request is not the latest
          executed,    \* executed[v]: envelope whose signed PDF is executed_document
          bypassed,    \* history: versions moved past the service, see NoteBypass
          undecided,   \* versions the desk approved whose approvals are still open
          documenso,   \* documenso[e]: what Documenso says of envelope e
          externalId   \* externalId[e]: the request envelope e was created for

vars == <<status, current, work, outdated, request, lapsed, executed, bypassed, undecided,
          documenso, externalId>>

\* linked: recipients whose documenso_recipient_id is known; signed: recipients
\* in status Signed.  The statuses are those the code assigns: nothing sets Sent,
\* Viewed, In Progress, Declined or Expired.
RequestDoc == [status : {"Draft", "Pending", "Completed", "Cancelled"}, version : Version,
               envelope : Envelope \union {None}, recipients : SUBSET Signer,
               linked : SUBSET Signer, signed : SUBSET Signer]

\* A signature request that was not inserted is none.
ASSUME NoRequestAssumption == None \notin RequestDoc

\* op says how far a request came; "form" is an open tab.  sr is the copy of
\* the signature request req, file the signed document to be stored.
Work == [op : {"create", "form", "save", "send", "refused", "created", "distributed", "complete",
               "resave", "mark", "drop", "cancel", "action", "approve"},
         doc : Version, status : Status, current : BOOLEAN, seen : SUBSET Version,
         req : Request \union {None}, sr : RequestDoc \union {None},
         file : Envelope \union {None}]

Init ==
    /\ status = [v \in Version |-> "Approved"]
    /\ current \in {{v} : v \in Version}
    /\ work = [c \in Client |-> Idle]
    /\ outdated = {}
    /\ request = [r \in Request |-> None]
    /\ lapsed = {}
    /\ executed = [v \in Version |-> None]
    /\ bypassed = {}
    /\ undecided \in SUBSET Version
    /\ documenso = [e \in Envelope |-> "unused"]
    /\ externalId = [e \in Envelope |-> None]

database == <<status, current, outdated, request, lapsed, executed, bypassed, undecided>>
external == <<documenso, externalId>>

Busy(c, op) == work[c] # Idle /\ work[c].op = op

Hold(c, w) == work' = [work EXCEPT ![c] = w]

\* A request loads version v and works on signature request r, with copy sr.
Load(v, op, new, r, sr, file) ==
    [op |-> op, doc |-> v, status |-> new, current |-> v \in current, seen |-> current,
     req |-> r, sr |-> sr, file |-> file]

-----------------------------------------------------------------------------
(* Signature Request documents *)

Filed == {r \in Request : request[r] # None}

In(s) == {r \in Filed : request[r].status = s}

NoOtherActive_Mutant(r, v) == {q \in In("Draft") : request[q].version = v /\ q # r} = {}

\* validate_duplicate_active_request, a plain read.
NoOtherActive(r, v) ==
    {q \in In("Draft") \union In("Pending") : request[q].version = v /\ q # r} = {}

RequestHolders(r) == {d \in Client : work[d] # Idle /\ work[d].req = r}

\* check_if_latest of a signature request.
RequestLatest(c) == c \notin lapsed

SaveRequest(c, sr) ==
    /\ RequestLatest(c)
    /\ request' = [request EXCEPT ![work[c].req] = sr]
    /\ lapsed' = (lapsed \union RequestHolders(work[c].req)) \ {c}

-----------------------------------------------------------------------------
(* create_signature_request *)

\* _validate_contract_version
ReadyToSign(v) == v \in current /\ status[v] = "Approved"

BeginCreate(c, r, v) ==
    /\ work[c] = Idle
    /\ request[r] = None /\ RequestHolders(r) = {}
    /\ ReadyToSign(v)
    /\ NoOtherActive(r, v)
    /\ Hold(c, Load(v, "create", status[v], r,
                    [status |-> "Draft", version |-> v, envelope |-> None,
                     recipients |-> {}, linked |-> {}, signed |-> {}], None))
    /\ UNCHANGED <<database, external>>

CommitCreate(c) ==
    /\ Busy(c, "create")
    /\ SaveRequest(c, work[c].sr)
    /\ Rollback(c)
    /\ UNCHANGED <<status, current, executed, bypassed, undecided, external>>

\* The recipients of a draft are entered in its form.
OpenRequest(c, r) ==
    /\ work[c] = Idle
    /\ r \in In("Draft")
    /\ Hold(c, Load(request[r].version, "form", "Approved", r, request[r], None))
    /\ UNCHANGED <<database, external>>

\* The save checks for another active request on the snapshot it begins with.
BeginForm(c) ==
    /\ Busy(c, "form")
    /\ NoOtherActive(work[c].req, work[c].doc)
    /\ Hold(c, [work[c] EXCEPT !.op = "save"])
    /\ UNCHANGED <<database, external>>

CommitForm(c) ==
    /\ Busy(c, "save")
    /\ \E chosen \in SUBSET Signer : SaveRequest(c, [work[c].sr EXCEPT !.recipients = chosen])
    /\ Rollback(c)
    /\ UNCHANGED <<status, current, executed, bypassed, undecided, external>>

-----------------------------------------------------------------------------
(* send_signature_request: three calls outside the transaction's reach *)

\* Another active request is found only by the first save, see RefuseSend.
BeginSend(c, r) ==
    /\ work[c] = Idle
    /\ r \in In("Draft") /\ request[r].recipients # {}
    /\ ReadyToSign(request[r].version)
    /\ LET op == IF NoOtherActive(r, request[r].version) THEN "send" ELSE "refused" IN
         Hold(c, Load(request[r].version, op, "Signature Requested", r, request[r], None))
    /\ UNCHANGED <<database, external>>

\* envelope/create, with the name of the request as external ID.
CreateDocument(c, e) ==
    /\ documenso[e] = "unused"
    /\ documenso' = [documenso EXCEPT ![e] = "draft"]
    /\ externalId' = [externalId EXCEPT ![e] = work[c].req]

\* The envelope ID is put into the copy.
CreateEnvelope(c) ==
    /\ Busy(c, "send")
    /\ \E e \in Envelope :
         /\ CreateDocument(c, e)
         /\ Hold(c, [work[c] EXCEPT !.op = "created", !.sr.envelope = e])
    /\ UNCHANGED database

\* The first save of the copy throws: the draft envelope stays behind.
RefuseSend(c) ==
    /\ Busy(c, "refused")
    /\ \E e \in Envelope : CreateDocument(c, e)
    /\ Rollback(c)
    /\ lapsed' = lapsed \ {c}
    /\ UNCHANGED <<status, current, request, executed, bypassed, undecided>>

DistributeDocument_Mutant(e) == documenso' = [documenso EXCEPT ![e] = "draft"]

\* envelope/distribute
DistributeDocument(e) == documenso' = [documenso EXCEPT ![e] = "live"]

\* The copy is saved, which locks the row until the request ends, and the
\* envelope distributed; recipients are linked by email, those that match.
Distribute(c) ==
    /\ Busy(c, "created")
    /\ RequestLatest(c)
    /\ \A d \in RequestHolders(work[c].req) : work[d].op # "distributed"
    /\ DistributeDocument(work[c].sr.envelope)
    /\ \E matched \in SUBSET work[c].sr.recipients :
         Hold(c, [work[c] EXCEPT !.op = "distributed", !.sr.linked = matched])
    /\ UNCHANGED <<database, externalId>>

MarkPending_Mutant(sr) == [sr EXCEPT !.status = "Sent"]

\* _mark_signature_request_pending
MarkPending(sr) == [sr EXCEPT !.status = "Pending"]

\* _transition_contract_version and the last save.
CommitSend(c) ==
    /\ Busy(c, "distributed")
    /\ SaveVersion(c, work[c].status)
    /\ SaveRequest(c, MarkPending(work[c].sr))
    /\ UNCHANGED <<executed, bypassed, undecided, external>>

\* External: the recipients sign, the last signature completes the envelope.
Sign(e) ==
    /\ documenso[e] = "live"
    /\ documenso' = [documenso EXCEPT ![e] = "completed"]
    /\ UNCHANGED <<database, work, externalId>>

-----------------------------------------------------------------------------
(* Completion *)

DocumentAvailable_Mutant(v, sr) == executed[v] # None \/ sr.envelope # None

\* _store_executed_document: a document is kept once stored; otherwise the
\* envelope of the request must be completed.
DocumentAvailable(v, sr) ==
    executed[v] # None \/ (sr.envelope # None /\ documenso[sr.envelope] = "completed")

SignedDocument(v, sr) == IF executed[v] # None THEN executed[v] ELSE sr.envelope

LoadCompleting(op, r, sr) ==
    Load(sr.version, op, "Executed", r, sr, SignedDocument(sr.version, sr))

\* The checks of _apply_completion_transitions on what it has loaded.  For a
\* version found Executed it goes on to save the copy that its own db.set_value
\* has just outdated: nothing but a rollback can end a request in "resave".
Completing(c, r, sr) ==
    /\ DocumentAvailable(sr.version, sr)
    /\ \/ /\ CanTransition(status[sr.version], "Executed")
          /\ Hold(c, LoadCompleting("complete", r, sr))
       \/ /\ status[sr.version] = "Executed"
          /\ Hold(c, LoadCompleting("resave", r, sr))

MayComplete_Mutant(r) == request[r].status # "Completed"

\* The idempotency check of process_document_completed.
MayComplete(r) == request[r].status \notin {"Completed", "Cancelled"}

\* process_document_completed for envelope e, delivered any number of times and
\* with any delay.  Only recipients of the envelope on record match by ID.
BeginWebhook(c, e) ==
    /\ work[c] = Idle
    /\ documenso[e] = "completed"
    /\ LET r == externalId[e] IN
         /\ r \in Filed /\ MayComplete(r)
         /\ Completing(c, r, [request[r] EXCEPT
                !.signed = @ \union (IF e = request[r].envelope THEN request[r].linked ELSE {})])
    /\ UNCHANGED <<database, external>>

\* (The mutant completes on the strength of the snapshot.)
CompletesFrom_Mutant(v) == v \in Version

\* The blind write of executed_document makes apply_workflow reload the version
\* as it is now, and not as the snapshot shows it.
CompletesFrom(v) == Outcomes(status[v], "Complete Signing") # {}

CommitComplete(c) ==
    /\ Busy(c, "complete")
    /\ CompletesFrom(work[c].doc)
    /\ executed' = [executed EXCEPT ![work[c].doc] = work[c].file]
    /\ status' = [status EXCEPT ![work[c].doc] = work[c].status]
    /\ outdated' = (outdated \union Holders(work[c].doc)) \ {c}
    /\ SaveRequest(c, [work[c].sr EXCEPT !.status = "Completed"])
    /\ Release(c)
    /\ UNCHANGED <<current, bypassed, undecided, external>>

\* mark_recipient_signed, and complete_signature_request after the last one.
BeginMark(c, r, s) ==
    /\ work[c] = Idle
    /\ r \in In("Pending") /\ s \in request[r].recipients \ request[r].signed
    /\ NoOtherActive(r, request[r].version)
    /\ LET sr == [request[r] EXCEPT !.signed = @ \union {s}] IN
         \/ /\ sr.signed # sr.recipients
            /\ Hold(c, Load(sr.version, "mark", status[sr.version], r, sr, None))
         \/ /\ sr.signed = sr.recipients
            /\ Completing(c, r, sr)
    /\ UNCHANGED <<database, external>>

CommitMark(c) ==
    /\ Busy(c, "mark")
    /\ SaveRequest(c, work[c].sr)
    /\ Rollback(c)
    /\ UNCHANGED <<status, current, executed, bypassed, undecided, external>>

-----------------------------------------------------------------------------
(* cancel_signature_request: the envelope is left as it is *)

\* A draft is just cancelled, a pending request gives the version back first.
BeginCancel(c, r) ==
    /\ work[c] = Idle
    /\ \/ /\ r \in In("Draft")
          /\ Hold(c, Load(request[r].version, "drop", "Approved", r, request[r], None))
       \/ /\ r \in In("Pending")
          /\ CanTransition(status[request[r].version], "Approved")
          /\ \E row \in Outcomes(status[request[r].version], "Cancel Signature") :
               Hold(c, Load(request[r].version, "cancel", row.next, r, request[r], None))
    /\ UNCHANGED <<database, external>>

CommitDrop(c) ==
    /\ Busy(c, "drop")
    /\ SaveRequest(c, [work[c].sr EXCEPT !.status = "Cancelled"])
    /\ Rollback(c)
    /\ UNCHANGED <<status, current, executed, bypassed, undecided, external>>

CommitCancel_Mutant(c) ==
    /\ Busy(c, "cancel")
    /\ SaveRequest(c, [work[c].sr EXCEPT !.status = "Cancelled"])
    /\ Rollback(c)
    /\ UNCHANGED <<status, current, executed, bypassed, undecided, external>>

\* (The mutant does not give the version back.)
CommitCancel(c) ==
    /\ Busy(c, "cancel")
    /\ SaveVersion(c, work[c].status)
    /\ SaveRequest(c, [work[c].sr EXCEPT !.status = "Cancelled"])
    /\ UNCHANGED <<executed, bypassed, undecided, external>>

-----------------------------------------------------------------------------
(* The desk, late approvals, and failures *)

BeginAction(c, v, a) ==
    /\ work[c] = Idle
    /\ \E row \in Outcomes(status[v], a) :
         Hold(c, Load(v, "action", row.next, None, None, None))
    /\ UNCHANGED <<database, external>>

\* Bookkeeping of the model: a version is moved to or from Signature Requested,
\* and SignatureService does not know.
NoteBypass(v) ==
    bypassed' = IF status[v] # status'[v] /\ "Signature Requested" \in {status[v], status'[v]}
              THEN bypassed \union {v} ELSE bypassed

CommitAction(c) ==
    /\ Busy(c, "action")
    /\ SaveVersion(c, work[c].status)
    /\ NoteBypass(work[c].doc)
    /\ UNCHANGED <<request, lapsed, executed, undecided, external>>

\* _approve_version: the last approver of a version that the desk has approved
\* already decides after all, at the desk or in the portal.  The workflow's way
\* back, Signature Requested to Approved, lets this through while a request is out.
BeginLateApproval(c, v) ==
    /\ work[c] = Idle
    /\ v \in undecided
    /\ CanTransition(status[v], "Approved")
    /\ Hold(c, Load(v, "approve", "Approved", None, None, None))
    /\ UNCHANGED <<database, external>>

\* With it no approval of the version is open any more.
CommitLateApproval(c) ==
    /\ Busy(c, "approve")
    /\ SaveVersion(c, work[c].status)
    /\ NoteBypass(work[c].doc)
    /\ undecided' = undecided \ {work[c].doc}
    /\ UNCHANGED <<request, lapsed, executed, external>>

\* An HTTP error or timeout, an exception, a crash: the transaction rolls back,
\* what Documenso did stays.
Abandon(c) ==
    /\ work[c] # Idle
    /\ Rollback(c)
    /\ lapsed' = lapsed \ {c}
    /\ UNCHANGED <<status, current, request, executed, bypassed, undecided, external>>

Begin(c) ==
    \/ \E r \in Request, v \in Version : BeginCreate(c, r, v)
    \/ \E r \in Request : OpenRequest(c, r) \/ BeginSend(c, r) \/ BeginCancel(c, r)
    \/ \E e \in Envelope : BeginWebhook(c, e)
    \/ \E r \in Request, s \in Signer : BeginMark(c, r, s)
    \/ \E v \in Version, a \in DeskActions : BeginAction(c, v, a)
    \/ \E v \in Version : BeginLateApproval(c, v)
    \/ BeginForm(c)

Commit(c) ==
    \/ CommitCreate(c) \/ CommitForm(c) \/ CommitSend(c) \/ CommitComplete(c) \/ CommitMark(c)
    \/ CommitDrop(c) \/ CommitCancel(c) \/ CommitAction(c) \/ CommitLateApproval(c)

Next ==
    \/ \E c \in Client :
         \/ Begin(c) \/ CreateEnvelope(c) \/ RefuseSend(c) \/ Distribute(c)
         \/ Commit(c) \/ Abandon(c)
    \/ \E e \in Envelope : Sign(e)

Spec == Init /\ [][Next]_vars

\* Every request and tab ends; Documenso delivers the webhook of a completed
\* envelope again after a failure, and not every delivery that could commit
\* fails for a reason of its own.
Fairness ==
    /\ \A c \in Client : WF_vars(Commit(c) \/ Abandon(c)) /\ SF_vars(CommitComplete(c))
    /\ \A e \in Envelope : SF_vars(\E c \in Client : BeginWebhook(c, e))

LiveSpec == Spec /\ Fairness

-----------------------------------------------------------------------------
(* Properties *)

\* Every variable has its type.
TypeOK ==
    /\ status \in [Version -> Status]
    /\ current \subseteq Version
    /\ work \in [Client -> Work \union {Idle}]
    /\ outdated \subseteq Client
    /\ request \in [Request -> RequestDoc \union {None}]
    /\ lapsed \subseteq Client
    /\ executed \in [Version -> Envelope \union {None}]
    /\ bypassed \subseteq Version
    /\ undecided \subseteq Version
    /\ documenso \in [Envelope -> {"unused", "draft", "live", "completed"}]
    /\ externalId \in [Envelope -> Request \union {None}]

\* At most one request of a version is out for signature, although the check for
\* other active requests reads a snapshot: two drafts may slip past each other,
\* but then neither can be sent.
OnePendingPerVersion ==
    \A q, r \in In("Pending") : request[q].version = request[r].version => q = r

\* A request is Completed exactly when its version is Executed with the signed
\* document of that request's envelope: webhook, manual completion, retries and
\* cancellations never commit one without the other.
CompletionIsWhole ==
    /\ \A r \in In("Completed") :
         /\ status[request[r].version] = "Executed"
         /\ executed[request[r].version] = request[r].envelope
    /\ \A v \in Version : executed[v] # None =>
         /\ documenso[executed[v]] = "completed"
         /\ \E r \in In("Completed") : request[r].version = v

\* A pending request points at an envelope that was created for it and sent out.
PendingIsDistributed ==
    \A r \in In("Pending") :
        /\ request[r].envelope # None
        /\ documenso[request[r].envelope] \in {"live", "completed"}
        /\ externalId[request[r].envelope] = r

\* Completed and Cancelled are final, and a stored signed document is never
\* replaced, however late or often a webhook, a form or a cancellation arrives.
ClosedIsClosed ==
    [][/\ \A r \in In("Completed") \union In("Cancelled") : request'[r] = request[r]
       /\ \A v \in Version : executed[v] # None => executed'[v] = executed[v]]_vars

\* A version is in Signature Requested exactly while a request of it is pending:
\* sending, completing and cancelling never move the one without the other, also
\* when they overlap.  Two ways past the service break this, and versions they
\* moved are left out: a workflow action of the desk, and the late approval of a
\* version the desk had approved over the heads of its approvers.
PendingMatchesVersion ==
    \A v \in Version \ bypassed : status[v] = "Signature Requested" <=>
        \E r \in In("Pending") : request[r].version = v

BookedDoc == [status : {"Draft", "Pending", "Completed", "Cancelled"}, version : Version,
              envelope : Envelope \union {None}]

\* A request on the books is not none either.
ASSUME NoBookingAssumption == None \notin BookedDoc

\* What the books say of a request.
Booked(r) ==
    IF request[r] = None THEN None
    ELSE [status |-> request[r].status, version |-> request[r].version,
          envelope |-> request[r].envelope]

Protocol == INSTANCE SigningProtocol WITH request <- [r \in Request |-> Booked(r)]

\* Versions, signed documents and requests change as if sending, completing and
\* cancelling ran alone and in one step each: no overlap of them, no failure
\* between two calls to Documenso and no late webhook leaves anything else in
\* the books, whatever the desk does to the version meanwhile.
FollowsProtocol == Protocol!Spec

\* "Already executed (e.g. the transition was applied from the desk). Persist the
\* executed document field": once the envelope of a pending request is completed
\* and the desk has executed the version, the signed document arrives.
DocumentPersisted ==
    \A r \in Request :
        (/\ r \in In("Pending") /\ documenso[request[r].envelope] = "completed"
         /\ status[request[r].version] = "Executed")
            ~> (r \in Filed /\ executed[request[r].version] # None)

\* "Persist Documenso envelope and recipient IDs to the database": an envelope
\* that signers can sign is on record, or is about to be.
EnvelopesOnRecord ==
    \A e \in Envelope : documenso[e] \in {"live", "completed"} =>
        \/ \E r \in Filed : request[r].envelope = e
        \/ \E c \in Client : Busy(c, "distributed") /\ work[c].sr.envelope = e
=============================================================================
