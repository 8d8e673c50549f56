---------------------------- MODULE SigningProofs ----------------------------
(***************************************************************************)
(* Proofs of the properties of Signing, for any set of versions, requests, *)
(* envelopes, signers and clients, and any workflow actions at the desk.   *)
(***************************************************************************)
EXTENDS Signing, VersionWorkflowProofs

\* The envelope of a copy sr of request r was created for r and sent out.
SentOut(sr, r) ==
    /\ sr.envelope \in Envelope
    /\ documenso[sr.envelope] \in {"live", "completed"}
    /\ externalId[sr.envelope] = r

\* A draft has no envelope on record.
DraftsAreUnsent == \A r \in In("Draft") : request[r].envelope = None

Unsent == {"create", "form", "save", "send", "refused", "drop"}
Sending == {"send", "created", "distributed"}
Sent == {"distributed", "mark", "cancel", "complete"}

\* What a client that works on a signature request holds, also when the copy is
\* not the latest any more.
HoldsOK(w) ==
    /\ w.req \in Request /\ w.sr \in RequestDoc /\ w.sr.version = w.doc
    /\ w.op \in Unsent => w.sr.status = "Draft" /\ w.sr.envelope = None
    /\ w.op = "created" =>
         /\ w.sr.status = "Draft" /\ w.sr.envelope \in Envelope
         /\ documenso[w.sr.envelope] = "draft" /\ externalId[w.sr.envelope] = w.req
    /\ w.op \in Sent => SentOut(w.sr, w.req)
    /\ w.op = "distributed" => w.sr.status = "Draft"
    /\ w.op \in {"mark", "cancel", "complete"} => w.sr.status = "Pending"
    /\ w.op \in Sending => w.status = "Signature Requested"
    /\ w.op = "cancel" => w.status = "Approved"
    /\ w.op = "complete" =>
         /\ w.status = "Executed" /\ w.file = w.sr.envelope
         /\ documenso[w.sr.envelope] = "completed"

\* While it is the latest, the request is as far as the copy says.
LatestOK(c, w) ==
    /\ w.op = "create" => request[w.req] = None
    /\ w.op # "create" => request[w.req] # None
    /\ (w.op # "create" /\ c \notin lapsed) =>
         request[w.req].status = w.sr.status /\ request[w.req].version = w.sr.version

\* While the version is as it was loaded, no request of it was sent.
VersionOK(c, w) ==
    (w.op \in Sending /\ c \notin outdated) => \A q \in In("Pending") : request[q].version # w.doc

CopyOK(c, w) == w.op \notin {"action", "approve"} => HoldsOK(w) /\ LatestOK(c, w) /\ VersionOK(c, w)

\* Nobody else creates the same request, or is about to send the same envelope.
Alone(c, d) ==
    /\ (Busy(c, "create") /\ Busy(d, "create") /\ work[c].req = work[d].req) => c = d
    /\ (Busy(c, "created") /\ Busy(d, "created") /\ work[c].sr.envelope = work[d].sr.envelope) => c = d

WorkInv ==
    /\ \A c \in Client : work[c] # Idle => CopyOK(c, work[c])
    /\ \A c, d \in Client : Alone(c, d)

\* An envelope Documenso holds was created for a request that is in the table.
EnvelopesAreFiled == \A e \in Envelope : documenso[e] # "unused" => externalId[e] \in Filed

RequestInv ==
    /\ OnePendingPerVersion /\ CompletionIsWhole /\ PendingIsDistributed /\ PendingMatchesVersion
    /\ DraftsAreUnsent /\ EnvelopesAreFiled

IInv == TypeOK /\ RequestInv /\ WorkInv

-----------------------------------------------------------------------------
(* Copies *)

LEMMA WorkType ==
    ASSUME TypeOK, NEW c \in Client, work[c] # Idle
    PROVE  work[c] \in Work /\ work[c].doc \in Version /\ work[c].status \in Status
<1>1. work[c] \in Work
  BY DEF TypeOK
<1> QED
  BY <1>1 DEF Work

\* A request that is in the table.
LEMMA FiledType ==
    ASSUME TypeOK, NEW r \in Request, request[r] # None
    PROVE  /\ request[r] \in RequestDoc
           /\ request[r].version \in Version
           /\ request[r].status \in {"Draft", "Pending", "Completed", "Cancelled"}
           /\ request[r].envelope \in Envelope \union {None}
           /\ \A s : r \in In(s) <=> request[r].status = s
<1>1. request[r] \in RequestDoc
  BY DEF TypeOK
<1>2. \A s : r \in In(s) <=> request[r].status = s
  BY DEF In, Filed
<1> QED
  BY <1>1, <1>2 DEF RequestDoc

\* What Documenso may do while a client waits: sign, and hold new envelopes.
External ==
    \A e \in Envelope :
        /\ documenso[e] \in {"live", "completed"} => documenso'[e] \in {"live", "completed"}
        /\ documenso[e] = "completed" => documenso'[e] = "completed"
        /\ documenso[e] # "unused" => externalId'[e] = externalId[e]

\* A copy stays good as long as what it was loaded from does.
LEMMA KeepCopy ==
    ASSUME NEW d \in Client, NEW w, work'[d] = w, CopyOK(d, w), External,
           w.op = "created" => documenso'[w.sr.envelope] = "draft",
           w.op = "create" => request'[w.req] = request[w.req],
           w.op \notin {"action", "approve"} /\ request[w.req] # None => request'[w.req] # None,
           w.op \notin {"action", "approve"} /\ d \notin lapsed' =>
               d \notin lapsed /\ request'[w.req] = request[w.req],
           w.op \in Sending /\ d \notin outdated' =>
                /\ d \notin outdated
                /\ \A q \in In("Pending")' : request'[q].version = w.doc =>
                      q \in In("Pending") /\ request[q].version = w.doc
    PROVE  CopyOK(d, work[d])'
<1> SUFFICES ASSUME w.op \notin {"action", "approve"}
             PROVE  CopyOK(d, work[d])'
  BY DEF CopyOK
<1>1. HoldsOK(w) /\ LatestOK(d, w) /\ VersionOK(d, w)
  BY DEF CopyOK
<1>2. w.op \in Sent => SentOut(w.sr, w.req) /\ SentOut(work[d].sr, work[d].req)'
  BY <1>1 DEF HoldsOK, SentOut, External
<1>3. HoldsOK(work[d])'
  <2>1. w.op = "created" => externalId'[w.sr.envelope] = w.req
    BY <1>1 DEF HoldsOK, External
  <2>2. w.op = "complete" => documenso'[w.sr.envelope] = "completed"
    BY <1>1, <1>2 DEF HoldsOK, External, Sent, SentOut
  <2> QED
    BY <1>1, <1>2, <2>1, <2>2 DEF HoldsOK, Unsent, Sent, Sending
<1>4. LatestOK(d, work[d])'
  BY <1>1 DEF LatestOK
<1>5. VersionOK(d, work[d])'
  BY <1>1 DEF VersionOK, Sending
<1> QED
  BY <1>3, <1>4, <1>5 DEF CopyOK

\* Requests and versions are left alone.
LEMMA KeepRequests ==
    ASSUME IInv, UNCHANGED <<status, request, executed, bypassed>>, External, EnvelopesAreFiled'
    PROVE  RequestInv' /\ \A s : In(s)' = In(s)
<1>1. Filed' = Filed
  BY DEF Filed
<1>2. \A s : In(s)' = In(s)
  BY <1>1 DEF In
<1>3. OnePendingPerVersion' /\ DraftsAreUnsent'
  BY <1>2 DEF IInv, RequestInv, OnePendingPerVersion, DraftsAreUnsent
<1>4. PendingIsDistributed'
  <2>1. \A r \in In("Pending") : request[r].envelope \in Envelope
    BY FiledType DEF In, Filed, IInv, RequestInv, PendingIsDistributed
  <2> QED
    BY <1>2, <2>1 DEF External, IInv, RequestInv, PendingIsDistributed
<1>5. CompletionIsWhole'
  <2>1. \A v \in Version : executed[v] # None => executed[v] \in Envelope
    BY DEF IInv, TypeOK
  <2> QED
    BY <1>2, <2>1 DEF External, IInv, RequestInv, CompletionIsWhole
<1>6. PendingMatchesVersion'
  <2>1. In("Pending")' = In("Pending")
    BY <1>2
  <2> QED
    BY <2>1 DEF IInv, RequestInv, PendingMatchesVersion
<1> QED
  BY <1>2, <1>3, <1>4, <1>5, <1>6 DEF RequestInv

\* Documenso is left alone, and no request is removed.
LEMMA KeepEnvelopes ==
    ASSUME IInv, UNCHANGED <<documenso, externalId>>, Filed \subseteq Filed'
    PROVE  External /\ EnvelopesAreFiled'
BY DEF External, EnvelopesAreFiled, IInv, RequestInv

LEMMA InitInv == Init => IInv
<1> SUFFICES ASSUME Init PROVE IInv
  OBVIOUS
<1>1. TypeOK
  BY DEF Init, TypeOK, Status
<1>2. \A s : In(s) = {}
  BY DEF Init, In, Filed
<1>3. RequestInv
  BY <1>2 DEF Init, RequestInv, OnePendingPerVersion, CompletionIsWhole, PendingIsDistributed,
              PendingMatchesVersion, DraftsAreUnsent, EnvelopesAreFiled
<1>4. WorkInv
  BY DEF Init, WorkInv, Alone, Busy
<1> QED
  BY <1>1, <1>3, <1>4 DEF IInv

\* A step that only loads a copy.
LEMMA HoldStep ==
    ASSUME IInv, NEW c \in Client, NEW w \in Work, Hold(c, w), CopyOK(c, w),
           w.op # "created", w.op = "create" => RequestHolders(w.req) = {},
           UNCHANGED <<database, external>>
    PROVE  IInv'
<1>1. /\ work' \in [Client -> Work \union {Idle}]
      /\ work'[c] = w
      /\ \A d \in Client \ {c} : work'[d] = work[d]
  BY DEF Hold, IInv, TypeOK
<1>2. UNCHANGED <<status, current, outdated, request, lapsed, executed, bypassed, undecided,
                  documenso, externalId>>
  BY DEF database, external
<1>3. TypeOK'
  BY <1>1, <1>2 DEF IInv, TypeOK
<1>4. RequestInv' /\ External /\ \A s : In(s)' = In(s)
  <2>1. External /\ EnvelopesAreFiled'
    BY <1>2, KeepEnvelopes DEF Filed
  <2> QED
    BY <1>2, <2>1, KeepRequests
<1>5. ASSUME NEW d \in Client, work'[d] # Idle
      PROVE  CopyOK(d, work[d])'
  <2>1. CopyOK(d, work'[d])
    BY <1>1, <1>5 DEF IInv, WorkInv
  <2>2. work'[d].op = "created" => documenso'[work'[d].sr.envelope] = "draft"
    BY <1>2, <2>1 DEF CopyOK, HoldsOK
  <2> QED
    BY <1>2, <1>4, <2>1, <2>2, KeepCopy
<1>6. ASSUME NEW d \in Client, NEW e \in Client
      PROVE  Alone(d, e)'
  <2>1. Alone(d, e)
    BY DEF IInv, WorkInv
  <2>2. w.op = "create" => \A b \in Client : ~(Busy(b, "create") /\ work[b].req = w.req)
    BY DEF RequestHolders, Busy
  <2> QED
    BY <1>1, <2>1, <2>2 DEF Alone, Busy
<1> QED
  BY <1>3, <1>4, <1>5, <1>6 DEF IInv, WorkInv

-----------------------------------------------------------------------------
(* The steps that load *)

LEMMA LoadType ==
    ASSUME TypeOK, NEW v \in Version, NEW new \in Status, NEW r \in Request \union {None},
           NEW sr \in RequestDoc \union {None}, NEW file \in Envelope \union {None},
           NEW op \in {"create", "form", "send", "refused", "complete", "resave", "mark",
                       "drop", "cancel", "action", "approve"}
    PROVE  Load(v, op, new, r, sr, file) \in Work
<1>1. current \in SUBSET Version /\ (v \in current) \in BOOLEAN
  BY DEF TypeOK
<1> QED
  BY <1>1 DEF Load, Work

LEMMA BeginCreateStep ==
    ASSUME IInv, NEW c \in Client, NEW r \in Request, NEW v \in Version, BeginCreate(c, r, v)
    PROVE  IInv'
<1> DEFINE sr == [status |-> "Draft", version |-> v, envelope |-> None,
                  recipients |-> {}, linked |-> {}, signed |-> {}]
           w == Load(v, "create", status[v], r, sr, None)
<1>1. sr \in RequestDoc
  BY DEF RequestDoc
<1>2. w \in Work
  BY <1>1, LoadType DEF IInv, TypeOK
<1>3. CopyOK(c, w)
  BY <1>1 DEF BeginCreate, Load, CopyOK, HoldsOK, LatestOK, VersionOK, Unsent, Sent, Sending
<1>4. w.op = "create" /\ w.req = r
  BY DEF Load
<1> QED
  BY <1>2, <1>3, <1>4, HoldStep DEF BeginCreate

\* A draft is loaded, to be edited or dropped.
LEMMA LoadDraft ==
    ASSUME IInv, NEW c \in Client, NEW r \in In("Draft"),
           NEW op \in {"form", "send", "refused", "drop"},
           NEW new \in Status,
           op = "send" => /\ new = "Signature Requested"
                          /\ NoOtherActive(r, request[r].version)
    PROVE  LET w == Load(request[r].version, op, new, r, request[r], None) IN
           w \in Work /\ CopyOK(c, w) /\ w.op = op
<1> DEFINE w == Load(request[r].version, op, new, r, request[r], None)
<1>1. /\ r \in Request /\ request[r] \in RequestDoc /\ request[r] # None
      /\ request[r].version \in Version /\ request[r].status = "Draft"
  BY FiledType DEF In, Filed, IInv
<1>2. request[r].envelope = None
  BY DEF IInv, RequestInv, DraftsAreUnsent
<1>3. w \in Work
  BY <1>1, LoadType DEF IInv
<1>4. op = "send" => \A q \in In("Pending") : request[q].version # request[r].version
  BY <1>1 DEF NoOtherActive, In
<1>5. CopyOK(c, w)
  BY <1>1, <1>2, <1>4 DEF Load, CopyOK, HoldsOK, LatestOK, VersionOK, Unsent, Sent, Sending
<1> QED
  BY <1>3, <1>5 DEF Load

LEMMA OpenRequestStep ==
    ASSUME IInv, NEW c \in Client, NEW r \in Request, OpenRequest(c, r)
    PROVE  IInv'
<1> DEFINE w == Load(request[r].version, "form", "Approved", r, request[r], None)
<1>1. "Approved" \in Status
  BY DEF Status
<1>2. w \in Work /\ CopyOK(c, w) /\ w.op = "form"
  BY <1>1, LoadDraft DEF OpenRequest
<1> QED
  BY <1>2, HoldStep DEF OpenRequest

\* The form that a tab has open is saved.
LEMMA BeginFormStep ==
    ASSUME IInv, NEW c \in Client, BeginForm(c)
    PROVE  IInv'
<1> DEFINE w == [work[c] EXCEPT !.op = "save"]
<1>1. work[c] # Idle /\ work[c].op = "form" /\ work[c] \in Work /\ CopyOK(c, work[c])
  BY WorkType DEF BeginForm, Busy, IInv, WorkInv
<1>2. /\ w \in Work /\ w.op = "save" /\ w.doc = work[c].doc /\ w.status = work[c].status
      /\ w.req = work[c].req /\ w.sr = work[c].sr
  BY <1>1 DEF Work
<1>3. Hold(c, w) /\ UNCHANGED <<database, external>>
  BY DEF BeginForm
<1> HIDE DEF w
<1>4. HoldsOK(w)
  BY <1>1, <1>2 DEF CopyOK, HoldsOK, Unsent, Sending, Sent
<1>5. LatestOK(c, w) /\ VersionOK(c, w)
  BY <1>1, <1>2 DEF CopyOK, LatestOK, VersionOK, Sending
<1> QED
  BY <1>2, <1>3, <1>4, <1>5, HoldStep DEF CopyOK

LEMMA BeginSendStep ==
    ASSUME IInv, NEW c \in Client, NEW r \in Request, BeginSend(c, r)
    PROVE  IInv'
<1> DEFINE op == IF NoOtherActive(r, request[r].version) THEN "send" ELSE "refused"
           w == Load(request[r].version, op, "Signature Requested", r, request[r], None)
<1>1. "Signature Requested" \in Status
  BY DEF Status
<1>2. /\ op \in {"form", "send", "refused", "drop"}
      /\ op = "send" => NoOtherActive(r, request[r].version)
  OBVIOUS
<1>3. r \in In("Draft") /\ Hold(c, w) /\ UNCHANGED <<database, external>>
  BY DEF BeginSend
<1> HIDE DEF op
<1>4. w \in Work /\ CopyOK(c, w) /\ w.op = op
  <2>1. IInv /\ c \in Client
    OBVIOUS
  <2> QED
    BY ONLY <1>1, <1>2, <1>3, <2>1, LoadDraft
<1> HIDE DEF w
<1>5. w.op # "created" /\ w.op # "create"
  BY <1>2, <1>4
<1> QED
  BY <1>3, <1>4, <1>5, HoldStep

\* A pending request is loaded, to be marked or cancelled.
LEMMA LoadPending ==
    ASSUME IInv, NEW c \in Client, NEW r \in In("Pending"), NEW op \in {"mark", "cancel"},
           NEW new \in Status, op = "cancel" => new = "Approved",
           NEW sr \in RequestDoc, sr.status = "Pending", sr.version = request[r].version,
           sr.envelope = request[r].envelope
    PROVE  LET w == Load(sr.version, op, new, r, sr, None) IN
           w \in Work /\ CopyOK(c, w) /\ w.op = op
<1> DEFINE w == Load(sr.version, op, new, r, sr, None)
<1>1. /\ r \in Request /\ request[r] # None /\ request[r].version \in Version
      /\ request[r].status = "Pending" /\ request[r].envelope \in Envelope \union {None}
  BY FiledType DEF In, Filed, IInv
<1>2. SentOut(sr, r)
  BY <1>1 DEF IInv, RequestInv, PendingIsDistributed, SentOut
<1>3. w \in Work
  BY <1>1, LoadType DEF IInv
<1>4. CopyOK(c, w)
  BY <1>1, <1>2 DEF Load, CopyOK, HoldsOK, LatestOK, VersionOK, Unsent, Sent, Sending
<1> QED
  BY <1>3, <1>4 DEF Load

LEMMA BeginCancelStep ==
    ASSUME IInv, NEW c \in Client, NEW r \in Request, BeginCancel(c, r)
    PROVE  IInv'
<1>0. "Approved" \in Status
  BY DEF Status
<1>1. CASE /\ r \in In("Draft")
           /\ Hold(c, Load(request[r].version, "drop", "Approved", r, request[r], None))
  <2> DEFINE w == Load(request[r].version, "drop", "Approved", r, request[r], None)
  <2>1. w \in Work /\ CopyOK(c, w) /\ w.op = "drop"
    BY <1>0, <1>1, LoadDraft
  <2> QED
    BY <1>1, <2>1, HoldStep DEF BeginCancel
<1>2. ASSUME r \in In("Pending"),
             NEW row \in Outcomes(status[request[r].version], "Cancel Signature"),
             Hold(c, Load(request[r].version, "cancel", row.next, r, request[r], None))
      PROVE  IInv'
  <2> DEFINE w == Load(request[r].version, "cancel", row.next, r, request[r], None)
  <2>1. row.next = "Approved"
    BY TableEdges DEF Outcomes
  <2>2. request[r] \in RequestDoc /\ request[r].status = "Pending"
    BY <1>2, FiledType DEF In, Filed, IInv
  <2>3. w \in Work /\ CopyOK(c, w) /\ w.op = "cancel"
    <3>1. /\ IInv /\ c \in Client /\ r \in In("Pending") /\ row.next \in Status
          /\ row.next = "Approved" /\ request[r] \in RequestDoc
          /\ request[r].status = "Pending"
      BY <1>0, <1>2, <2>1, <2>2
    <3> QED
      BY ONLY <3>1, LoadPending
  <2> QED
    BY <1>2, <2>3, HoldStep DEF BeginCancel
<1> QED
  BY <1>1, <1>2 DEF BeginCancel

LEMMA BeginActionStep ==
    ASSUME IInv, NEW c \in Client, NEW v \in Version, NEW a, BeginAction(c, v, a)
    PROVE  IInv'
<1>1. PICK row \in Outcomes(status[v], a) : Hold(c, Load(v, "action", row.next, None, None, None))
  BY DEF BeginAction
<1> DEFINE w == Load(v, "action", row.next, None, None, None)
<1>2. row.next \in Status
  BY OutcomeIsTransition DEF IInv, TypeOK
<1>3. w \in Work
  BY <1>2, LoadType DEF IInv
<1>4. CopyOK(c, w) /\ w.op = "action"
  BY DEF Load, CopyOK
<1> QED
  BY <1>1, <1>3, <1>4, HoldStep DEF BeginAction

LEMMA BeginLateApprovalStep ==
    ASSUME IInv, NEW c \in Client, NEW v \in Version, BeginLateApproval(c, v)
    PROVE  IInv'
<1> DEFINE w == Load(v, "approve", "Approved", None, None, None)
<1>1. "Approved" \in Status
  BY DEF Status
<1>2. w \in Work
  BY <1>1, LoadType DEF IInv
<1>3. CopyOK(c, w) /\ w.op = "approve"
  BY DEF Load, CopyOK
<1> QED
  BY <1>2, <1>3, HoldStep DEF BeginLateApproval

\* The completion of a request is decided on.
LEMMA CompletingStep ==
    ASSUME IInv, NEW c \in Client, work[c] = Idle, NEW r \in Request, request[r] # None,
           request[r].status \in {"Draft", "Pending"},
           NEW sr \in RequestDoc, sr.status = request[r].status,
           sr.version = request[r].version, sr.envelope = request[r].envelope,
           Completing(c, r, sr), UNCHANGED <<database, external>>
    PROVE  IInv'
<1> DEFINE v == sr.version
<1>1. v \in Version /\ sr.envelope \in Envelope \union {None}
  BY DEF RequestDoc
<1>2. "Executed" \in Status
  BY DEF Status
<1>3. SignedDocument(v, sr) \in Envelope \union {None}
  BY <1>1 DEF SignedDocument, IInv, TypeOK
<1>4. CASE CanTransition(status[v], "Executed") /\ Hold(c, LoadCompleting("complete", r, sr))
  <2> DEFINE w == Load(v, "complete", "Executed", r, sr, SignedDocument(v, sr))
  <2>1. executed[v] = None
    <3>1. status[v] = "Signature Requested"
      BY <1>4, Sources
    <3>2. ASSUME executed[v] # None
          PROVE  status[v] = "Executed"
      BY <1>1, <3>2 DEF IInv, RequestInv, CompletionIsWhole
    <3> QED
      BY <3>1, <3>2
  <2>2. /\ sr.envelope # None /\ documenso[sr.envelope] = "completed"
        /\ SignedDocument(v, sr) = sr.envelope
    BY <2>1 DEF Completing, DocumentAvailable, SignedDocument
  <2>3. r \in In("Pending") /\ sr.status = "Pending"
    BY <2>2 DEF In, Filed, IInv, RequestInv, DraftsAreUnsent
  <2>4. SentOut(sr, r)
    BY <1>1, <2>2, <2>3 DEF SentOut, IInv, RequestInv, PendingIsDistributed
  <2>5. w \in Work
    BY <1>1, <1>2, <1>3, LoadType DEF IInv
  <2>6. CopyOK(c, w) /\ w.op = "complete"
    BY <2>2, <2>3, <2>4
       DEF Load, CopyOK, HoldsOK, LatestOK, VersionOK, Unsent, Sent, Sending
  <2> QED
    BY <1>4, <2>5, <2>6, HoldStep DEF LoadCompleting
<1>5. CASE Hold(c, LoadCompleting("resave", r, sr))
  <2> DEFINE w == Load(v, "resave", "Executed", r, sr, SignedDocument(v, sr))
  <2>1. w \in Work
    BY <1>1, <1>2, <1>3, LoadType DEF IInv
  <2>2. CopyOK(c, w) /\ w.op = "resave"
    BY DEF Load, CopyOK, HoldsOK, LatestOK, VersionOK, Unsent, Sent, Sending
  <2> QED
    BY <1>5, <2>1, <2>2, HoldStep DEF LoadCompleting
<1> QED
  BY <1>4, <1>5 DEF Completing

\* A signature is noted in the copy of a request.
LEMMA SignedCopy ==
    ASSUME TypeOK, NEW r \in Request, request[r] # None, NEW more \in SUBSET Signer
    PROVE  LET sr == [request[r] EXCEPT !.signed = @ \union more] IN
           /\ sr \in RequestDoc /\ sr.status = request[r].status
           /\ sr.version = request[r].version /\ sr.envelope = request[r].envelope
<1>1. request[r] \in RequestDoc
  BY FiledType
<1> QED
  BY <1>1 DEF RequestDoc

LEMMA BeginWebhookStep ==
    ASSUME IInv, NEW c \in Client, NEW e \in Envelope, BeginWebhook(c, e)
    PROVE  IInv'
<1> DEFINE r == externalId[e]
           more == IF e = request[r].envelope THEN request[r].linked ELSE {}
           sr == [request[r] EXCEPT !.signed = @ \union more]
<1>1. r \in Request /\ request[r] # None /\ MayComplete(r) /\ Completing(c, r, sr)
  BY DEF BeginWebhook, Filed
<1>2. request[r].status \in {"Draft", "Pending"}
  BY <1>1, FiledType DEF MayComplete, IInv
<1>3. more \in SUBSET Signer
  BY <1>1, FiledType DEF IInv, RequestDoc
<1>4. /\ sr \in RequestDoc /\ sr.status = request[r].status
      /\ sr.version = request[r].version /\ sr.envelope = request[r].envelope
  BY <1>1, <1>3, SignedCopy DEF IInv
<1>5. work[c] = Idle /\ UNCHANGED <<database, external>>
  BY DEF BeginWebhook
<1> HIDE DEF r, sr
<1> QED
  BY <1>1, <1>2, <1>4, <1>5, CompletingStep

LEMMA BeginMarkStep ==
    ASSUME IInv, NEW c \in Client, NEW r \in Request, NEW s \in Signer, BeginMark(c, r, s)
    PROVE  IInv'
<1> DEFINE sr == [request[r] EXCEPT !.signed = @ \union {s}]
<1>1. r \in In("Pending") /\ request[r] # None /\ request[r].status = "Pending"
  BY DEF BeginMark, In, Filed
<1>2. {s} \in SUBSET Signer
  OBVIOUS
<1>3. /\ sr \in RequestDoc /\ sr.status = request[r].status
      /\ sr.version = request[r].version /\ sr.envelope = request[r].envelope
  BY <1>1, <1>2, SignedCopy DEF IInv
<1>4. work[c] = Idle /\ UNCHANGED <<database, external>>
  BY DEF BeginMark
<1>5. \/ Hold(c, Load(sr.version, "mark", status[sr.version], r, sr, None))
      \/ Completing(c, r, sr)
  BY DEF BeginMark
<1> HIDE DEF sr
<1>6. CASE Hold(c, Load(sr.version, "mark", status[sr.version], r, sr, None))
  <2> DEFINE w == Load(sr.version, "mark", status[sr.version], r, sr, None)
  <2>1. status[sr.version] \in Status
    BY <1>3 DEF IInv, TypeOK, RequestDoc
  <2>2. w \in Work /\ CopyOK(c, w) /\ w.op = "mark"
    BY <1>1, <1>3, <2>1, LoadPending
  <2> QED
    BY <1>4, <1>6, <2>2, HoldStep
<1> QED
  BY <1>1, <1>3, <1>4, <1>5, <1>6, CompletingStep

-----------------------------------------------------------------------------
(* Envelopes *)

\* A step that only talks to Documenso: the copy of c goes on to w.
LEMMA EnvelopeStep ==
    ASSUME IInv, NEW c \in Client, work[c] # Idle, NEW w \in Work, Hold(c, w),
           UNCHANGED database, External, EnvelopesAreFiled',
           documenso' \in [Envelope -> {"unused", "draft", "live", "completed"}],
           externalId' \in [Envelope -> Request \union {None}],
           w.op \in Sending, w.op # "send", w.req = work[c].req, CopyOK(c, work[c])', w.op # "create",
           \A d \in Client \ {c} : Busy(d, "created") =>
                /\ documenso'[work[d].sr.envelope] = "draft"
                /\ w.op = "created" => work[d].sr.envelope # w.sr.envelope
    PROVE  IInv'
<1>1. /\ work' \in [Client -> Work \union {Idle}]
      /\ work'[c] = w
      /\ \A d \in Client \ {c} : work'[d] = work[d]
  BY DEF Hold, IInv, TypeOK
<1>2. UNCHANGED <<status, current, outdated, request, lapsed, executed, bypassed, undecided>>
  BY DEF database
<1>3. TypeOK'
  BY <1>1, <1>2 DEF IInv, TypeOK
<1>4. RequestInv' /\ \A s : In(s)' = In(s)
  BY <1>2, KeepRequests
<1>5. ASSUME NEW d \in Client, work'[d] # Idle
      PROVE  CopyOK(d, work[d])'
  <2>1. CASE d # c
    <3>1. work'[d] = work[d] /\ CopyOK(d, work[d])
      BY <1>1, <1>5, <2>1 DEF IInv, WorkInv
    <3>2. work[d].op = "created" => documenso'[work[d].sr.envelope] = "draft"
      BY <1>1, <1>5, <2>1 DEF Busy
    <3> QED
      BY <1>2, <1>4, <3>1, <3>2, KeepCopy
  <2> QED
    BY <2>1
<1>6. ASSUME NEW d \in Client, NEW e \in Client
      PROVE  Alone(d, e)'
  <2>1. Alone(d, e)
    BY DEF IInv, WorkInv
  <2> QED
    BY <1>1, <2>1 DEF Alone, Busy
<1> QED
  BY <1>3, <1>4, <1>5, <1>6 DEF IInv, WorkInv

LEMMA CreateEnvelopeStep ==
    ASSUME IInv, NEW c \in Client, CreateEnvelope(c)
    PROVE  IInv'
<1>1. PICK e \in Envelope :
        /\ documenso[e] = "unused"
        /\ documenso' = [documenso EXCEPT ![e] = "draft"]
        /\ externalId' = [externalId EXCEPT ![e] = work[c].req]
        /\ Hold(c, [work[c] EXCEPT !.op = "created", !.sr.envelope = e])
  BY DEF CreateEnvelope, CreateDocument
<1> DEFINE w == [work[c] EXCEPT !.op = "created", !.sr.envelope = e]
<1>2. /\ work[c] # Idle /\ work[c].op = "send" /\ work[c] \in Work
      /\ CopyOK(c, work[c])
  BY WorkType DEF CreateEnvelope, Busy, IInv, WorkInv
<1>3. HoldsOK(work[c]) /\ LatestOK(c, work[c]) /\ VersionOK(c, work[c])
  BY <1>2 DEF CopyOK
<1>4. /\ work[c].req \in Request /\ work[c].sr \in RequestDoc /\ work[c].sr.status = "Draft"
      /\ work[c].sr.version = work[c].doc /\ work[c].status = "Signature Requested"
      /\ request[work[c].req] # None
  BY <1>2, <1>3 DEF HoldsOK, LatestOK, Unsent, Sending
<1>5. [work[c].sr EXCEPT !.envelope = e] \in RequestDoc
  BY <1>4 DEF RequestDoc
<1>6. /\ w.op = "created" /\ w.doc = work[c].doc /\ w.status = work[c].status
      /\ w.req = work[c].req /\ w.sr = [work[c].sr EXCEPT !.envelope = e]
      /\ w.sr.envelope = e /\ w.sr.status = "Draft" /\ w.sr.version = w.doc
  BY <1>2, <1>4 DEF Work, RequestDoc
<1>7. w \in Work
  BY <1>2, <1>5 DEF Work
<1>8. /\ documenso' \in [Envelope -> {"unused", "draft", "live", "completed"}]
      /\ externalId' \in [Envelope -> Request \union {None}]
      /\ documenso'[e] = "draft" /\ externalId'[e] = work[c].req
      /\ \A f \in Envelope \ {e} : documenso'[f] = documenso[f] /\ externalId'[f] = externalId[f]
  BY <1>1, <1>4 DEF IInv, TypeOK
<1>9. External
  BY <1>1, <1>8 DEF External
<1>10. UNCHANGED database
  BY DEF CreateEnvelope
<1>11. Filed' = Filed /\ In("Pending")' = In("Pending")
  BY <1>10 DEF database, Filed, In
<1>12. EnvelopesAreFiled'
  BY <1>4, <1>8, <1>11 DEF EnvelopesAreFiled, Filed, IInv, RequestInv
<1>13. \A d \in Client \ {c} : Busy(d, "created") =>
          work[d].sr.envelope \in Envelope /\ documenso[work[d].sr.envelope] = "draft"
  BY DEF Busy, IInv, WorkInv, CopyOK, HoldsOK
<1>14. work'[c] = w
  BY <1>1 DEF Hold, IInv, TypeOK
<1> HIDE DEF w
<1>15. CopyOK(c, work[c])'
  <2>1. HoldsOK(work[c])'
    BY <1>4, <1>5, <1>6, <1>8, <1>14 DEF HoldsOK, Unsent, Sending, Sent
  <2>2. LatestOK(c, work[c])'
    <3>1. request' = request /\ lapsed' = lapsed
      BY <1>10 DEF database
    <3>2. /\ work'[c].op # "create" /\ work'[c].req = work[c].req
          /\ work'[c].sr.status = work[c].sr.status /\ work'[c].sr.version = work[c].sr.version
      BY <1>4, <1>6, <1>14
    <3> QED
      BY <1>2, <1>3, <3>1, <3>2 DEF LatestOK
  <2>3. VersionOK(c, work[c])'
    BY <1>2, <1>3, <1>6, <1>10, <1>11, <1>14 DEF VersionOK, database, Sending
  <2> QED
    BY <2>1, <2>2, <2>3 DEF CopyOK
<1>16. Hold(c, w)
  BY <1>1 DEF w
<1>17. \A d \in Client \ {c} : Busy(d, "created") =>
          documenso'[work[d].sr.envelope] = "draft" /\ work[d].sr.envelope # w.sr.envelope
  BY <1>1, <1>6, <1>8, <1>13
<1> QED
  BY <1>2, <1>6, <1>7, <1>8, <1>9, <1>10, <1>12, <1>15, <1>16, <1>17,
     EnvelopeStep DEF Sending

LEMMA DistributeStep ==
    ASSUME IInv, NEW c \in Client, Distribute(c)
    PROVE  IInv'
<1>1. PICK matched \in SUBSET work[c].sr.recipients :
        Hold(c, [work[c] EXCEPT !.op = "distributed", !.sr.linked = matched])
  BY DEF Distribute
<1> DEFINE w == [work[c] EXCEPT !.op = "distributed", !.sr.linked = matched]
<1>2. /\ work[c] # Idle /\ work[c].op = "created" /\ work[c] \in Work
      /\ HoldsOK(work[c]) /\ LatestOK(c, work[c]) /\ VersionOK(c, work[c])
  BY WorkType DEF Distribute, Busy, IInv, WorkInv, CopyOK
<1>3. PICK e \in Envelope : e = work[c].sr.envelope
  BY <1>2 DEF HoldsOK
<1>4. /\ work[c].req \in Request /\ work[c].sr \in RequestDoc /\ work[c].sr.status = "Draft"
      /\ work[c].sr.version = work[c].doc /\ work[c].status = "Signature Requested"
      /\ documenso[e] = "draft" /\ externalId[e] = work[c].req /\ request[work[c].req] # None
  BY <1>2, <1>3 DEF HoldsOK, LatestOK, Sending
<1>5. [work[c].sr EXCEPT !.linked = matched] \in RequestDoc
  BY <1>4 DEF RequestDoc
<1>6. /\ w.op = "distributed" /\ w.doc = work[c].doc /\ w.status = work[c].status
      /\ w.req = work[c].req /\ w.sr \in RequestDoc
      /\ w.sr.envelope = e /\ w.sr.status = "Draft" /\ w.sr.version = w.doc
  BY <1>2, <1>3, <1>4, <1>5 DEF Work, RequestDoc
<1>7. w \in Work
  BY <1>2, <1>5 DEF Work
<1>8. /\ documenso' \in [Envelope -> {"unused", "draft", "live", "completed"}]
      /\ documenso'[e] = "live" /\ \A f \in Envelope \ {e} : documenso'[f] = documenso[f]
  BY <1>3 DEF Distribute, DistributeDocument, IInv, TypeOK
<1>9. UNCHANGED database /\ externalId' = externalId
  BY DEF Distribute
<1>10. External
  BY <1>4, <1>8, <1>9 DEF External
<1>11. In("Pending")' = In("Pending") /\ EnvelopesAreFiled'
  BY <1>4, <1>8, <1>9 DEF database, Filed, In, EnvelopesAreFiled, IInv, RequestInv
<1>12. \A d \in Client \ {c} : Busy(d, "created") =>
          /\ work[d].sr.envelope \in Envelope /\ documenso[work[d].sr.envelope] = "draft"
          /\ work[d].sr.envelope # e
  BY <1>2, <1>3 DEF Busy, Alone, IInv, WorkInv, CopyOK, HoldsOK
<1>13. work'[c] = w
  BY <1>1 DEF Hold, IInv, TypeOK
<1>14. externalId' \in [Envelope -> Request \union {None}]
  BY <1>9 DEF IInv, TypeOK
<1>15. Hold(c, w)
  BY <1>1
<1> HIDE DEF w
<1>16. CopyOK(c, work[c])'
  <2>1. SentOut(work[c].sr, work[c].req)'
    BY <1>4, <1>6, <1>8, <1>9, <1>13 DEF SentOut
  <2>2. HoldsOK(work[c])'
    BY <1>4, <1>6, <1>13, <2>1 DEF HoldsOK, Unsent, Sending, Sent
  <2>3. LatestOK(c, work[c])'
    <3>1. request' = request /\ lapsed' = lapsed
      BY <1>9 DEF database
    <3>2. /\ work'[c].op # "create" /\ work'[c].req = work[c].req
          /\ work'[c].sr.status = work[c].sr.status /\ work'[c].sr.version = work[c].sr.version
      BY <1>4, <1>6, <1>13
    <3> QED
      BY <1>2, <3>1, <3>2 DEF LatestOK
  <2>4. VersionOK(c, work[c])'
    BY <1>2, <1>6, <1>9, <1>11, <1>13 DEF VersionOK, database, Sending
  <2> QED
    BY <2>2, <2>3, <2>4 DEF CopyOK
<1> QED
  BY <1>2, <1>6, <1>7, <1>8, <1>9, <1>10, <1>11, <1>12, <1>14, <1>15, <1>16, EnvelopeStep DEF Sending

\* A refused send leaves an envelope of its own behind, and nothing else.
LEMMA RefuseSendStep ==
    ASSUME IInv, NEW c \in Client, RefuseSend(c)
    PROVE  IInv'
<1>1. PICK e \in Envelope :
        /\ documenso[e] = "unused"
        /\ documenso' = [documenso EXCEPT ![e] = "draft"]
        /\ externalId' = [externalId EXCEPT ![e] = work[c].req]
  BY DEF RefuseSend, CreateDocument
<1>2. /\ work[c] # Idle /\ work[c].op = "refused" /\ Release(c)
      /\ outdated' = outdated \ {c} /\ lapsed' = lapsed \ {c}
      /\ UNCHANGED <<status, current, request, executed, bypassed, undecided>>
  BY DEF RefuseSend, Busy, Rollback
<1>3. work[c].req \in Request /\ request[work[c].req] # None
  BY <1>2 DEF IInv, WorkInv, CopyOK, HoldsOK, LatestOK
<1>4. /\ documenso' \in [Envelope -> {"unused", "draft", "live", "completed"}]
      /\ externalId' \in [Envelope -> Request \union {None}]
      /\ documenso'[e] = "draft" /\ externalId'[e] = work[c].req
      /\ \A f \in Envelope \ {e} : documenso'[f] = documenso[f] /\ externalId'[f] = externalId[f]
  BY <1>1, <1>3 DEF IInv, TypeOK
<1>5. External
  BY <1>1, <1>4 DEF External
<1>6. Filed' = Filed
  BY <1>2 DEF Filed
<1>7. EnvelopesAreFiled'
  BY <1>3, <1>4, <1>6 DEF EnvelopesAreFiled, Filed, IInv, RequestInv
<1>8. RequestInv' /\ \A s : In(s)' = In(s)
  BY <1>2, <1>5, <1>7, KeepRequests
<1>9. /\ work' \in [Client -> Work \union {Idle}]
      /\ \A d \in Client : work'[d] # Idle => d # c /\ work'[d] = work[d]
  BY <1>2 DEF Release, IInv, TypeOK
<1>10. TypeOK'
  BY <1>2, <1>4, <1>9 DEF IInv, TypeOK
<1>11. ASSUME NEW d \in Client, work'[d] # Idle
       PROVE  CopyOK(d, work[d])'
  <2>1. d # c /\ work'[d] = work[d] /\ work[d] # Idle /\ CopyOK(d, work[d])
    BY <1>9, <1>11 DEF IInv, WorkInv
  <2>2. work[d].op = "created" =>
          work[d].sr.envelope \in Envelope /\ documenso[work[d].sr.envelope] = "draft"
    BY <2>1 DEF CopyOK, HoldsOK
  <2>3. work[d].op = "created" => documenso'[work[d].sr.envelope] = "draft"
    BY <1>4, <2>2
  <2>4. /\ d \notin lapsed' => d \notin lapsed
        /\ d \notin outdated' => d \notin outdated
    BY <1>2, <2>1
  <2>5. In("Pending")' = In("Pending")
    BY <1>8
  <2> QED
    BY <1>2, <1>5, <2>1, <2>3, <2>4, <2>5, KeepCopy
<1>12. \A d, f \in Client : Alone(d, f)'
  BY <1>9 DEF Alone, Busy, IInv, WorkInv
<1> QED
  BY <1>8, <1>10, <1>11, <1>12 DEF IInv, WorkInv

LEMMA SignStep ==
    ASSUME IInv, NEW e \in Envelope, Sign(e)
    PROVE  IInv'
<1>1. /\ documenso[e] = "live" /\ documenso' = [documenso EXCEPT ![e] = "completed"]
      /\ UNCHANGED <<status, current, outdated, request, lapsed, executed, bypassed, undecided,
                     work, externalId>>
  BY DEF Sign, database
<1>2. /\ documenso' \in [Envelope -> {"unused", "draft", "live", "completed"}]
      /\ documenso'[e] = "completed" /\ \A f \in Envelope \ {e} : documenso'[f] = documenso[f]
  BY <1>1 DEF IInv, TypeOK
<1>3. External
  BY <1>1, <1>2 DEF External
<1>4. EnvelopesAreFiled'
  BY <1>1, <1>2 DEF EnvelopesAreFiled, Filed, IInv, RequestInv
<1>5. TypeOK'
  BY <1>1, <1>2 DEF IInv, TypeOK
<1>6. RequestInv' /\ \A s : In(s)' = In(s)
  BY <1>1, <1>3, <1>4, KeepRequests
<1>7. ASSUME NEW d \in Client, work'[d] # Idle
      PROVE  CopyOK(d, work[d])'
  <2>1. CopyOK(d, work[d]) /\ work'[d] = work[d]
    BY <1>1, <1>7 DEF IInv, WorkInv
  <2>2. work[d].op = "created" => documenso'[work[d].sr.envelope] = "draft"
    BY <1>1, <1>2, <2>1 DEF CopyOK, HoldsOK
  <2> QED
    BY <1>1, <1>3, <1>6, <2>1, <2>2, KeepCopy
<1>8. \A c, d \in Client : Alone(c, d)'
  BY <1>1 DEF Alone, Busy, IInv, WorkInv
<1> QED
  BY <1>5, <1>6, <1>7, <1>8 DEF IInv, WorkInv

-----------------------------------------------------------------------------
(* Saving a request *)

\* The saved row replaces the one the copy was loaded from, and only that one.
LEMMA RowStep ==
    ASSUME IInv, NEW c \in Client, NEW r \in Request, r = work[c].req,
           NEW sr \in RequestDoc, SaveRequest(c, sr)
    PROVE  /\ request' \in [Request -> RequestDoc \union {None}]
           /\ request'[r] = sr /\ sr # None
           /\ \A q \in Request \ {r} : request'[q] = request[q]
           /\ \A s \in {"Draft", "Pending", "Completed"} :
                   /\ sr.status = s => In(s)' = In(s) \union {r}
                   /\ sr.status # s => In(s)' = In(s) \ {r}
<1>1. request' = [request EXCEPT ![r] = sr]
  BY DEF SaveRequest
<1>2. sr # None
  BY NoRequestAssumption
<1>3. /\ request' \in [Request -> RequestDoc \union {None}] /\ request'[r] = sr
      /\ \A q \in Request \ {r} : request'[q] = request[q]
  BY <1>1 DEF IInv, TypeOK
<1>4. ASSUME NEW s \in {"Draft", "Pending", "Completed"}
      PROVE  /\ sr.status = s => In(s)' = In(s) \union {r}
             /\ sr.status # s => In(s)' = In(s) \ {r}
  BY <1>2, <1>3 DEF In, Filed
<1> QED
  BY <1>2, <1>3, <1>4

\* What saving a request means for the copies the others hold.
LEMMA RequestStep ==
    ASSUME IInv, NEW c \in Client, work[c] # Idle, work[c].op \notin {"action", "approve"},
           NEW r \in Request, r = work[c].req, NEW sr \in RequestDoc, SaveRequest(c, sr),
           Release(c)
    PROVE  /\ lapsed' \subseteq Client /\ work' \in [Client -> Work \union {Idle}]
           /\ Filed \subseteq Filed'
           /\ work[c].op = "create" => request[r] = None
           /\ work[c].op # "create" =>
                /\ request[r] # None /\ request[r].status = work[c].sr.status
                /\ request[r].version = work[c].doc
           /\ \A d \in Client : work'[d] # Idle =>
                /\ d # c /\ work'[d] = work[d]
                /\ work[d].op = "create" => request'[work[d].req] = request[work[d].req]
                /\ work[d].op \notin {"action", "approve"} /\ request[work[d].req] # None =>
                     request'[work[d].req] # None
                /\ work[d].op \notin {"action", "approve"} /\ d \notin lapsed' =>
                     d \notin lapsed /\ request'[work[d].req] = request[work[d].req]
           /\ \A d, e \in Client : Alone(d, e)'
<1>1. /\ c \notin lapsed
      /\ lapsed' = (lapsed \union RequestHolders(r)) \ {c}
  BY DEF SaveRequest, RequestLatest
<1>2. HoldsOK(work[c]) /\ LatestOK(c, work[c])
  BY DEF IInv, WorkInv, CopyOK
<1>3. sr # None /\ request'[r] = sr /\ \A q \in Request \ {r} : request'[q] = request[q]
  BY RowStep
<1>4. lapsed' \subseteq Client
  BY <1>1 DEF IInv, TypeOK, RequestHolders
<1>5. Filed \subseteq Filed'
  BY <1>3 DEF Filed
<1>6. /\ work[c].op = "create" => request[r] = None
      /\ work[c].op # "create" =>
           /\ request[r] # None /\ request[r].status = work[c].sr.status
           /\ request[r].version = work[c].doc
  BY <1>1, <1>2 DEF LatestOK, HoldsOK
<1>7. /\ work' \in [Client -> Work \union {Idle}]
      /\ \A d \in Client : work'[d] # Idle => d # c /\ work'[d] = work[d]
  BY DEF Release, IInv, TypeOK
<1>8. ASSUME NEW d \in Client, work'[d] # Idle
      PROVE  /\ work[d].op = "create" => request'[work[d].req] = request[work[d].req]
             /\ work[d].op \notin {"action", "approve"} /\ request[work[d].req] # None =>
                  request'[work[d].req] # None
             /\ work[d].op \notin {"action", "approve"} /\ d \notin lapsed' =>
                  d \notin lapsed /\ request'[work[d].req] = request[work[d].req]
  <2>1. d # c /\ work[d] # Idle
    BY <1>7, <1>8
  <2>2. work[d].op \notin {"action", "approve"} =>
          work[d].req \in Request /\ HoldsOK(work[d]) /\ LatestOK(d, work[d])
    BY <2>1 DEF IInv, WorkInv, CopyOK, HoldsOK
  <2>3. work[d].op = "create" => work[d].req # r
    <3>1. CASE work[c].op = "create"
      BY <2>1, <3>1 DEF IInv, WorkInv, Alone, Busy
    <3>2. CASE work[c].op # "create"
      BY <1>6, <2>2, <3>2 DEF LatestOK
    <3> QED
      BY <3>1, <3>2
  <2>4. d \notin lapsed' => d \notin lapsed /\ work[d].req # r
    BY <1>1, <2>1 DEF RequestHolders
  <2> QED
    BY <1>3, <2>2, <2>3, <2>4
<1>9. \A d, e \in Client : Alone(d, e)'
  BY <1>7 DEF Alone, Busy, IInv, WorkInv
<1> QED
  BY <1>4, <1>5, <1>6, <1>7, <1>8, <1>9

\* What is left of the invariant once the requests themselves are right.
LEMMA SaveStep ==
    ASSUME IInv, NEW c \in Client, work[c] # Idle, work[c].op \notin {"action", "approve"},
           NEW r \in Request, r = work[c].req, NEW sr \in RequestDoc, sr.version = work[c].doc,
           SaveRequest(c, sr), Release(c), UNCHANGED <<bypassed, undecided, documenso, externalId>>,
           status' \in [Version -> Status], current' \subseteq Version, outdated' \subseteq Client,
           executed' \in [Version -> Envelope \union {None}],
           \A d \in Client \ {c} : work[d] # Idle /\ d \notin outdated' =>
                /\ d \notin outdated
                /\ sr.status = "Pending" => r \in In("Pending") \/ work[d].doc # work[c].doc
    PROVE  TypeOK' /\ WorkInv' /\ EnvelopesAreFiled'
<1>0. /\ request' \in [Request -> RequestDoc \union {None}]
      /\ request'[r] = sr
      /\ \A q \in Request \ {r} : request'[q] = request[q]
      /\ \A s \in {"Draft", "Pending", "Completed"} :
              /\ sr.status = s => In(s)' = In(s) \union {r}
              /\ sr.status # s => In(s)' = In(s) \ {r}
  BY RowStep
<1>1. /\ lapsed' \subseteq Client /\ work' \in [Client -> Work \union {Idle}]
      /\ Filed \subseteq Filed'
      /\ work[c].op = "create" => request[r] = None
      /\ work[c].op # "create" => request[r] # None /\ request[r].version = work[c].doc
      /\ \A d, e \in Client : Alone(d, e)'
  BY RequestStep
<1>2. \A d \in Client : work'[d] # Idle =>
         /\ d # c /\ work'[d] = work[d]
         /\ work[d].op = "create" => request'[work[d].req] = request[work[d].req]
         /\ work[d].op \notin {"action", "approve"} /\ request[work[d].req] # None =>
              request'[work[d].req] # None
         /\ work[d].op \notin {"action", "approve"} /\ d \notin lapsed' =>
              d \notin lapsed /\ request'[work[d].req] = request[work[d].req]
  BY RequestStep
<1>3. TypeOK'
  BY <1>0, <1>1 DEF IInv, TypeOK
<1>4. External /\ EnvelopesAreFiled'
  BY <1>1, KeepEnvelopes
<1>5. ASSUME NEW d \in Client, work'[d] # Idle
      PROVE  CopyOK(d, work[d])'
  <2>1. d # c /\ work'[d] = work[d] /\ work[d] # Idle /\ CopyOK(d, work[d])
    BY <1>2, <1>5 DEF IInv, WorkInv
  <2>2. work[d].op = "created" => documenso'[work[d].sr.envelope] = "draft"
    BY <2>1 DEF CopyOK, HoldsOK
  <2>3. ASSUME d \notin outdated', NEW q \in In("Pending")', request'[q].version = work[d].doc
        PROVE  q \in In("Pending") /\ request[q].version = work[d].doc
    <3>1. q \in Request
      BY DEF In, Filed
    <3>2. CASE q = r
      <4>1. sr.status = "Pending" /\ work[d].doc = work[c].doc
        BY <1>0, <1>1, <2>3, <3>1, <3>2
      <4>2. r \in In("Pending")
        BY <2>1, <2>3, <4>1
      <4> QED
        BY <1>0, <1>1, <3>2, <4>1, <4>2 DEF In, Filed
    <3> QED
      BY <1>0, <1>1, <2>3, <3>1, <3>2
  <2>4. d \notin outdated' => d \notin outdated
    BY <2>1
  <2> QED
    BY <1>2, <1>4, <1>5, <2>1, <2>2, <2>3, <2>4, KeepCopy
<1> QED
  BY <1>1, <1>3, <1>4, <1>5 DEF WorkInv

\* A step that saves a request and nothing else, and neither sends nor completes it.
LEMMA SaveOnly ==
    ASSUME IInv, NEW c \in Client, work[c] # Idle,
           work[c].op \in {"create", "save", "mark", "drop"},
           NEW r \in Request, r = work[c].req, NEW sr \in RequestDoc, sr.version = work[c].doc,
           sr.envelope = work[c].sr.envelope, sr.status # "Completed",
           work[c].op = "mark" => sr.status = "Pending",
           work[c].op # "mark" => sr.status \in {"Draft", "Cancelled"},
           SaveRequest(c, sr), Rollback(c),
           UNCHANGED <<status, current, executed, bypassed, undecided, external>>
    PROVE  IInv'
<1>1. HoldsOK(work[c])
  BY DEF IInv, WorkInv, CopyOK
<1>2. /\ Release(c) /\ outdated' = outdated \ {c}
      /\ UNCHANGED <<status, executed, bypassed, undecided, documenso, externalId>>
  BY DEF Rollback, external
<1>3. /\ request'[r] = sr
      /\ \A q \in Request \ {r} : request'[q] = request[q]
      /\ \A s \in {"Draft", "Pending", "Completed"} :
              /\ sr.status = s => In(s)' = In(s) \union {r}
              /\ sr.status # s => In(s)' = In(s) \ {r}
      /\ work[c].op = "create" => request[r] = None
      /\ work[c].op # "create" =>
           /\ request[r] # None /\ request[r].status = work[c].sr.status
           /\ request[r].version = work[c].doc
  BY <1>2, RowStep, RequestStep
<1>4. /\ work[c].op = "mark" => work[c].sr.status = "Pending" /\ SentOut(work[c].sr, r)
      /\ work[c].op # "mark" => work[c].sr.status = "Draft" /\ work[c].sr.envelope = None
  BY <1>1 DEF HoldsOK, Unsent, Sent
<1>5. In("Pending")' = In("Pending") /\ In("Completed")' = In("Completed")
  <2>1. r \in In("Pending") <=> sr.status = "Pending"
    BY <1>3, <1>4 DEF In, Filed
  <2>2. r \notin In("Completed")
    BY <1>3, <1>4 DEF In, Filed
  <2>3. /\ sr.status = "Pending" => In("Pending")' = In("Pending") \union {r}
        /\ sr.status # "Pending" => In("Pending")' = In("Pending") \ {r}
        /\ In("Completed")' = In("Completed") \ {r}
    BY <1>3
  <2> QED
    BY ONLY <2>1, <2>2, <2>3
<1>6. \A q \in In("Pending") \union In("Completed") :
         /\ q \in Request
         /\ request'[q].version = request[q].version
  BY <1>3, <1>5 DEF In, Filed
<1>7. TypeOK' /\ WorkInv' /\ EnvelopesAreFiled'
  <2>1. sr.status = "Pending" => r \in In("Pending")
    BY <1>3, <1>5
  <2>2. /\ status' \in [Version -> Status] /\ current' \subseteq Version /\ outdated' \subseteq Client
        /\ executed' \in [Version -> Envelope \union {None}]
    BY <1>2 DEF IInv, TypeOK
  <2> QED
    BY <1>2, <2>1, <2>2, SaveStep
<1>8. OnePendingPerVersion'
  BY <1>5, <1>6 DEF IInv, RequestInv, OnePendingPerVersion
<1>9. CompletionIsWhole'
  <2>1. \A q \in In("Completed") : q # r /\ request'[q] = request[q]
    BY <1>3, <1>5 DEF In, Filed
  <2> QED
    BY <1>2, <1>5, <2>1 DEF IInv, RequestInv, CompletionIsWhole
<1>10. PendingIsDistributed'
  <2>1. ASSUME NEW q \in In("Pending")
        PROVE  /\ request'[q].envelope # None
               /\ documenso'[request'[q].envelope] \in {"live", "completed"}
               /\ externalId'[request'[q].envelope] = q
    <3>1. CASE q = r
      <4>1. SentOut(work[c].sr, r) /\ request'[q].envelope = work[c].sr.envelope
        BY <1>3, <1>4, <1>5, <1>6, <3>1
      <4>2. documenso' = documenso /\ externalId' = externalId
        BY <1>2
      <4>3. work[c].sr.envelope # None
        BY <4>1, SigningAssumption DEF SentOut
      <4> QED
        BY <3>1, <4>1, <4>2, <4>3 DEF SentOut
    <3>2. CASE q # r
      BY <1>2, <1>3, <1>6, <3>2 DEF IInv, RequestInv, PendingIsDistributed
    <3> QED
      BY <3>1, <3>2
  <2> QED
    BY <1>5, <2>1 DEF PendingIsDistributed
<1>11. PendingMatchesVersion'
  <2>1. /\ In("Pending")' = In("Pending") /\ status' = status /\ bypassed' = bypassed
        /\ \A q \in In("Pending") : request'[q].version = request[q].version
    BY <1>2, <1>5, <1>6
  <2> SUFFICES ASSUME NEW v \in Version \ bypassed'
               PROVE  status'[v] = "Signature Requested" <=>
                          \E q \in In("Pending")' : request'[q].version = v
    BY DEF PendingMatchesVersion
  <2>2. v \in Version \ bypassed
    BY ONLY <2>1, v \in Version \ bypassed'
  <2>3. status[v] = "Signature Requested" <=> \E q \in In("Pending") : request[q].version = v
    BY <2>2 DEF IInv, RequestInv, PendingMatchesVersion
  <2> QED
    BY ONLY <2>1, <2>3
<1>12. DraftsAreUnsent'
  BY <1>3, <1>4 DEF IInv, RequestInv, DraftsAreUnsent, In, Filed
<1> QED
  BY <1>7, <1>8, <1>9, <1>10, <1>11, <1>12 DEF IInv, RequestInv

LEMMA SaveOnlySteps ==
    ASSUME IInv, NEW c \in Client,
           CommitCreate(c) \/ CommitForm(c) \/ CommitMark(c) \/ CommitDrop(c)
    PROVE  IInv'
<1>1. /\ work[c] # Idle /\ work[c].op \in {"create", "save", "mark", "drop"}
      /\ HoldsOK(work[c]) /\ Rollback(c)
      /\ UNCHANGED <<status, current, executed, bypassed, undecided, external>>
  BY DEF CommitCreate, CommitForm, CommitMark, CommitDrop, Busy, IInv, WorkInv, CopyOK
<1>2. PICK r \in Request : r = work[c].req
  BY <1>1 DEF HoldsOK
<1>3. /\ work[c].sr \in RequestDoc /\ work[c].sr.version = work[c].doc
      /\ work[c].op = "mark" => work[c].sr.status = "Pending"
      /\ work[c].op # "mark" => work[c].sr.status = "Draft"
  BY <1>1 DEF HoldsOK, Unsent
<1>4. CASE CommitCreate(c)
  BY <1>1, <1>2, <1>3, <1>4, SaveOnly DEF CommitCreate, Busy
<1>5. CASE CommitMark(c)
  BY <1>1, <1>2, <1>3, <1>5, SaveOnly DEF CommitMark, Busy
<1>6. CASE CommitForm(c)
  <2>1. PICK chosen \in SUBSET Signer : SaveRequest(c, [work[c].sr EXCEPT !.recipients = chosen])
    BY <1>6 DEF CommitForm
  <2> DEFINE sr == [work[c].sr EXCEPT !.recipients = chosen]
  <2>2. /\ sr \in RequestDoc /\ sr.version = work[c].sr.version
        /\ sr.envelope = work[c].sr.envelope /\ sr.status = work[c].sr.status
    BY <1>3 DEF RequestDoc
  <2>3. work[c].op = "save" /\ SaveRequest(c, sr)
    BY <1>6, <2>1 DEF CommitForm, Busy
  <2> HIDE DEF sr
  <2> QED
    BY <1>1, <1>2, <1>3, <2>2, <2>3, SaveOnly
<1>7. CASE CommitDrop(c)
  <2> DEFINE sr == [work[c].sr EXCEPT !.status = "Cancelled"]
  <2>1. /\ sr \in RequestDoc /\ sr.version = work[c].sr.version
        /\ sr.envelope = work[c].sr.envelope /\ sr.status = "Cancelled"
    BY <1>3 DEF RequestDoc
  <2>2. work[c].op = "drop" /\ SaveRequest(c, sr)
    BY <1>7 DEF CommitDrop, Busy
  <2> HIDE DEF sr
  <2> QED
    BY <1>1, <1>2, <1>3, <2>1, <2>2, SaveOnly
<1> QED
  BY <1>4, <1>5, <1>6, <1>7

-----------------------------------------------------------------------------
(* Saving a request and its version *)

LEMMA VersionStep ==
    ASSUME IInv, NEW c \in Client, work[c] # Idle, SaveVersion(c, work[c].status)
    PROVE  /\ work[c].doc \in Version /\ work[c].status \in Status
           /\ status' \in [Version -> Status]
           /\ status'[work[c].doc] = work[c].status
           /\ \A v \in Version \ {work[c].doc} : status'[v] = status[v]
           /\ current' \subseteq Version /\ outdated' \subseteq Client
           /\ TableAllows(status[work[c].doc], work[c].status)
           /\ Release(c) /\ c \notin outdated
           /\ \A d \in Client \ {c} : work[d] # Idle /\ d \notin outdated' =>
                 d \notin outdated /\ work[d].doc # work[c].doc
<1>1. work[c].doc \in Version /\ work[c].status \in Status
  BY WorkType DEF IInv
<1>2. /\ status' = [status EXCEPT ![work[c].doc] = work[c].status]
      /\ outdated' = (outdated \union Holders(work[c].doc)) \ {c}
      /\ SetCurrent(c) /\ Release(c)
      /\ TableAllows(status[work[c].doc], work[c].status) /\ c \notin outdated
  BY DEF SaveVersion, MaySave, IsLatest, WriteVersion
<1>3. current' \subseteq Version
  BY <1>1, <1>2 DEF SetCurrent, IInv, TypeOK
<1>4. /\ status' \in [Version -> Status] /\ status'[work[c].doc] = work[c].status
      /\ \A v \in Version \ {work[c].doc} : status'[v] = status[v]
  BY <1>1, <1>2 DEF IInv, TypeOK
<1>5. /\ outdated' \subseteq Client
      /\ \A d \in Client \ {c} : work[d] # Idle /\ d \notin outdated' =>
            d \notin outdated /\ work[d].doc # work[c].doc
  BY <1>2 DEF IInv, TypeOK, Holders
<1> QED
  BY <1>1, <1>2, <1>3, <1>4, <1>5

LEMMA CommitSendStep ==
    ASSUME IInv, NEW c \in Client, CommitSend(c)
    PROVE  IInv'
<1>1. /\ work[c] # Idle /\ work[c].op = "distributed"
      /\ SaveVersion(c, work[c].status) /\ SaveRequest(c, MarkPending(work[c].sr))
      /\ executed' = executed /\ UNCHANGED <<bypassed, undecided, documenso, externalId>>
  BY DEF CommitSend, Busy, external
<1>2. HoldsOK(work[c]) /\ VersionOK(c, work[c]) /\ work[c].doc \in Version
  BY <1>1, WorkType DEF IInv, WorkInv, CopyOK
<1>3. PICK r \in Request, v \in Version : r = work[c].req /\ v = work[c].doc
  BY <1>2 DEF HoldsOK
<1>4. /\ work[c].sr \in RequestDoc /\ work[c].sr.version = v /\ work[c].sr.status = "Draft"
      /\ work[c].status = "Signature Requested" /\ SentOut(work[c].sr, r)
  BY <1>1, <1>2, <1>3 DEF HoldsOK, Sending, Sent
<1>5. PICK sr \in RequestDoc :
        /\ sr = MarkPending(work[c].sr) /\ sr.version = v /\ sr.status = "Pending"
        /\ sr.envelope = work[c].sr.envelope
  <2> DEFINE new == MarkPending(work[c].sr)
  <2>1. /\ new \in RequestDoc /\ new.version = work[c].sr.version
        /\ new.status = "Pending" /\ new.envelope = work[c].sr.envelope
    BY <1>4 DEF MarkPending, RequestDoc
  <2> QED
    BY <1>4, <2>1
<1>6. /\ v \in Version /\ status' \in [Version -> Status] /\ status'[v] = "Signature Requested"
      /\ \A x \in Version \ {v} : status'[x] = status[x]
      /\ current' \subseteq Version /\ outdated' \subseteq Client
      /\ TableAllows(status[v], "Signature Requested") /\ Release(c) /\ c \notin outdated
      /\ \A d \in Client \ {c} : work[d] # Idle /\ d \notin outdated' =>
            d \notin outdated /\ work[d].doc # v
  <2>1. /\ IInv /\ c \in Client /\ work[c] # Idle /\ SaveVersion(c, work[c].status)
        /\ work[c].doc = v /\ work[c].status = "Signature Requested"
    BY <1>1, <1>3, <1>4
  <2> QED
    BY ONLY <2>1, VersionStep
<1>7. /\ request'[r] = sr
      /\ \A q \in Request \ {r} : request'[q] = request[q]
      /\ \A s \in {"Draft", "Pending", "Completed"} :
              /\ sr.status = s => In(s)' = In(s) \union {r}
              /\ sr.status # s => In(s)' = In(s) \ {r}
      /\ request[r] # None /\ request[r].status = "Draft" /\ request[r].version = v
  <2>1. work[c].op \notin {"action", "approve"} /\ work[c].op # "create"
    BY <1>1
  <2>2. SaveRequest(c, sr) /\ Release(c) /\ work[c] # Idle /\ r = work[c].req
    BY <1>1, <1>3, <1>5, <1>6
  <2>3. /\ request'[r] = sr
        /\ \A q \in Request \ {r} : request'[q] = request[q]
        /\ \A s \in {"Draft", "Pending", "Completed"} :
                /\ sr.status = s => In(s)' = In(s) \union {r}
                /\ sr.status # s => In(s)' = In(s) \ {r}
    BY <2>2, RowStep
  <2>4. /\ request[r] # None /\ request[r].status = work[c].sr.status
        /\ request[r].version = work[c].doc
    BY <2>1, <2>2, RequestStep
  <2> QED
    BY <1>3, <1>4, <2>3, <2>4
<1>8. \A s : In(s) \subseteq Request /\ In(s)' \subseteq Request
  BY DEF In, Filed
<1>9. \A q \in In("Pending") : request[q].version # v
  BY <1>1, <1>2, <1>3, <1>6 DEF VersionOK, Sending
<1>10. /\ r \notin In("Pending") /\ r \in In("Pending")'
       /\ \A q \in Request \ {r} : q \in In("Pending")' <=> q \in In("Pending")
       /\ r \notin In("Completed") /\ In("Completed")' = In("Completed")
  <2>1. r \notin In("Pending") /\ r \notin In("Completed")
    BY <1>7 DEF In, Filed
  <2> QED
    BY <1>5, <1>7, <1>8, <2>1
<1>11. TypeOK' /\ WorkInv' /\ EnvelopesAreFiled'
  <2>1. executed' \in [Version -> Envelope \union {None}]
    BY <1>1 DEF IInv, TypeOK
  <2> QED
    BY <1>1, <1>3, <1>5, <1>6, <2>1, SaveStep
<1>12. OnePendingPerVersion'
  BY <1>5, <1>7, <1>8, <1>9, <1>10 DEF IInv, RequestInv, OnePendingPerVersion
<1>13. CompletionIsWhole'
  <2>1. status[v] # "Executed"
    BY <1>6, AllowedMoves DEF Status, IInv, TypeOK
  <2>2. \A q \in In("Completed") :
          /\ request'[q] = request[q] /\ request[q].version \in Version \ {v}
    BY <1>7, <1>8, <1>10, <2>1, FiledType DEF In, Filed, IInv, RequestInv, CompletionIsWhole
  <2>3. \A q \in In("Completed") :
          /\ status'[request'[q].version] = "Executed"
          /\ executed'[request'[q].version] = request'[q].envelope
    <3> SUFFICES ASSUME NEW q \in In("Completed")
                 PROVE  /\ status'[request'[q].version] = "Executed"
                        /\ executed'[request'[q].version] = request'[q].envelope
      OBVIOUS
    <3>1. /\ status[request[q].version] = "Executed"
          /\ executed[request[q].version] = request[q].envelope
      BY DEF IInv, RequestInv, CompletionIsWhole
    <3>2. /\ status'[request[q].version] = status[request[q].version]
      BY <1>6, <2>2
    <3> QED
      BY <1>1, <2>2, <3>1, <3>2
  <2>4. \A x \in Version : executed'[x] # None =>
          /\ documenso'[executed'[x]] = "completed"
          /\ \E q \in In("Completed") : request'[q].version = x
    BY <1>1, <2>2 DEF IInv, RequestInv, CompletionIsWhole
  <2> QED
    BY <1>10, <2>3, <2>4 DEF CompletionIsWhole
<1>14. PendingIsDistributed'
  <2>1. ASSUME NEW q \in In("Pending")'
        PROVE  /\ request'[q].envelope # None
               /\ documenso'[request'[q].envelope] \in {"live", "completed"}
               /\ externalId'[request'[q].envelope] = q
    <3>1. CASE q = r
      <4>1. request'[q].envelope = work[c].sr.envelope /\ work[c].sr.envelope # None
        BY <1>4, <1>5, <1>7, <3>1, SigningAssumption DEF SentOut
      <4> QED
        BY <1>1, <1>4, <3>1, <4>1 DEF SentOut
    <3>2. CASE q # r
      <4>1. q \in In("Pending") /\ request'[q] = request[q]
        BY <1>7, <1>8, <1>10, <3>2
      <4> QED
        BY <1>1, <4>1 DEF IInv, RequestInv, PendingIsDistributed
    <3> QED
      BY <3>1, <3>2
  <2> QED
    BY <2>1 DEF PendingIsDistributed
<1>15. PendingMatchesVersion'
  <2> SUFFICES ASSUME NEW x \in Version \ bypassed'
               PROVE  status'[x] = "Signature Requested" <=>
                          \E q \in In("Pending")' : request'[q].version = x
    BY DEF PendingMatchesVersion
  <2>1. CASE x = v
    BY <1>5, <1>6, <1>7, <1>10, <2>1
  <2>2. CASE x # v
    <3>1. x \in Version \ bypassed /\ status'[x] = status[x]
      BY <1>1, <1>6, <2>2
    <3>2. status[x] = "Signature Requested" <=> \E q \in In("Pending") : request[q].version = x
      BY <3>1 DEF IInv, RequestInv, PendingMatchesVersion
    <3>3. \A q \in Request : (q \in In("Pending")' /\ request'[q].version = x) <=>
                             (q \in In("Pending") /\ request[q].version = x)
      BY <1>5, <1>7, <1>10, <2>2
    <3> QED
      BY <1>8, <3>1, <3>2, <3>3
  <2> QED
    BY <2>1, <2>2
<1>16. DraftsAreUnsent'
  BY <1>5, <1>7, <1>8 DEF IInv, RequestInv, DraftsAreUnsent
<1> QED
  BY <1>11, <1>12, <1>13, <1>14, <1>15, <1>16 DEF IInv, RequestInv

\* A pending request is closed, and its version leaves Signature Requested.
LEMMA CloseStep ==
    ASSUME IInv, NEW c \in Client, work[c] # Idle, work[c].op \in {"cancel", "complete"},
           NEW r \in Request, r = work[c].req, NEW v \in Version, v = work[c].doc,
           NEW sr \in RequestDoc, sr.version = v, sr.status \in {"Completed", "Cancelled"},
           SaveRequest(c, sr), Release(c), UNCHANGED <<bypassed, undecided, documenso, externalId>>,
           status' \in [Version -> Status], status'[v] # "Signature Requested",
           \A x \in Version \ {v} : status'[x] = status[x],
           current' \subseteq Version, outdated' \subseteq Client,
           executed' \in [Version -> Envelope \union {None}],
           \A d \in Client \ {c} : work[d] # Idle /\ d \notin outdated' => d \notin outdated
    PROVE  /\ TypeOK' /\ WorkInv' /\ EnvelopesAreFiled'
           /\ OnePendingPerVersion' /\ PendingIsDistributed' /\ PendingMatchesVersion'
           /\ DraftsAreUnsent'
           /\ request'[r] = sr /\ \A q \in Request \ {r} : request'[q] = request[q]
           /\ r \notin In("Completed")
           /\ sr.status = "Completed" => In("Completed")' = In("Completed") \union {r}
           /\ sr.status # "Completed" => In("Completed")' = In("Completed")
<1>0. /\ IInv /\ c \in Client /\ r \in Request /\ r = work[c].req
      /\ sr \in RequestDoc /\ SaveRequest(c, sr)
  OBVIOUS
<1>1. HoldsOK(work[c]) /\ work[c].op # "create" /\ work[c].op \notin {"action", "approve"}
  BY DEF IInv, WorkInv, CopyOK
<1>2. work[c].sr.status = "Pending"
  BY <1>1 DEF HoldsOK
<1>3. /\ request'[r] = sr
      /\ \A q \in Request \ {r} : request'[q] = request[q]
      /\ \A s \in {"Draft", "Pending", "Completed"} :
           /\ sr.status = s => In(s)' = In(s) \union {r}
           /\ sr.status # s => In(s)' = In(s) \ {r}
  BY ONLY <1>0, RowStep
<1>4. /\ request[r] # None /\ request[r].status = work[c].sr.status
      /\ request[r].version = work[c].doc
  BY <1>1, RequestStep
<1>5. r \in In("Pending") /\ r \notin In("Completed") /\ \A s : In(s) \subseteq Request
  BY <1>2, <1>4 DEF In, Filed
<1>6. In("Pending")' = In("Pending") \ {r}
  BY <1>3
<1>7. /\ sr.status = "Completed" => In("Completed")' = In("Completed") \union {r}
      /\ sr.status # "Completed" => In("Completed")' = In("Completed")
  BY ONLY <1>3, <1>5
<1>8. \A q \in In("Pending") \ {r} : request'[q] = request[q] /\ request[q].version # v
  BY <1>3, <1>4, <1>5 DEF IInv, RequestInv, OnePendingPerVersion
<1>9. TypeOK' /\ WorkInv' /\ EnvelopesAreFiled'
  BY <1>1, <1>5, SaveStep
<1>10. OnePendingPerVersion'
  BY <1>6, <1>8 DEF IInv, RequestInv, OnePendingPerVersion
<1>11. PendingIsDistributed'
  <2>1. documenso' = documenso /\ externalId' = externalId
    OBVIOUS
  <2>2. PendingIsDistributed
    BY DEF IInv, RequestInv
  <2>3. \A q \in In("Pending")' : q \in In("Pending") /\ request'[q] = request[q]
    BY ONLY <1>6, <1>8
  <2> QED
    BY ONLY <2>1, <2>2, <2>3 DEF PendingIsDistributed
<1>12. PendingMatchesVersion'
  <2> SUFFICES ASSUME NEW x \in Version \ bypassed'
               PROVE  status'[x] = "Signature Requested" <=>
                          \E q \in In("Pending")' : request'[q].version = x
    BY DEF PendingMatchesVersion
  <2>1. CASE x = v
    BY <1>6, <1>8, <2>1
  <2>2. CASE x # v
    <3>1. x \in Version \ bypassed /\ status'[x] = status[x]
      BY <2>2
    <3>2. status[x] = "Signature Requested" <=> \E q \in In("Pending") : request[q].version = x
      BY <3>1 DEF IInv, RequestInv, PendingMatchesVersion
    <3>3. \A q : (q \in In("Pending")' /\ request'[q].version = x) <=>
                 (q \in In("Pending") /\ request[q].version = x)
      BY <1>4, <1>6, <1>8, <2>2
    <3> QED
      BY <3>1, <3>2, <3>3
  <2> QED
    BY <2>1, <2>2
<1>13. DraftsAreUnsent'
  <2>1. In("Draft")' = In("Draft") \ {r}
    BY <1>3
  <2> QED
    BY <1>3, <1>5, <2>1 DEF IInv, RequestInv, DraftsAreUnsent
<1> QED
  BY <1>3, <1>5, <1>7, <1>9, <1>10, <1>11, <1>12, <1>13

LEMMA CommitCancelStep ==
    ASSUME IInv, NEW c \in Client, CommitCancel(c)
    PROVE  IInv'
<1>1. /\ work[c] # Idle /\ work[c].op = "cancel" /\ SaveVersion(c, work[c].status)
      /\ SaveRequest(c, [work[c].sr EXCEPT !.status = "Cancelled"])
      /\ executed' = executed /\ UNCHANGED <<bypassed, undecided, documenso, externalId>>
  BY DEF CommitCancel, Busy, external
<1>2. HoldsOK(work[c]) /\ work[c].doc \in Version
  BY <1>1, WorkType DEF IInv, WorkInv, CopyOK
<1>3. PICK r \in Request, v \in Version : r = work[c].req /\ v = work[c].doc
  BY <1>2 DEF HoldsOK
<1>4. work[c].sr \in RequestDoc /\ work[c].sr.version = v /\ work[c].status = "Approved"
  BY <1>1, <1>2, <1>3 DEF HoldsOK
<1>5. PICK sr \in RequestDoc :
        /\ sr = [work[c].sr EXCEPT !.status = "Cancelled"]
        /\ sr.version = v /\ sr.status = "Cancelled"
  <2> DEFINE new == [work[c].sr EXCEPT !.status = "Cancelled"]
  <2>1. new \in RequestDoc /\ new.version = work[c].sr.version /\ new.status = "Cancelled"
    BY <1>4 DEF RequestDoc
  <2> QED
    BY <1>4, <2>1
<1>6. /\ status' \in [Version -> Status] /\ status'[v] = "Approved"
      /\ \A x \in Version \ {v} : status'[x] = status[x]
      /\ current' \subseteq Version /\ outdated' \subseteq Client
      /\ TableAllows(status[v], "Approved") /\ Release(c)
      /\ \A d \in Client \ {c} : work[d] # Idle /\ d \notin outdated' => d \notin outdated
  BY <1>1, <1>3, <1>4, VersionStep
<1>7. executed' \in [Version -> Envelope \union {None}]
  BY <1>1 DEF IInv, TypeOK
<1>8. SaveRequest(c, sr) /\ work[c].op \in {"cancel", "complete"}
  BY <1>1, <1>5
<1>9. /\ TypeOK' /\ WorkInv' /\ EnvelopesAreFiled'
      /\ OnePendingPerVersion' /\ PendingIsDistributed' /\ PendingMatchesVersion'
      /\ DraftsAreUnsent'
      /\ \A q \in Request \ {r} : request'[q] = request[q]
      /\ r \notin In("Completed") /\ In("Completed")' = In("Completed")
  BY <1>1, <1>3, <1>5, <1>6, <1>7, <1>8, CloseStep
<1>10. CompletionIsWhole'
  <2>1. status[v] # "Executed"
    BY <1>6, AllowedMoves DEF Status, IInv, TypeOK
  <2>2. \A q \in In("Completed") :
          /\ request'[q] = request[q] /\ request[q].version \in Version \ {v}
    BY <1>9, <2>1, FiledType DEF In, Filed, IInv, RequestInv, CompletionIsWhole
  <2> QED
    BY <1>1, <1>6, <1>9, <2>2 DEF IInv, RequestInv, CompletionIsWhole
<1> QED
  BY <1>9, <1>10 DEF IInv, RequestInv

LEMMA CommitCompleteStep ==
    ASSUME IInv, NEW c \in Client, CommitComplete(c)
    PROVE  IInv'
<1>1. /\ work[c] # Idle /\ work[c].op = "complete" /\ CompletesFrom(work[c].doc)
      /\ executed' = [executed EXCEPT ![work[c].doc] = work[c].file]
      /\ status' = [status EXCEPT ![work[c].doc] = work[c].status]
      /\ outdated' = (outdated \union Holders(work[c].doc)) \ {c}
      /\ SaveRequest(c, [work[c].sr EXCEPT !.status = "Completed"])
      /\ Release(c) /\ UNCHANGED <<current, bypassed, undecided, documenso, externalId>>
  BY DEF CommitComplete, Busy, external
<1>2. HoldsOK(work[c]) /\ work[c].doc \in Version
  BY <1>1, WorkType DEF IInv, WorkInv, CopyOK
<1>3. PICK r \in Request, v \in Version : r = work[c].req /\ v = work[c].doc
  BY <1>2 DEF HoldsOK
<1>4. PICK e \in Envelope : e = work[c].sr.envelope
  BY <1>1, <1>2 DEF HoldsOK, SentOut, Sent
<1>5. /\ work[c].sr \in RequestDoc /\ work[c].sr.version = v /\ work[c].status = "Executed"
      /\ work[c].file = e /\ documenso[e] = "completed"
  BY <1>1, <1>2, <1>3, <1>4 DEF HoldsOK
<1>6. PICK sr \in RequestDoc :
        /\ sr = [work[c].sr EXCEPT !.status = "Completed"]
        /\ sr.version = v /\ sr.status = "Completed" /\ sr.envelope = e
  <2> DEFINE new == [work[c].sr EXCEPT !.status = "Completed"]
  <2>1. /\ new \in RequestDoc /\ new.version = work[c].sr.version /\ new.status = "Completed"
        /\ new.envelope = work[c].sr.envelope
    BY <1>5 DEF RequestDoc
  <2> QED
    BY <1>4, <1>5, <2>1
<1>7. /\ status' \in [Version -> Status] /\ status'[v] = "Executed"
      /\ \A x \in Version \ {v} : status'[x] = status[x]
  BY <1>1, <1>3, <1>5 DEF IInv, TypeOK, Status
<1>8. /\ executed' \in [Version -> Envelope \union {None}] /\ executed'[v] = e
      /\ \A x \in Version \ {v} : executed'[x] = executed[x]
  BY <1>1, <1>3, <1>5 DEF IInv, TypeOK
<1>9. /\ current' \subseteq Version /\ outdated' \subseteq Client
      /\ \A d \in Client \ {c} : work[d] # Idle /\ d \notin outdated' => d \notin outdated
  BY <1>1 DEF IInv, TypeOK, Holders
<1>10. SaveRequest(c, sr) /\ work[c].op \in {"cancel", "complete"}
       /\ sr.status \in {"Completed", "Cancelled"} /\ status'[v] # "Signature Requested"
       /\ work[c] # Idle /\ Release(c) /\ UNCHANGED <<bypassed, undecided, documenso, externalId>>
       /\ IInv /\ c \in Client /\ r \in Request /\ r = work[c].req
       /\ v \in Version /\ v = work[c].doc /\ sr \in RequestDoc /\ sr.version = v
  BY <1>1, <1>3, <1>6, <1>7
<1>11. /\ TypeOK' /\ WorkInv' /\ EnvelopesAreFiled'
       /\ OnePendingPerVersion' /\ PendingIsDistributed' /\ PendingMatchesVersion'
       /\ DraftsAreUnsent'
  BY ONLY <1>7, <1>8, <1>9, <1>10, CloseStep
<1>12. /\ request'[r] = sr
       /\ \A q \in Request \ {r} : request'[q] = request[q]
       /\ \A s \in {"Draft", "Pending", "Completed"} :
            /\ sr.status = s => In(s)' = In(s) \union {r}
            /\ sr.status # s => In(s)' = In(s) \ {r}
  <2>1. /\ IInv /\ c \in Client /\ r \in Request /\ r = work[c].req
        /\ sr \in RequestDoc /\ SaveRequest(c, sr)
    BY ONLY <1>10
  <2> QED
    BY ONLY <2>1, RowStep
<1>13. r \notin In("Completed")
  BY ONLY <1>7, <1>8, <1>9, <1>10, CloseStep
<1>14. In("Completed")' = In("Completed") \union {r}
  <2>1. sr.status = "Completed"
    BY ONLY <1>6
  <2> QED
    BY ONLY <1>12, <2>1
<1>15. status[v] = "Signature Requested"
  BY <1>1, <1>3, TableEdges DEF CompletesFrom, Outcomes
<1>16. CompletionIsWhole'
  <2>1. In("Completed")' = In("Completed") \union {r}
    BY <1>14
  <2>2. \A q \in In("Completed") :
          /\ request'[q] = request[q] /\ request[q].version \in Version \ {v}
    BY <1>15, <1>12, <1>13, FiledType DEF In, Filed, IInv, RequestInv, CompletionIsWhole
  <2>3. \A q \in In("Completed")' :
          /\ status'[request'[q].version] = "Executed"
          /\ executed'[request'[q].version] = request'[q].envelope
    <3>1. \A q \in In("Completed") :
            /\ status[request[q].version] = "Executed"
            /\ executed[request[q].version] = request[q].envelope
      BY DEF IInv, RequestInv, CompletionIsWhole
    <3>2. \A q \in In("Completed") :
            /\ status'[request'[q].version] = "Executed"
            /\ executed'[request'[q].version] = request'[q].envelope
      BY <1>7, <1>8, <2>2, <3>1
    <3>3. /\ status'[request'[r].version] = "Executed"
          /\ executed'[request'[r].version] = request'[r].envelope
      BY <1>6, <1>7, <1>8, <1>12
    <3> QED
      BY <2>1, <3>2, <3>3
  <2>4. \A x \in Version : executed'[x] # None =>
          /\ documenso'[executed'[x]] = "completed"
          /\ \E q \in In("Completed")' : request'[q].version = x
    <3> SUFFICES ASSUME NEW x \in Version, executed'[x] # None
                 PROVE  /\ documenso'[executed'[x]] = "completed"
                        /\ \E q \in In("Completed")' : request'[q].version = x
      OBVIOUS
    <3>1. CASE x = v
      <4>1. documenso' = documenso /\ executed'[x] = e
        BY <1>8, <1>10, <3>1
      <4>2. r \in In("Completed")' /\ request'[r].version = x
        BY <1>6, <1>12, <2>1, <3>1
      <4> QED
        BY <1>5, <4>1, <4>2
    <3>2. CASE x # v
      <4>1. executed[x] = executed'[x] /\ executed[x] # None
        BY <1>8, <3>2
      <4>2. /\ documenso[executed[x]] = "completed"
            /\ \E q \in In("Completed") : request[q].version = x
        BY <4>1 DEF IInv, RequestInv, CompletionIsWhole
      <4> QED
        BY <1>1, <2>1, <2>2, <4>1, <4>2
    <3> QED
      BY <3>1, <3>2
  <2> QED
    BY <2>3, <2>4 DEF CompletionIsWhole
<1> QED
  BY <1>11, <1>16 DEF IInv, RequestInv

-----------------------------------------------------------------------------
(* Steps that leave the requests alone *)

\* A client ends, and its copy is gone.
LEMMA EndStep ==
    ASSUME IInv, NEW c \in Client, Release(c), UNCHANGED <<request, documenso, externalId>>,
           \A d \in Client \ {c} : d \notin lapsed' => d \notin lapsed,
           \A d \in Client \ {c} : work[d] # Idle /\ d \notin outdated' => d \notin outdated
    PROVE  /\ work' \in [Client -> Work \union {Idle}] /\ WorkInv' /\ EnvelopesAreFiled'
           /\ \A s : In(s)' = In(s)
<1>1. Filed' = Filed /\ \A s : In(s)' = In(s)
  BY DEF Filed, In
<1>2. /\ work' \in [Client -> Work \union {Idle}]
      /\ \A d \in Client : work'[d] # Idle => d # c /\ work'[d] = work[d]
  BY DEF Release, IInv, TypeOK
<1>3. External /\ EnvelopesAreFiled'
  BY <1>1, KeepEnvelopes
<1>4. ASSUME NEW d \in Client, work'[d] # Idle
      PROVE  CopyOK(d, work[d])'
  <2>1. d # c /\ work'[d] = work[d] /\ work[d] # Idle /\ CopyOK(d, work[d])
    BY <1>2, <1>4 DEF IInv, WorkInv
  <2>2. work[d].op = "created" => documenso'[work[d].sr.envelope] = "draft"
    BY <2>1 DEF CopyOK, HoldsOK
  <2>3. /\ d \notin lapsed' => d \notin lapsed
        /\ d \notin outdated' => d \notin outdated
    BY <2>1
  <2>4. In("Pending")' = In("Pending")
    BY <1>1
  <2> QED
    BY <1>3, <2>1, <2>2, <2>3, <2>4, KeepCopy
<1>5. \A d, e \in Client : Alone(d, e)'
  BY <1>2 DEF Alone, Busy, IInv, WorkInv
<1> QED
  BY <1>1, <1>2, <1>3, <1>4, <1>5 DEF WorkInv

LEMMA AbandonStep ==
    ASSUME IInv, NEW c \in Client, Abandon(c)
    PROVE  IInv'
<1>1. /\ Release(c) /\ outdated' = outdated \ {c} /\ lapsed' = lapsed \ {c}
      /\ UNCHANGED <<status, current, request, executed, bypassed, undecided, documenso, externalId>>
  BY DEF Abandon, Rollback, external
<1>2. work' \in [Client -> Work \union {Idle}] /\ WorkInv' /\ EnvelopesAreFiled'
  BY <1>1, EndStep
<1>3. TypeOK'
  BY <1>1, <1>2 DEF IInv, TypeOK
<1>4. External
  BY <1>1 DEF External
<1>5. RequestInv'
  BY <1>1, <1>2, <1>4, KeepRequests
<1> QED
  BY <1>2, <1>3, <1>5 DEF IInv

\* The desk or a late approver moves a version past SignatureService.
LEMMA BypassStep ==
    ASSUME IInv, NEW c \in Client, work[c] # Idle, SaveVersion(c, work[c].status),
           NoteBypass(work[c].doc), undecided' \subseteq Version,
           UNCHANGED <<request, lapsed, executed, documenso, externalId>>
    PROVE  IInv'
<1>1. /\ work[c] # Idle /\ SaveVersion(c, work[c].status) /\ NoteBypass(work[c].doc)
      /\ UNCHANGED <<request, lapsed, executed, documenso, externalId>>
  OBVIOUS
<1>2. PICK v \in Version : v = work[c].doc
  BY <1>1, WorkType DEF IInv
<1>3. /\ status' \in [Version -> Status]
      /\ \A x \in Version \ {v} : status'[x] = status[x]
      /\ status'[v] = work[c].status /\ TableAllows(status[v], work[c].status)
      /\ current' \subseteq Version /\ outdated' \subseteq Client /\ Release(c)
      /\ \A d \in Client \ {c} : work[d] # Idle /\ d \notin outdated' => d \notin outdated
  BY <1>1, <1>2, VersionStep
<1>4. /\ work' \in [Client -> Work \union {Idle}] /\ WorkInv' /\ EnvelopesAreFiled'
      /\ \A s : In(s)' = In(s)
  BY <1>1, <1>3, EndStep
<1>5. /\ bypassed \subseteq bypassed' /\ bypassed' \subseteq Version
      /\ v \notin bypassed' => \/ status'[v] = status[v]
                             \/ "Signature Requested" \notin {status[v], status'[v]}
  BY <1>1, <1>2 DEF NoteBypass, IInv, TypeOK
<1>6. TypeOK'
  BY <1>1, <1>3, <1>4, <1>5 DEF IInv, TypeOK
<1>7. status[v] = "Executed" => status'[v] = "Executed"
  BY <1>3, AllowedMoves DEF IInv, TypeOK
<1>8. CompletionIsWhole'
  <2>1. \A x \in Version : status[x] = "Executed" => status'[x] = "Executed"
    BY <1>3, <1>7
  <2>2. \A q \in In("Completed") : request[q].version \in Version
    BY FiledType DEF In, Filed, IInv
  <2>3. In("Completed")' = In("Completed")
    BY <1>4
  <2> QED
    BY <1>1, <2>1, <2>2, <2>3 DEF IInv, RequestInv, CompletionIsWhole
<1>9. PendingMatchesVersion'
  <2>1. \A x \in Version \ bypassed' :
          x \notin bypassed /\ (status'[x] = "Signature Requested" <=> status[x] = "Signature Requested")
    BY <1>3, <1>5
  <2>2. In("Pending")' = In("Pending") /\ request' = request
    BY <1>1, <1>4
  <2> QED
    BY <2>1, <2>2 DEF IInv, RequestInv, PendingMatchesVersion
<1>10. OnePendingPerVersion' /\ PendingIsDistributed' /\ DraftsAreUnsent'
  <2>1. /\ In("Pending")' = In("Pending") /\ In("Draft")' = In("Draft")
        /\ UNCHANGED <<request, documenso, externalId>>
    BY <1>1, <1>4
  <2> QED
    BY <2>1
       DEF IInv, RequestInv, OnePendingPerVersion, PendingIsDistributed, DraftsAreUnsent
<1> QED
  BY <1>4, <1>6, <1>8, <1>9, <1>10 DEF IInv, RequestInv

LEMMA CommitActionStep ==
    ASSUME IInv, NEW c \in Client, CommitAction(c) \/ CommitLateApproval(c)
    PROVE  IInv'
<1>1. /\ work[c] # Idle /\ SaveVersion(c, work[c].status) /\ NoteBypass(work[c].doc)
      /\ UNCHANGED <<request, lapsed, executed, documenso, externalId>>
  BY DEF CommitAction, CommitLateApproval, Busy, external
<1>2. undecided' \subseteq Version
  BY DEF CommitAction, CommitLateApproval, IInv, TypeOK
<1> QED
  BY <1>1, <1>2, BypassStep

-----------------------------------------------------------------------------
(* The theorems *)

LEMMA BeginStep ==
    ASSUME IInv, NEW c \in Client, Begin(c)
    PROVE  IInv'
<1>1. ASSUME NEW r \in Request, NEW v \in Version, BeginCreate(c, r, v)
      PROVE  IInv'
  BY <1>1, BeginCreateStep
<1>2. ASSUME NEW r \in Request, OpenRequest(c, r) \/ BeginSend(c, r) \/ BeginCancel(c, r)
      PROVE  IInv'
  BY <1>2, OpenRequestStep, BeginSendStep, BeginCancelStep
<1>3. ASSUME NEW e \in Envelope, BeginWebhook(c, e)
      PROVE  IInv'
  BY <1>3, BeginWebhookStep
<1>4. ASSUME NEW r \in Request, NEW s \in Signer, BeginMark(c, r, s)
      PROVE  IInv'
  BY <1>4, BeginMarkStep
<1>5. ASSUME NEW v \in Version, NEW a \in DeskActions, BeginAction(c, v, a)
      PROVE  IInv'
  BY <1>5, BeginActionStep
<1>6. ASSUME NEW v \in Version, BeginLateApproval(c, v)
      PROVE  IInv'
  BY <1>6, BeginLateApprovalStep
<1>7. CASE BeginForm(c)
  BY <1>7, BeginFormStep
<1> QED
  BY <1>1, <1>2, <1>3, <1>4, <1>5, <1>6, <1>7 DEF Begin

LEMMA CommitStep ==
    ASSUME IInv, NEW c \in Client, Commit(c)
    PROVE  IInv'
BY SaveOnlySteps, CommitSendStep, CommitCompleteStep, CommitCancelStep, CommitActionStep DEF Commit

LEMMA NextInv == IInv /\ [Next]_vars => IInv'
<1> SUFFICES ASSUME IInv, [Next]_vars
             PROVE  IInv'
  OBVIOUS
<1>1. ASSUME NEW c \in Client,
             \/ Begin(c) \/ CreateEnvelope(c) \/ RefuseSend(c) \/ Distribute(c)
             \/ Commit(c) \/ Abandon(c)
      PROVE  IInv'
  BY <1>1, BeginStep, CreateEnvelopeStep, RefuseSendStep, DistributeStep, CommitStep, AbandonStep
<1>2. ASSUME NEW e \in Envelope, Sign(e)
      PROVE  IInv'
  BY <1>2, SignStep
<1>3. CASE UNCHANGED vars
  <2>1. /\ UNCHANGED <<status, current, work, outdated, request, lapsed, executed, bypassed,
                       undecided, documenso, externalId>>
    BY <1>3 DEF vars
  <2>2. TypeOK'
    BY <2>1 DEF IInv, TypeOK
  <2>3. External /\ EnvelopesAreFiled'
    BY <2>1, KeepEnvelopes DEF Filed
  <2>4. RequestInv' /\ \A s : In(s)' = In(s)
    BY <2>1, <2>3, KeepRequests
  <2>5. ASSUME NEW d \in Client, work'[d] # Idle
        PROVE  CopyOK(d, work[d])'
    <3>1. work'[d] = work[d] /\ CopyOK(d, work[d])
      BY <2>1, <2>5 DEF IInv, WorkInv
    <3>2. work[d].op = "created" => documenso'[work[d].sr.envelope] = "draft"
      BY <2>1, <3>1 DEF CopyOK, HoldsOK
    <3> QED
      BY <2>1, <2>3, <2>4, <3>1, <3>2, KeepCopy
  <2>6. \A c, d \in Client : Alone(c, d)'
    BY <2>1 DEF Alone, Busy, IInv, WorkInv
  <2> QED
    BY <2>2, <2>4, <2>5, <2>6 DEF IInv, WorkInv
<1> QED
  BY <1>1, <1>2, <1>3 DEF Next

\* Everything the proofs below rest on: the row of a request, its version, its
\* envelope in Documenso and the copies of all clients agree.
THEOREM SigningInvariance == Spec => []IInv
<1>1. Init => IInv
  BY InitInv
<1>2. IInv /\ [Next]_vars => IInv'
  BY NextInv
<1> QED
  BY <1>1, <1>2, PTL DEF Spec

\* Every variable has its type.
THEOREM SigningTypeCorrect == Spec => []TypeOK
<1>1. IInv => TypeOK
  BY DEF IInv
<1> QED
  BY <1>1, SigningInvariance, PTL

\* No two requests of a version are out for signature, whatever drafts, retries
\* and abandoned sends overlap.
THEOREM OneOutForSignature == Spec => []OnePendingPerVersion
<1>1. IInv => OnePendingPerVersion
  BY DEF IInv, RequestInv
<1> QED
  BY <1>1, SigningInvariance, PTL

\* A request is Completed only together with its version and its signed document.
THEOREM CompletionCommitsAll == Spec => []CompletionIsWhole
<1>1. IInv => CompletionIsWhole
  BY DEF IInv, RequestInv
<1> QED
  BY <1>1, SigningInvariance, PTL

\* A request that is Pending here is out for signature there.
THEOREM PendingIsSent == Spec => []PendingIsDistributed
<1>1. IInv => PendingIsDistributed
  BY DEF IInv, RequestInv
<1> QED
  BY <1>1, SigningInvariance, PTL

\* SignatureService moves a version and its request together; only a workflow
\* action of the desk and a late approval move the version alone.
THEOREM VersionFollowsRequest == Spec => []PendingMatchesVersion
<1>1. IInv => PendingMatchesVersion
  BY DEF IInv, RequestInv
<1> QED
  BY <1>1, SigningInvariance, PTL

-----------------------------------------------------------------------------
(* What no step does *)

\* One step of ClosedIsClosed.
ClosedStays ==
    /\ \A r \in In("Completed") \union In("Cancelled") : request'[r] = request[r]
    /\ \A v \in Version : executed[v] # None => executed'[v] = executed[v]

\* What a client saves was an open request when it was loaded, and still is.
LEMMA SavesOpenRequest ==
    ASSUME IInv, NEW c \in Client, work[c] # Idle,
           work[c].op \notin {"action", "approve", "resave"},
           NEW sr, SaveRequest(c, sr)
    PROVE  \A r \in In("Completed") \union In("Cancelled") : request'[r] = request[r]
<1>1. c \notin lapsed /\ request' = [request EXCEPT ![work[c].req] = sr]
  BY DEF SaveRequest, RequestLatest
<1>2. HoldsOK(work[c]) /\ LatestOK(c, work[c]) /\ work[c].op \in Unsent \union Sent \union {"created"}
  <2>1. work[c].op \in {"create", "form", "save", "send", "refused", "created", "distributed",
                        "complete", "resave", "mark", "drop", "cancel", "action", "approve"}
    BY WorkType DEF IInv, Work
  <2> QED
    BY <2>1 DEF IInv, WorkInv, CopyOK, Unsent, Sent
<1>3. work[c].sr.status \in {"Draft", "Pending"}
  BY <1>2 DEF HoldsOK, Unsent, Sent
<1>4. work[c].req \notin In("Completed") \union In("Cancelled")
  BY <1>1, <1>2, <1>3 DEF LatestOK, In, Filed
<1> QED
  BY <1>1, <1>4 DEF In, Filed, IInv, TypeOK

LEMMA StepKeepsClosed == IInv /\ [Next]_vars => ClosedStays
<1> SUFFICES ASSUME IInv, [Next]_vars
             PROVE  ClosedStays
  OBVIOUS
<1>1. CASE request' = request /\ executed' = executed
  BY <1>1 DEF ClosedStays
<1>2. ASSUME NEW c \in Client, work[c] # Idle,
             work[c].op \notin {"action", "approve", "resave"},
             executed' = executed, NEW sr, SaveRequest(c, sr)
      PROVE  ClosedStays
  BY <1>2, SavesOpenRequest DEF ClosedStays
<1>3. ASSUME NEW c \in Client, CommitComplete(c)
      PROVE  ClosedStays
  <2>1. /\ work[c] # Idle /\ work[c].op = "complete" /\ CompletesFrom(work[c].doc)
        /\ executed' = [executed EXCEPT ![work[c].doc] = work[c].file]
        /\ SaveRequest(c, [work[c].sr EXCEPT !.status = "Completed"])
    BY <1>3 DEF CommitComplete, Busy
  <2>2. work[c].doc \in Version
    BY <2>1, WorkType DEF IInv
  <2>3. status[work[c].doc] = "Signature Requested"
    BY <2>1, TableEdges DEF CompletesFrom, Outcomes
  <2>4. executed[work[c].doc] = None
    <3>1. ASSUME executed[work[c].doc] # None
          PROVE  status[work[c].doc] = "Executed"
      BY <2>2, <3>1 DEF IInv, RequestInv, CompletionIsWhole
    <3> QED
      BY <2>3, <3>1
  <2>5. \A v \in Version : executed[v] # None => executed'[v] = executed[v]
    BY <2>1, <2>2, <2>4 DEF IInv, TypeOK
  <2>6. \A r \in In("Completed") \union In("Cancelled") : request'[r] = request[r]
    BY <2>1, SavesOpenRequest
  <2> QED
    BY <2>5, <2>6 DEF ClosedStays
<1>4. ASSUME NEW c \in Client, Commit(c)
      PROVE  ClosedStays
  <2>1. CASE CommitCreate(c)
    BY <1>2, <2>1 DEF CommitCreate, Busy
  <2>2. CASE CommitForm(c)
    BY <1>2, <2>2 DEF CommitForm, Busy
  <2>3. CASE CommitSend(c)
    BY <1>2, <2>3 DEF CommitSend, Busy
  <2>4. CASE CommitMark(c)
    BY <1>2, <2>4 DEF CommitMark, Busy
  <2>5. CASE CommitDrop(c)
    BY <1>2, <2>5 DEF CommitDrop, Busy
  <2>6. CASE CommitCancel(c)
    BY <1>2, <2>6 DEF CommitCancel, Busy
  <2>7. CASE CommitAction(c)
    BY <1>1, <2>7 DEF CommitAction
  <2>8. CASE CommitLateApproval(c)
    BY <1>1, <2>8 DEF CommitLateApproval
  <2> QED
    BY <1>3, <1>4, <2>1, <2>2, <2>3, <2>4, <2>5, <2>6, <2>7, <2>8 DEF Commit
<1>5. ASSUME NEW c \in Client, Begin(c)
      PROVE  ClosedStays
  <2>1. UNCHANGED database
    BY <1>5 DEF Begin, BeginCreate, OpenRequest, BeginSend, BeginCancel, BeginWebhook, BeginMark,
                BeginAction, BeginLateApproval, BeginForm
  <2> QED
    BY <1>1, <2>1 DEF database
<1>6. ASSUME NEW c \in Client, CreateEnvelope(c) \/ RefuseSend(c) \/ Distribute(c) \/ Abandon(c)
      PROVE  ClosedStays
  BY <1>1, <1>6 DEF CreateEnvelope, RefuseSend, Distribute, Abandon, database
<1>7. ASSUME NEW e \in Envelope, Sign(e)
      PROVE  ClosedStays
  BY <1>1, <1>7 DEF Sign, database
<1>8. CASE UNCHANGED vars
  BY <1>1, <1>8 DEF vars
<1> QED
  BY <1>4, <1>5, <1>6, <1>7, <1>8 DEF Next

\* A closed request and a stored signed document are final: no late webhook, no
\* open form, no retried cancellation changes them.
THEOREM ClosedForGood == Spec => ClosedIsClosed
<1>1. IInv /\ [Next]_vars => [ClosedStays]_vars
  BY StepKeepsClosed
<1> QED
  BY <1>1, SigningInvariance, PTL DEF Spec, ClosedIsClosed, ClosedStays
=============================================================================
