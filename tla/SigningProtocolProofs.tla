------------------------ MODULE SigningProtocolProofs ------------------------
(***************************************************************************)
(* Proof that Signing implements SigningProtocol: every step leaves the    *)
(* books alone, or changes them as one operation of the protocol does.     *)
(* The invariant of SigningProofs says how far the request and the version *)
(* have come that a client is about to save; the two invariants added here *)
(* say that they still are what the client loaded, and whose envelopes     *)
(* are on record.                                                          *)
(***************************************************************************)
EXTENDS SigningProofs

\* While the version is as it was loaded, so is its status; while the request
\* is, so is its envelope.
LoadedOK(c) ==
    work[c] # Idle =>
        /\ c \notin outdated =>
             /\ work[c].op \in Sending => status[work[c].doc] = "Approved"
             /\ work[c].op = "cancel" => status[work[c].doc] = "Signature Requested"
             /\ work[c].op = "action" =>
                  \E a \in DeskActions : \E row \in Outcomes(status[work[c].doc], a) :
                      row.next = work[c].status
             /\ work[c].op = "approve" =>
                  CanTransition(status[work[c].doc], "Approved") /\ work[c].status = "Approved"
        /\ (c \notin lapsed /\ work[c].op \in {"mark", "cancel", "complete"}) =>
             request[work[c].req].envelope = work[c].sr.envelope

LoadedInv == \A c \in Client : LoadedOK(c)

\* An envelope on record was created for the request that records it, and sent.
EnvelopesAreOwn ==
    \A r \in Filed : request[r].envelope # None => SentOut(request[r], r)

-----------------------------------------------------------------------------
(* What every step of Signing leaves alone *)

LEMMA StepIsExternal ==
    ASSUME IInv, [Next]_vars
    PROVE  External
<1>1. CASE UNCHANGED <<documenso, externalId>>
  BY <1>1 DEF External
<1>2. ASSUME NEW c \in Client, CreateEnvelope(c) \/ RefuseSend(c)
      PROVE  External
  <2>1. PICK e \in Envelope :
          /\ documenso[e] = "unused"
          /\ documenso' = [documenso EXCEPT ![e] = "draft"]
          /\ externalId' = [externalId EXCEPT ![e] = work[c].req]
    BY <1>2 DEF CreateEnvelope, RefuseSend, CreateDocument
  <2>2. \A f \in Envelope \ {e} : documenso'[f] = documenso[f] /\ externalId'[f] = externalId[f]
    BY <2>1 DEF IInv, TypeOK
  <2> QED
    BY <2>1, <2>2 DEF External
<1>3. ASSUME NEW c \in Client, Distribute(c)
      PROVE  External
  <2>1. /\ externalId' = externalId
        /\ documenso' = [documenso EXCEPT ![work[c].sr.envelope] = "live"]
        /\ work[c] # Idle /\ work[c].op = "created"
    BY <1>3 DEF Distribute, DistributeDocument, Busy
  <2>2. documenso[work[c].sr.envelope] = "draft"
    BY <2>1 DEF IInv, WorkInv, CopyOK, HoldsOK
  <2>3. \A f \in Envelope : f # work[c].sr.envelope => documenso'[f] = documenso[f]
    BY <2>1 DEF IInv, TypeOK
  <2> QED
    BY <2>1, <2>2, <2>3 DEF External
<1>4. ASSUME NEW e \in Envelope, Sign(e)
      PROVE  External
  <2>1. externalId' = externalId /\ documenso' = [documenso EXCEPT ![e] = "completed"]
    BY <1>4 DEF Sign
  <2>2. /\ documenso'[e] = "completed"
        /\ \A f \in Envelope \ {e} : documenso'[f] = documenso[f]
    BY <2>1 DEF IInv, TypeOK
  <2> QED
    BY <2>1, <2>2 DEF External
<1>5. ASSUME NEW c \in Client, Begin(c)
      PROVE  External
  <2>1. UNCHANGED external
    BY <1>5 DEF Begin, BeginCreate, OpenRequest, BeginForm, BeginSend, BeginCancel, BeginWebhook,
                BeginMark, BeginAction, BeginLateApproval
  <2> QED
    BY <1>1, <2>1 DEF external
<1>6. ASSUME NEW c \in Client, Commit(c) \/ Abandon(c)
      PROVE  External
  <2>1. UNCHANGED external
    BY <1>6 DEF Commit, CommitCreate, CommitForm, CommitSend, CommitComplete, CommitMark,
                CommitDrop, CommitCancel, CommitAction, CommitLateApproval, Abandon
  <2> QED
    BY <1>1, <2>1 DEF external
<1>7. CASE UNCHANGED vars
  BY <1>1, <1>7 DEF vars
<1> QED
  BY <1>2, <1>3, <1>4, <1>5, <1>6, <1>7 DEF Next

-----------------------------------------------------------------------------
(* What was loaded *)

\* Whoever does not save keeps what was loaded.
LEMMA KeepLoaded ==
    ASSUME NEW d \in Client, LoadedOK(d), work'[d] = work[d],
           work[d] # Idle /\ d \notin outdated' =>
               d \notin outdated /\ status'[work[d].doc] = status[work[d].doc],
           (work[d] # Idle /\ d \notin lapsed' /\ work[d].op \in {"mark", "cancel", "complete"}) =>
               d \notin lapsed /\ request'[work[d].req] = request[work[d].req]
    PROVE  LoadedOK(d)'
BY DEF LoadedOK, Outcomes, CanTransition

\* Loading leaves the copies of the others alone.
LEMMA LoadLoaded ==
    ASSUME TypeOK, LoadedInv, NEW c \in Client, NEW w, Hold(c, w),
           UNCHANGED <<status, outdated, request, lapsed>>,
           w.op \in Sending => status[w.doc] = "Approved",
           w.op = "cancel" => status[w.doc] = "Signature Requested",
           w.op = "action" =>
               \E a \in DeskActions : \E row \in Outcomes(status[w.doc], a) : row.next = w.status,
           w.op = "approve" => CanTransition(status[w.doc], "Approved") /\ w.status = "Approved",
           w.op \in {"mark", "cancel", "complete"} => request[w.req].envelope = w.sr.envelope
    PROVE  LoadedInv'
<1> SUFFICES ASSUME NEW d \in Client PROVE LoadedOK(d)'
  BY DEF LoadedInv
<1>1. work'[c] = w /\ \A e \in Client \ {c} : work'[e] = work[e]
  BY DEF Hold, TypeOK
<1>2. CASE d = c
  BY <1>1, <1>2 DEF LoadedOK, Outcomes, CanTransition
<1>3. CASE d # c
  <2>1. LoadedOK(d) /\ work'[d] = work[d]
    BY <1>1, <1>3 DEF LoadedInv
  <2> QED
    BY <2>1, KeepLoaded
<1> QED
  BY <1>2, <1>3

\* A request is loaded as it is, and its version too.
LEMMA BeginLoaded ==
    ASSUME IInv, LoadedInv, NEW c \in Client, Begin(c)
    PROVE  LoadedInv'
<1>1. UNCHANGED <<status, outdated, request, lapsed>> /\ TypeOK
  BY DEF Begin, BeginCreate, OpenRequest, BeginForm, BeginSend, BeginCancel, BeginWebhook,
         BeginMark, BeginAction, BeginLateApproval, database, IInv
<1>2. ASSUME NEW r \in Request, NEW v \in Version, BeginCreate(c, r, v)
      PROVE  LoadedInv'
  <2>1. PICK w : Hold(c, w) /\ w.op = "create"
    BY <1>2 DEF BeginCreate, Load
  <2> QED
    BY <1>1, <2>1, LoadLoaded DEF Sending
<1>3. ASSUME NEW r \in Request, OpenRequest(c, r)
      PROVE  LoadedInv'
  <2>1. PICK w : Hold(c, w) /\ w.op = "form"
    BY <1>3 DEF OpenRequest, Load
  <2> QED
    BY <1>1, <2>1, LoadLoaded DEF Sending
<1>4. ASSUME NEW r \in Request, BeginSend(c, r)
      PROVE  LoadedInv'
  <2> DEFINE w(op) == Load(request[r].version, op, "Signature Requested", r, request[r], None)
  <2>1. PICK op \in {"send", "refused"} : Hold(c, w(op))
    BY <1>4 DEF BeginSend
  <2>2. status[request[r].version] = "Approved"
    BY <1>4 DEF BeginSend, ReadyToSign
  <2>3. w(op).op = op /\ w(op).doc = request[r].version
    BY DEF Load
  <2> HIDE DEF w
  <2> QED
    BY <1>1, <2>1, <2>2, <2>3, LoadLoaded
<1>5. ASSUME NEW r \in Request, BeginCancel(c, r)
      PROVE  LoadedInv'
  <2>1. PICK w :
          /\ Hold(c, w)
          /\ \/ w.op = "drop"
             \/ /\ w.op = "cancel" /\ status[w.doc] = "Signature Requested"
                /\ request[w.req].envelope = w.sr.envelope
    <3>1. ASSUME Hold(c, Load(request[r].version, "drop", "Approved", r, request[r], None))
          PROVE  \E w : Hold(c, w) /\ w.op = "drop"
      BY <3>1 DEF Load
    <3>2. ASSUME NEW row \in Outcomes(status[request[r].version], "Cancel Signature"),
                 Hold(c, Load(request[r].version, "cancel", row.next, r, request[r], None))
          PROVE  \E w : /\ Hold(c, w) /\ w.op = "cancel"
                        /\ status[w.doc] = "Signature Requested"
                        /\ request[w.req].envelope = w.sr.envelope
      <4> DEFINE w == Load(request[r].version, "cancel", row.next, r, request[r], None)
      <4>1. status[request[r].version] = "Signature Requested"
        BY TableEdges DEF Outcomes
      <4>2. w.op = "cancel" /\ w.doc = request[r].version /\ w.req = r /\ w.sr = request[r]
        BY DEF Load
      <4>3. Hold(c, w)
        BY <3>2
      <4> HIDE DEF w
      <4> QED
        BY <4>1, <4>2, <4>3
    <3> QED
      BY <1>5, <3>1, <3>2 DEF BeginCancel
  <2> QED
    BY <1>1, <2>1, LoadLoaded DEF Sending
<1>6. ASSUME NEW r, NEW sr, sr.envelope = request[r].envelope, Completing(c, r, sr)
      PROVE  LoadedInv'
  <2>1. PICK w : /\ Hold(c, w) /\ w.op \in {"complete", "resave"}
                 /\ request[w.req].envelope = w.sr.envelope
    BY <1>6 DEF Completing, LoadCompleting, Load
  <2> QED
    BY <1>1, <2>1, LoadLoaded DEF Sending
<1>7. ASSUME NEW e \in Envelope, BeginWebhook(c, e)
      PROVE  LoadedInv'
  <2> DEFINE r == externalId[e]
             more == IF e = request[r].envelope THEN request[r].linked ELSE {}
             sr == [request[r] EXCEPT !.signed = @ \union more]
  <2>1. r \in Request /\ request[r] # None /\ Completing(c, r, sr)
    BY <1>7 DEF BeginWebhook, Filed
  <2>2. sr.envelope = request[r].envelope
    BY <2>1, FiledType DEF RequestDoc, IInv
  <2> QED
    BY <1>6, <2>1, <2>2
<1>8. ASSUME NEW r \in Request, NEW s \in Signer, BeginMark(c, r, s)
      PROVE  LoadedInv'
  <2> DEFINE sr == [request[r] EXCEPT !.signed = @ \union {s}]
  <2>1. /\ request[r] # None
        /\ \/ Hold(c, Load(sr.version, "mark", status[sr.version], r, sr, None))
           \/ Completing(c, r, sr)
    BY <1>8 DEF BeginMark, In, Filed
  <2>2. sr.envelope = request[r].envelope
    BY <2>1, FiledType DEF RequestDoc, IInv
  <2> HIDE DEF sr
  <2>3. CASE Hold(c, Load(sr.version, "mark", status[sr.version], r, sr, None))
    <3>1. PICK w : /\ Hold(c, w) /\ w.op = "mark"
                   /\ request[w.req].envelope = w.sr.envelope
      BY <2>2, <2>3 DEF Load
    <3> QED
      BY <1>1, <3>1, LoadLoaded DEF Sending
  <2> QED
    BY <1>6, <2>1, <2>2, <2>3
<1>9. ASSUME NEW v \in Version, NEW a \in DeskActions, BeginAction(c, v, a)
      PROVE  LoadedInv'
  <2>1. PICK row \in Outcomes(status[v], a) : Hold(c, Load(v, "action", row.next, None, None, None))
    BY <1>9 DEF BeginAction
  <2>2. PICK w : Hold(c, w) /\ w.op = "action" /\ w.doc = v /\ w.status = row.next
    BY <2>1 DEF Load
  <2> QED
    BY <1>1, <2>2, LoadLoaded DEF Sending
<1>10. ASSUME NEW v \in Version, BeginLateApproval(c, v)
       PROVE  LoadedInv'
  <2>1. PICK w : /\ Hold(c, w) /\ w.op = "approve" /\ w.doc = v /\ w.status = "Approved"
                 /\ CanTransition(status[v], "Approved")
    BY <1>10 DEF BeginLateApproval, Load
  <2> QED
    BY <1>1, <2>1, LoadLoaded DEF Sending
<1>11. ASSUME BeginForm(c)
       PROVE  LoadedInv'
  <2>1. Hold(c, [work[c] EXCEPT !.op = "save"]) /\ work[c] # Idle
    BY <1>11 DEF BeginForm, Busy
  <2>2. [work[c] EXCEPT !.op = "save"].op = "save"
    BY <1>1, <2>1, WorkType DEF Work
  <2>3. PICK w : Hold(c, w) /\ w.op = "save"
    BY <2>1, <2>2
  <2> QED
    BY <1>1, <2>3, LoadLoaded DEF Sending
<1> QED
  BY <1>2, <1>3, <1>4, <1>5, <1>7, <1>8, <1>9, <1>10, <1>11 DEF Begin

\* While a request is being sent its copy changes, but not what it was loaded from.
LEMMA SendingLoaded ==
    ASSUME IInv, LoadedInv, NEW c \in Client, CreateEnvelope(c) \/ Distribute(c)
    PROVE  LoadedInv'
<1>1. UNCHANGED <<status, outdated, request, lapsed>> /\ TypeOK
  BY DEF CreateEnvelope, Distribute, database, IInv
<1>2. work[c] # Idle /\ work[c].op \in {"send", "created"} /\ work[c] \in Work
  BY WorkType DEF CreateEnvelope, Distribute, Busy, IInv
<1>3. c \notin outdated => status[work[c].doc] = "Approved"
  BY <1>2 DEF LoadedInv, LoadedOK, Sending
<1>4. PICK w : Hold(c, w) /\ w.op \in {"created", "distributed"} /\ w.doc = work[c].doc
  <2>1. CASE CreateEnvelope(c)
    <3>1. PICK e \in Envelope : Hold(c, [work[c] EXCEPT !.op = "created", !.sr.envelope = e])
      BY <2>1 DEF CreateEnvelope
    <3>2. /\ [work[c] EXCEPT !.op = "created", !.sr.envelope = e].op = "created"
          /\ [work[c] EXCEPT !.op = "created", !.sr.envelope = e].doc = work[c].doc
      BY <1>2 DEF Work
    <3> QED
      BY <3>1, <3>2
  <2>2. CASE Distribute(c)
    <3>1. PICK m : Hold(c, [work[c] EXCEPT !.op = "distributed", !.sr.linked = m])
      BY <2>2 DEF Distribute
    <3>2. /\ [work[c] EXCEPT !.op = "distributed", !.sr.linked = m].op = "distributed"
          /\ [work[c] EXCEPT !.op = "distributed", !.sr.linked = m].doc = work[c].doc
      BY <1>2 DEF Work
    <3> QED
      BY <3>1, <3>2
  <2> QED
    BY <2>1, <2>2
<1>5. work'[c] = w /\ \A e \in Client \ {c} : work'[e] = work[e]
  BY <1>1, <1>4 DEF Hold, TypeOK
<1>6. LoadedOK(c)'
  BY <1>1, <1>3, <1>4, <1>5 DEF LoadedOK
<1>7. \A d \in Client \ {c} : LoadedOK(d)'
  BY <1>1, <1>5, KeepLoaded DEF LoadedInv
<1> QED
  BY <1>6, <1>7 DEF LoadedInv

-----------------------------------------------------------------------------
(* What is saved *)

\* The client's request, and how far it has come.
LEMMA Holding ==
    ASSUME IInv, NEW c \in Client, work[c] # Idle,
           work[c].op \notin {"action", "approve"}
    PROVE  /\ work[c].req \in Request /\ work[c].doc \in Version
           /\ work[c].sr \in RequestDoc /\ work[c].sr.version = work[c].doc
           /\ work[c].op \in Unsent => work[c].sr.status = "Draft" /\ work[c].sr.envelope = None
           /\ work[c].op \in Sent => SentOut(work[c].sr, work[c].req)
           /\ work[c].op = "distributed" =>
                work[c].sr.status = "Draft" /\ work[c].status = "Signature Requested"
           /\ work[c].op \in {"mark", "cancel", "complete"} => work[c].sr.status = "Pending"
           /\ work[c].op = "cancel" => work[c].status = "Approved"
           /\ work[c].op = "complete" =>
                work[c].status = "Executed" /\ work[c].file = work[c].sr.envelope
           /\ work[c].op = "create" => request[work[c].req] = None
           /\ (work[c].op # "create" /\ c \notin lapsed) =>
                /\ request[work[c].req] # None
                /\ request[work[c].req].status = work[c].sr.status
                /\ request[work[c].req].version = work[c].doc
<1>1. HoldsOK(work[c]) /\ LatestOK(c, work[c])
  BY DEF IInv, WorkInv, CopyOK
<1>2. work[c].doc \in Version
  BY WorkType DEF IInv
<1>3. work[c].op = "distributed" => work[c].op \in Sending
  BY DEF Sending
<1>4. /\ work[c].op = "create" => request[work[c].req] = None
      /\ (work[c].op # "create" /\ c \notin lapsed) =>
           /\ request[work[c].req] # None
           /\ request[work[c].req].status = work[c].sr.status
           /\ request[work[c].req].version = work[c].sr.version
  BY <1>1 DEF LatestOK
<1> QED
  BY <1>1, <1>2, <1>3, <1>4 DEF HoldsOK

\* The status a request is saved in.
SavedStatus(c) ==
    CASE work[c].op = "distributed" -> "Pending"
      [] work[c].op = "complete" -> "Completed"
      [] work[c].op \in {"drop", "cancel"} -> "Cancelled"
      [] OTHER -> work[c].sr.status

Saves(c, sr) ==
    /\ work[c] # Idle
    /\ work[c].op \in {"create", "save", "distributed", "complete", "mark", "drop", "cancel"}
    /\ SaveRequest(c, sr)
    /\ sr.version = work[c].doc /\ sr.envelope = work[c].sr.envelope
    /\ sr.status = SavedStatus(c)

\* A request is saved with version and envelope as in the copy.
LEMMA CommitSaves ==
    ASSUME IInv, NEW c \in Client, Commit(c), ~CommitAction(c), ~CommitLateApproval(c)
    PROVE  \E sr \in RequestDoc : Saves(c, sr)
<1>1. /\ work[c] # Idle
      /\ work[c].op \in {"create", "save", "distributed", "complete", "mark", "drop", "cancel"}
  BY DEF Commit, CommitCreate, CommitForm, CommitSend, CommitComplete, CommitMark, CommitDrop,
         CommitCancel, Busy
<1>2. work[c].sr \in RequestDoc /\ work[c].sr.version = work[c].doc
  BY <1>1, Holding
<1>3. ASSUME NEW s \in {"Pending", "Completed", "Cancelled"}
      PROVE  /\ [work[c].sr EXCEPT !.status = s] \in RequestDoc
             /\ [work[c].sr EXCEPT !.status = s].version = work[c].sr.version
             /\ [work[c].sr EXCEPT !.status = s].envelope = work[c].sr.envelope
             /\ [work[c].sr EXCEPT !.status = s].status = s
  BY <1>2 DEF RequestDoc
<1>4. ASSUME NEW s \in {"Pending", "Completed", "Cancelled"}, SavedStatus(c) = s,
             SaveRequest(c, [work[c].sr EXCEPT !.status = s])
      PROVE  \E sr \in RequestDoc : Saves(c, sr)
  <2> DEFINE sr == [work[c].sr EXCEPT !.status = s]
  <2>1. sr \in RequestDoc /\ Saves(c, sr)
    BY <1>1, <1>2, <1>3, <1>4 DEF Saves
  <2> QED
    BY <2>1
<1>5. CASE CommitCreate(c) \/ CommitMark(c)
  <2>1. SaveRequest(c, work[c].sr) /\ work[c].op \in {"create", "mark"}
    BY <1>5 DEF CommitCreate, CommitMark, Busy
  <2>2. SavedStatus(c) = work[c].sr.status
    BY <2>1 DEF SavedStatus
  <2>3. Saves(c, work[c].sr)
    BY <1>1, <1>2, <2>1, <2>2 DEF Saves
  <2> QED
    BY <1>2, <2>3
<1>6. CASE CommitForm(c)
  <2>1. PICK chosen \in SUBSET Signer : SaveRequest(c, [work[c].sr EXCEPT !.recipients = chosen])
    BY <1>6 DEF CommitForm
  <2> DEFINE sr == [work[c].sr EXCEPT !.recipients = chosen]
  <2>2. /\ sr \in RequestDoc /\ sr.version = work[c].sr.version
        /\ sr.envelope = work[c].sr.envelope /\ sr.status = work[c].sr.status
    BY <1>2 DEF RequestDoc
  <2>3. SavedStatus(c) = work[c].sr.status
    BY <1>6 DEF SavedStatus, CommitForm, Busy
  <2>4. SaveRequest(c, sr)
    BY <2>1
  <2> HIDE DEF sr
  <2> QED
    BY <1>1, <1>2, <2>2, <2>3, <2>4 DEF Saves
<1>7. CASE CommitSend(c)
  <2>1. SavedStatus(c) = "Pending"
    BY <1>7 DEF SavedStatus, CommitSend, Busy
  <2> QED
    BY <1>4, <1>7, <2>1 DEF CommitSend, MarkPending
<1>8. CASE CommitComplete(c)
  <2>1. SavedStatus(c) = "Completed"
    BY <1>8 DEF SavedStatus, CommitComplete, Busy
  <2> QED
    BY <1>4, <1>8, <2>1 DEF CommitComplete
<1>9. CASE CommitDrop(c) \/ CommitCancel(c)
  <2>1. SavedStatus(c) = "Cancelled" /\ SaveRequest(c, [work[c].sr EXCEPT !.status = "Cancelled"])
    BY <1>9 DEF SavedStatus, CommitDrop, CommitCancel, Busy
  <2> QED
    BY <1>4, <2>1
<1> QED
  BY <1>5, <1>6, <1>7, <1>8, <1>9 DEF Commit

\* Whose version is saved, has an outdated copy.
LEMMA OthersVersions ==
    ASSUME IInv, NEW c \in Client, Commit(c) \/ Abandon(c) \/ RefuseSend(c),
           NEW d \in Client \ {c}, work[d] # Idle, d \notin outdated'
    PROVE  d \notin outdated /\ status'[work[d].doc] = status[work[d].doc]
<1>1. work[d].doc \in Version
  BY WorkType DEF IInv
<1>2. CASE Rollback(c) /\ status' = status
  BY <1>2 DEF Rollback
<1>3. CASE work[c] # Idle /\ SaveVersion(c, work[c].status)
  BY <1>1, <1>3, VersionStep
<1>4. CASE CommitComplete(c)
  <2>1. /\ status' = [status EXCEPT ![work[c].doc] = work[c].status]
        /\ outdated' = (outdated \union Holders(work[c].doc)) \ {c}
    BY <1>4 DEF CommitComplete
  <2>2. d \notin outdated /\ work[d].doc # work[c].doc
    BY <2>1 DEF Holders
  <2> QED
    BY <1>1, <2>1, <2>2 DEF IInv, TypeOK
<1> QED
  BY <1>2, <1>3, <1>4
     DEF Commit, CommitCreate, CommitForm, CommitSend, CommitMark, CommitDrop, CommitCancel,
         CommitAction, CommitLateApproval, Abandon, RefuseSend, Busy

\* Whose request is saved, has a copy that is not the latest.
LEMMA OthersRequests ==
    ASSUME IInv, NEW c \in Client, Commit(c) \/ Abandon(c) \/ RefuseSend(c),
           NEW d \in Client \ {c}, work[d] # Idle, d \notin lapsed',
           work[d].op \notin {"action", "approve"}
    PROVE  d \notin lapsed /\ request'[work[d].req] = request[work[d].req]
<1>1. CASE request' = request /\ (d \in lapsed => d \in lapsed')
  BY <1>1
<1>2. ASSUME NEW sr, SaveRequest(c, sr)
      PROVE  d \notin lapsed /\ request'[work[d].req] = request[work[d].req]
  <2>1. /\ request' = [request EXCEPT ![work[c].req] = sr]
        /\ lapsed' = (lapsed \union RequestHolders(work[c].req)) \ {c}
    BY <1>2 DEF SaveRequest
  <2>2. d \notin lapsed /\ work[d].req # work[c].req
    BY <2>1 DEF RequestHolders
  <2>3. work[d].req \in Request
    BY Holding
  <2> QED
    BY <2>1, <2>2, <2>3 DEF IInv, TypeOK
<1>3. CASE CommitAction(c) \/ CommitLateApproval(c) \/ Abandon(c) \/ RefuseSend(c)
  <2>1. request' = request /\ (d \in lapsed => d \in lapsed')
    BY <1>3 DEF CommitAction, CommitLateApproval, Abandon, RefuseSend
  <2> QED
    BY <1>1, <2>1
<1>4. CASE Commit(c) /\ ~CommitAction(c) /\ ~CommitLateApproval(c)
  BY <1>2, <1>4, CommitSaves DEF Saves
<1> QED
  BY <1>3, <1>4

LEMMA EndLoaded ==
    ASSUME IInv, LoadedInv, NEW c \in Client, Commit(c) \/ Abandon(c) \/ RefuseSend(c)
    PROVE  LoadedInv'
<1>1. Release(c)
  BY VersionStep
     DEF Commit, CommitCreate, CommitForm, CommitSend, CommitComplete, CommitMark, CommitDrop,
         CommitCancel, CommitAction, CommitLateApproval, Abandon, RefuseSend, Rollback, Busy
<1>2. work'[c] = Idle /\ \A d \in Client \ {c} : work'[d] = work[d]
  BY <1>1 DEF Release, IInv, TypeOK
<1> SUFFICES ASSUME NEW d \in Client PROVE LoadedOK(d)'
  BY DEF LoadedInv
<1>3. CASE d = c
  BY <1>2, <1>3 DEF LoadedOK
<1>4. CASE d # c
  <2>1. work[d] # Idle /\ d \notin outdated' =>
            d \notin outdated /\ status'[work[d].doc] = status[work[d].doc]
    BY <1>4, OthersVersions
  <2>2. (work[d] # Idle /\ d \notin lapsed' /\ work[d].op \in {"mark", "cancel", "complete"}) =>
            d \notin lapsed /\ request'[work[d].req] = request[work[d].req]
    BY <1>4, OthersRequests
  <2>3. LoadedOK(d) /\ work'[d] = work[d]
    BY <1>2, <1>4 DEF LoadedInv
  <2> QED
    BY <2>1, <2>2, <2>3, KeepLoaded
<1> QED
  BY <1>3, <1>4

LEMMA NextLoaded == IInv /\ LoadedInv /\ [Next]_vars => LoadedInv'
<1> SUFFICES ASSUME IInv, LoadedInv, [Next]_vars
             PROVE  LoadedInv'
  OBVIOUS
<1>1. CASE UNCHANGED <<status, work, outdated, request, lapsed>>
  BY <1>1, KeepLoaded DEF LoadedInv
<1>2. ASSUME NEW e \in Envelope, Sign(e)
      PROVE  UNCHANGED <<status, work, outdated, request, lapsed>>
  BY <1>2 DEF Sign, database
<1>3. UNCHANGED vars => UNCHANGED <<status, work, outdated, request, lapsed>>
  BY DEF vars
<1> QED
  BY <1>1, <1>2, <1>3, BeginLoaded, SendingLoaded, EndLoaded DEF Next

LEMMA NextOwn == IInv /\ EnvelopesAreOwn /\ [Next]_vars => EnvelopesAreOwn'
<1> SUFFICES ASSUME IInv, EnvelopesAreOwn, [Next]_vars
             PROVE  EnvelopesAreOwn'
  OBVIOUS
<1>1. ASSUME NEW r, NEW sr, SentOut(sr, r), NEW e, e = sr.envelope
      PROVE  /\ e \in Envelope /\ documenso'[e] \in {"live", "completed"}
             /\ externalId'[e] = r
  BY <1>1, StepIsExternal DEF SentOut, External
<1>2. CASE request' = request
  BY <1>1, <1>2 DEF EnvelopesAreOwn, Filed, SentOut
<1>3. ASSUME NEW c \in Client, NEW sr \in RequestDoc, Saves(c, sr)
      PROVE  EnvelopesAreOwn'
  <2>1. PICK r \in Request : r = work[c].req
    BY <1>3, Holding DEF Saves
  <2>2. request'[r] = sr /\ \A q \in Request \ {r} : request'[q] = request[q]
    BY <1>3, <2>1, RowStep DEF Saves
  <2>3. sr.envelope = work[c].sr.envelope /\
        (work[c].sr.envelope = None \/ SentOut(work[c].sr, r))
    BY <1>3, <2>1, Holding DEF Saves, Unsent, Sent
  <2> SUFFICES ASSUME NEW q \in Filed', request'[q].envelope # None
               PROVE  SentOut(request[q], q)'
    BY DEF EnvelopesAreOwn
  <2>4. CASE q = r
    BY <1>1, <2>2, <2>3, <2>4 DEF SentOut
  <2>5. CASE q # r
    <3>1. q \in Filed /\ request'[q] = request[q]
      BY <2>2, <2>5 DEF Filed
    <3>2. SentOut(request[q], q)
      BY <3>1 DEF EnvelopesAreOwn
    <3> QED
      BY <1>1, <3>1, <3>2 DEF SentOut
  <2> QED
    BY <2>4, <2>5
<1>4. ASSUME NEW c \in Client, Commit(c)
      PROVE  EnvelopesAreOwn'
  <2>1. CASE CommitAction(c) \/ CommitLateApproval(c)
    BY <1>2, <2>1 DEF CommitAction, CommitLateApproval
  <2> QED
    BY <1>3, <1>4, <2>1, CommitSaves
<1>5. ASSUME NEW c \in Client,
             Begin(c) \/ CreateEnvelope(c) \/ RefuseSend(c) \/ Distribute(c) \/ Abandon(c)
      PROVE  request' = request
  BY <1>5 DEF Begin, BeginCreate, OpenRequest, BeginForm, BeginSend, BeginCancel, BeginWebhook,
              BeginMark, BeginAction, BeginLateApproval, CreateEnvelope, RefuseSend, Distribute,
              Abandon, database
<1>6. ASSUME NEW e \in Envelope, Sign(e)
      PROVE  request' = request
  BY <1>6 DEF Sign, database
<1>7. UNCHANGED vars => request' = request
  BY DEF vars
<1> QED
  BY <1>2, <1>4, <1>5, <1>6, <1>7 DEF Next

-----------------------------------------------------------------------------
(* The books *)

Entry(sr) == [status |-> sr.status, version |-> sr.version, envelope |-> sr.envelope]

Books == [r \in Request |-> Booked(r)]

\* The books show what the table holds.
LEMMA BooksShow ==
    ASSUME TypeOK, NEW r \in Request
    PROVE  /\ Books[r] = Booked(r)
           /\ request[r] # None => Books[r] = Entry(request[r]) /\ Books[r] # None
           /\ request[r] = None => Books[r] = None
           /\ \A s : r \in Protocol!In(s) <=> r \in In(s)
<1>1. Books[r] = Booked(r) /\ (request[r] = None => Books[r] = None)
  BY DEF Books, Booked
<1>2. ASSUME request[r] # None
      PROVE  Books[r] = Entry(request[r]) /\ Entry(request[r]) # None
  <2>1. request[r] \in RequestDoc
    BY <1>2, FiledType
  <2>2. Entry(request[r]) \in BookedDoc
    BY <2>1 DEF Entry, BookedDoc, RequestDoc
  <2> QED
    BY <1>1, <1>2, <2>2, NoBookingAssumption DEF Booked, Entry
<1>3. ASSUME NEW s
      PROVE  r \in Protocol!In(s) <=> r \in In(s)
  <2>1. r \in Protocol!In(s) <=> Books[r] # None /\ Books[r].status = s
    BY DEF Protocol!In, Books
  <2> QED
    BY <1>1, <1>2, <2>1 DEF In, Filed, Entry
<1> QED
  BY <1>1, <1>2, <1>3

\* A save enters what it saves.
LEMMA SaveBooks ==
    ASSUME IInv, NEW c \in Client, NEW sr \in RequestDoc, Saves(c, sr)
    PROVE  /\ work[c].req \in Request
           /\ Books' = [Books EXCEPT ![work[c].req] = Entry(sr)]
<1>1. work[c].req \in Request
  BY Holding DEF Saves
<1>2. /\ request'[work[c].req] = sr /\ sr # None
      /\ \A q \in Request \ {work[c].req} : request'[q] = request[q]
  BY <1>1, RowStep DEF Saves
<1>3. \A q \in Request : Booked(q)' = IF q = work[c].req THEN Entry(sr) ELSE Booked(q)
  BY <1>2 DEF Booked, Entry
<1> QED
  BY <1>1, <1>3 DEF Books

\* Nothing is entered twice: a save that changes neither status nor envelope of
\* a request leaves the books as they are.
LEMMA SameEntry ==
    ASSUME IInv, NEW c \in Client, NEW sr \in RequestDoc, Saves(c, sr),
           request[work[c].req] # None, Entry(sr) = Entry(request[work[c].req])
    PROVE  Books' = Books
<1>1. /\ work[c].req \in Request
      /\ Books' = [Books EXCEPT ![work[c].req] = Entry(sr)]
  BY SaveBooks
<1>2. Books[work[c].req] = Entry(sr)
  BY <1>1, BooksShow DEF IInv
<1> QED
  BY <1>1, <1>2 DEF Books

-----------------------------------------------------------------------------
(* The steps of the protocol *)

LEMMA CreateIsStep ==
    ASSUME IInv, NEW c \in Client, CommitCreate(c)
    PROVE  Protocol!Next
<1>1. work[c] # Idle /\ work[c].op = "create" /\ UNCHANGED <<status, executed>>
  BY DEF CommitCreate, Busy
<1>2. PICK sr \in RequestDoc : Saves(c, sr)
  BY <1>1, CommitSaves DEF Commit, CommitAction, CommitLateApproval, Busy
<1>3. PICK r \in Request, v \in Version : r = work[c].req /\ v = work[c].doc
  BY <1>1, Holding
<1>4. Books[r] = None
  BY <1>1, <1>3, Holding, BooksShow DEF IInv
<1>5. /\ Entry(sr) = [status |-> "Draft", version |-> v, envelope |-> None]
  <2>1. work[c].sr.status = "Draft" /\ work[c].sr.envelope = None
    BY <1>1, Holding DEF Unsent
  <2>2. SavedStatus(c) = "Draft"
    BY <1>1, <2>1 DEF SavedStatus
  <2> QED
    BY <1>2, <1>3, <2>1, <2>2 DEF Saves, Entry
<1>6. Books' = [Books EXCEPT ![r] = [status |-> "Draft", version |-> v, envelope |-> None]]
  BY <1>2, <1>3, <1>5, SaveBooks
<1>7. Protocol!Create(r, v)
  BY <1>1, <1>4, <1>6 DEF Protocol!Create, Books
<1> QED
  BY <1>7 DEF Protocol!Next

\* Typing in a form and ticking off a signer are not on the books.
LEMMA FormAndMarkAreStutters ==
    ASSUME IInv, LoadedInv, NEW c \in Client, CommitForm(c) \/ CommitMark(c)
    PROVE  Books' = Books /\ UNCHANGED <<status, executed>>
<1>1. /\ work[c] # Idle /\ work[c].op \in {"save", "mark"} /\ UNCHANGED <<status, executed>>
  BY DEF CommitForm, CommitMark, Busy
<1>2. PICK sr \in RequestDoc : Saves(c, sr)
  BY <1>1, CommitSaves DEF Commit, CommitAction, CommitLateApproval, Busy
<1>3. c \notin lapsed
  BY <1>2 DEF Saves, SaveRequest, RequestLatest
<1>4. PICK r \in Request : r = work[c].req
  BY <1>1, Holding
<1>5. /\ request[r] # None /\ request[r].status = work[c].sr.status
      /\ request[r].version = work[c].doc
  BY <1>1, <1>3, <1>4, Holding
<1>6. request[r].envelope = work[c].sr.envelope
  <2>1. CASE work[c].op = "save"
    <3>1. work[c].sr.status = "Draft" /\ work[c].sr.envelope = None
      BY <1>1, <2>1, Holding DEF Unsent
    <3>2. r \in In("Draft")
      BY <1>5, <3>1 DEF In, Filed
    <3> QED
      BY <3>1, <3>2 DEF IInv, RequestInv, DraftsAreUnsent
  <2>2. CASE work[c].op = "mark"
    BY <1>1, <1>3, <1>4, <2>2 DEF LoadedInv, LoadedOK
  <2> QED
    BY <1>1, <2>1, <2>2
<1>7. Entry(sr) = Entry(request[r])
  <2>1. SavedStatus(c) = work[c].sr.status
    BY <1>1 DEF SavedStatus
  <2> QED
    BY <1>2, <1>5, <1>6, <2>1 DEF Saves, Entry
<1> QED
  BY <1>1, <1>2, <1>4, <1>5, <1>7, SameEntry

LEMMA SendIsStep ==
    ASSUME IInv, LoadedInv, EnvelopesAreOwn, NEW c \in Client, CommitSend(c)
    PROVE  Protocol!Next
<1>1. /\ work[c] # Idle /\ work[c].op = "distributed" /\ work[c].op \in Sending
      /\ SaveVersion(c, work[c].status) /\ executed' = executed
  BY DEF CommitSend, Busy, Sending
<1>2. PICK sr \in RequestDoc : Saves(c, sr)
  BY <1>1, CommitSaves DEF Commit, CommitAction, CommitLateApproval, Busy
<1>3. c \notin lapsed /\ c \notin outdated
  BY <1>1, <1>2 DEF Saves, SaveRequest, RequestLatest, SaveVersion, MaySave, IsLatest
<1>4. PICK r \in Request, v \in Version : r = work[c].req /\ v = work[c].doc
  BY <1>1, Holding
<1>5. PICK e \in Envelope : e = work[c].sr.envelope /\ externalId[e] = r
  BY <1>1, <1>4, Holding DEF Sent, SentOut
<1>6. /\ request[r] # None /\ request[r].status = "Draft" /\ request[r].version = v
      /\ r \in In("Draft")
  BY <1>1, <1>3, <1>4, Holding DEF In, Filed
<1>7. request[r].envelope = None
  BY <1>6 DEF IInv, RequestInv, DraftsAreUnsent
<1>8. r \in Protocol!In("Draft") /\ Books[r] = Entry(request[r])
  BY <1>6, BooksShow DEF IInv
<1>9. \A q \in Protocol!In("Pending") : Books[q].version # Books[r].version
  <2>1. \A q \in In("Pending") : request[q].version # v
    BY <1>1, <1>3, <1>4 DEF IInv, WorkInv, CopyOK, VersionOK
  <2>2. \A q \in Protocol!In("Pending") :
          q \in In("Pending") /\ Books[q] = Entry(request[q])
    BY BooksShow DEF IInv, Protocol!In, In, Filed
  <2>3. \A q : Entry(request[q]).version = request[q].version
    BY DEF Entry
  <2> QED
    BY ONLY <1>6, <1>8, <2>1, <2>2, <2>3
<1>10. \A q \in Request : Books[q] # None => Books[q].envelope # e
  <2> SUFFICES ASSUME NEW q \in Request, Books[q] # None, Books[q].envelope = e
               PROVE  FALSE
    OBVIOUS
  <2>4. request[q] # None /\ Books[q] = Entry(request[q])
    BY BooksShow DEF IInv
  <2>5. request[q].envelope = e
    BY <2>4 DEF Entry
  <2>1. e # None
    BY SigningAssumption
  <2>2. SentOut(request[q], q)
    BY <2>1, <2>4, <2>5 DEF EnvelopesAreOwn, Filed
  <2>3. q = r
    BY <1>5, <2>2, <2>5 DEF SentOut
  <2> QED
    BY <1>7, <2>1, <2>3, <2>5
<1>11. Books' = [Books EXCEPT ![r] = [status |-> "Pending", version |-> Books[r].version,
                                      envelope |-> e]]
  <2>1. SavedStatus(c) = "Pending"
    BY <1>1 DEF SavedStatus
  <2>2. Entry(sr) = [status |-> "Pending", version |-> v, envelope |-> e]
    BY <1>2, <1>4, <1>5, <2>1 DEF Saves, Entry
  <2>3. Books[r].version = v
    BY <1>6, <1>8 DEF Entry
  <2>4. Books' = [Books EXCEPT ![r] = Entry(sr)]
    BY <1>2, <1>4, SaveBooks
  <2> QED
    BY ONLY <2>2, <2>3, <2>4
<1>12. /\ Books[r].version = v /\ status[v] = "Approved"
       /\ status' = [status EXCEPT ![v] = "Signature Requested"]
  <2>1. status' = [status EXCEPT ![work[c].doc] = work[c].status]
    BY <1>1 DEF SaveVersion, WriteVersion
  <2>2. work[c].status = "Signature Requested"
    BY <1>1, Holding
  <2>3. status[v] = "Approved"
    BY <1>1, <1>3, <1>4 DEF LoadedInv, LoadedOK
  <2>4. Books[r].version = v
    BY <1>6, <1>8 DEF Entry
  <2> QED
    BY <1>4, <2>1, <2>2, <2>3, <2>4
<1>13. Protocol!Send(r)
  <2>1. Protocol!Together(r, [status |-> "Pending", version |-> Books[r].version,
                              envelope |-> e],
                          "Approved", "Signature Requested")
    BY <1>11, <1>12 DEF Protocol!Together, Books
  <2> QED
    BY <1>1, <1>8, <1>9, <1>10, <2>1 DEF Protocol!Send, Books
<1> QED
  BY <1>13 DEF Protocol!Next

\* Completing and cancelling what is out: the entry gets another status, and the
\* version moves on from Signature Requested.
LEMMA CloseIsStep ==
    ASSUME IInv, LoadedInv, NEW c \in Client, work[c] # Idle,
           work[c].op \in {"cancel", "complete"}, Commit(c), ~CommitAction(c),
           ~CommitLateApproval(c),
           status[work[c].doc] = "Signature Requested",
           status' = [status EXCEPT ![work[c].doc] = work[c].status],
           NEW s, s = SavedStatus(c)
    PROVE  \E r \in Request :
             /\ r \in Protocol!In("Pending")
             /\ Books[r].version = work[c].doc /\ Books[r].envelope = work[c].sr.envelope
             /\ Protocol!Together(r, [Books[r] EXCEPT !.status = s],
                                  "Signature Requested", work[c].status)
<1>1. PICK sr \in RequestDoc : Saves(c, sr)
  BY CommitSaves
<1>2. c \notin lapsed
  BY <1>1 DEF Saves, SaveRequest, RequestLatest
<1>3. PICK r \in Request : r = work[c].req
  BY Holding
<1>4. /\ request[r] # None /\ request[r].status = "Pending"
      /\ request[r].version = work[c].doc /\ r \in In("Pending")
  BY <1>2, <1>3, Holding DEF In, Filed
<1>5. request[r].envelope = work[c].sr.envelope
  BY <1>2, <1>3 DEF LoadedInv, LoadedOK
<1>6. r \in Protocol!In("Pending") /\ Books[r] = Entry(request[r])
  BY <1>4, BooksShow DEF IInv
<1>7. Books[r] = [status |-> "Pending", version |-> work[c].doc, envelope |-> work[c].sr.envelope]
  BY <1>4, <1>5, <1>6 DEF Entry
<1>8. Entry(sr) = [status |-> s, version |-> work[c].doc, envelope |-> work[c].sr.envelope]
  BY <1>1 DEF Saves, Entry
<1>9. Entry(sr) = [Books[r] EXCEPT !.status = s]
  BY ONLY <1>7, <1>8
<1>10. Books' = [Books EXCEPT ![r] = [Books[r] EXCEPT !.status = s]]
  <2>1. Books' = [Books EXCEPT ![r] = Entry(sr)]
    BY <1>1, <1>3, SaveBooks
  <2> QED
    BY ONLY <1>9, <2>1
<1>11. /\ [Books[r] EXCEPT !.status = s].version = work[c].doc
       /\ Books[r].version = work[c].doc /\ Books[r].envelope = work[c].sr.envelope
  BY ONLY <1>7
<1>12. Protocol!Together(r, [Books[r] EXCEPT !.status = s], "Signature Requested", work[c].status)
  BY <1>10, <1>11 DEF Protocol!Together, Books
<1> QED
  BY <1>6, <1>11, <1>12

LEMMA CompleteIsStep ==
    ASSUME IInv, LoadedInv, NEW c \in Client, CommitComplete(c)
    PROVE  Protocol!Next
<1>1. /\ work[c] # Idle /\ work[c].op = "complete" /\ CompletesFrom(work[c].doc)
      /\ executed' = [executed EXCEPT ![work[c].doc] = work[c].file]
      /\ status' = [status EXCEPT ![work[c].doc] = work[c].status]
  BY DEF CommitComplete, Busy
<1>2. /\ work[c].doc \in Version /\ work[c].status = "Executed"
      /\ work[c].file = work[c].sr.envelope
  BY <1>1, Holding
<1>3. status[work[c].doc] = "Signature Requested"
  BY <1>1, TableEdges DEF CompletesFrom, Outcomes
<1>4. executed[work[c].doc] = None
  <2>1. ASSUME executed[work[c].doc] # None
        PROVE  status[work[c].doc] = "Executed"
    BY <1>2, <2>1 DEF IInv, RequestInv, CompletionIsWhole
  <2> QED
    BY <1>3, <2>1
<1>5. SavedStatus(c) = "Completed"
  BY <1>1 DEF SavedStatus
<1>6. Commit(c) /\ ~CommitAction(c) /\ ~CommitLateApproval(c)
  BY <1>1 DEF Commit, CommitAction, CommitLateApproval, Busy
<1>7. PICK r \in Request :
        /\ r \in Protocol!In("Pending")
        /\ Books[r].version = work[c].doc /\ Books[r].envelope = work[c].sr.envelope
        /\ Protocol!Together(r, [Books[r] EXCEPT !.status = "Completed"],
                             "Signature Requested", "Executed")
  BY <1>1, <1>2, <1>3, <1>5, <1>6, CloseIsStep
<1>8. Protocol!Complete(r)
  BY <1>1, <1>2, <1>4, <1>7 DEF Protocol!Complete, Books
<1> QED
  BY <1>8 DEF Protocol!Next

LEMMA CancelIsStep ==
    ASSUME IInv, LoadedInv, NEW c \in Client, CommitCancel(c)
    PROVE  Protocol!Next
<1>1. /\ work[c] # Idle /\ work[c].op = "cancel" /\ SaveVersion(c, work[c].status)
      /\ executed' = executed
  BY DEF CommitCancel, Busy
<1>2. /\ status' = [status EXCEPT ![work[c].doc] = work[c].status] /\ c \notin outdated
      /\ work[c].status = "Approved"
  BY <1>1, Holding DEF SaveVersion, WriteVersion, MaySave, IsLatest
<1>3. status[work[c].doc] = "Signature Requested"
  BY <1>1, <1>2 DEF LoadedInv, LoadedOK
<1>4. SavedStatus(c) = "Cancelled"
  BY <1>1 DEF SavedStatus
<1>5. Commit(c) /\ ~CommitAction(c) /\ ~CommitLateApproval(c)
  BY <1>1 DEF Commit, CommitAction, CommitLateApproval, Busy
<1>6. PICK r \in Request :
        /\ r \in Protocol!In("Pending")
        /\ Protocol!Together(r, [Books[r] EXCEPT !.status = "Cancelled"],
                             "Signature Requested", "Approved")
  BY <1>1, <1>2, <1>3, <1>4, <1>5, CloseIsStep
<1>7. Protocol!CancelPending(r)
  BY <1>1, <1>6 DEF Protocol!CancelPending, Books
<1> QED
  BY <1>7 DEF Protocol!Next

LEMMA DropIsStep ==
    ASSUME IInv, NEW c \in Client, CommitDrop(c)
    PROVE  Protocol!Next
<1>1. work[c] # Idle /\ work[c].op = "drop" /\ UNCHANGED <<status, executed>>
  BY DEF CommitDrop, Busy
<1>2. PICK sr \in RequestDoc : Saves(c, sr)
  BY <1>1, CommitSaves DEF Commit, CommitAction, CommitLateApproval, Busy
<1>3. c \notin lapsed
  BY <1>2 DEF Saves, SaveRequest, RequestLatest
<1>4. PICK r \in Request : r = work[c].req
  BY <1>1, Holding
<1>5. work[c].sr.status = "Draft" /\ work[c].sr.envelope = None
  BY <1>1, Holding DEF Unsent
<1>6. /\ request[r] # None /\ request[r].status = "Draft"
      /\ request[r].version = work[c].doc /\ r \in In("Draft")
  BY <1>1, <1>3, <1>4, <1>5, Holding DEF In, Filed
<1>7. request[r].envelope = None
  BY <1>6 DEF IInv, RequestInv, DraftsAreUnsent
<1>8. r \in Protocol!In("Draft") /\ Books[r] = Entry(request[r])
  BY <1>6, BooksShow DEF IInv
<1>9. Books[r] = [status |-> "Draft", version |-> work[c].doc, envelope |-> None]
  BY <1>6, <1>7, <1>8 DEF Entry
<1>10. Entry(sr) = [status |-> "Cancelled", version |-> work[c].doc, envelope |-> None]
  <2>1. SavedStatus(c) = "Cancelled"
    BY <1>1 DEF SavedStatus
  <2> QED
    BY <1>2, <1>5, <2>1 DEF Saves, Entry
<1>11. Entry(sr) = [Books[r] EXCEPT !.status = "Cancelled"]
  BY ONLY <1>9, <1>10
<1>12. Books' = [Books EXCEPT ![r].status = "Cancelled"]
  BY <1>2, <1>4, <1>11, SaveBooks
<1>13. Protocol!CancelDraft(r)
  BY <1>1, <1>8, <1>12 DEF Protocol!CancelDraft, Books
<1> QED
  BY <1>13 DEF Protocol!Next

LEMMA ActionIsStep ==
    ASSUME IInv, LoadedInv, NEW c \in Client, CommitAction(c)
    PROVE  Protocol!Next /\ request' = request
<1>1. /\ work[c] # Idle /\ work[c].op = "action" /\ c \notin outdated
      /\ status' = [status EXCEPT ![work[c].doc] = work[c].status]
      /\ UNCHANGED <<request, executed>>
  BY DEF CommitAction, Busy, SaveVersion, MaySave, IsLatest, WriteVersion
<1>2. PICK v \in Version : v = work[c].doc
  BY <1>1, WorkType DEF IInv
<1>3. PICK a \in DeskActions : \E row \in Outcomes(status[v], a) : row.next = work[c].status
  BY <1>1, <1>2 DEF LoadedInv, LoadedOK
<1>4. Books' = Books
  BY <1>1 DEF Books, Booked
<1>5. Protocol!Desk(v, a)
  BY <1>1, <1>2, <1>3, <1>4 DEF Protocol!Desk, Books, Protocol!Outcomes, Outcomes,
     Protocol!WorkflowTable, WorkflowTable, Protocol!Row, Row, Protocol!ReviseRow, ReviseRow
<1> QED
  BY <1>1, <1>5 DEF Protocol!Next

LEMMA LateApprovalIsStep ==
    ASSUME IInv, LoadedInv, NEW c \in Client, CommitLateApproval(c)
    PROVE  Protocol!Next /\ request' = request
<1>1. /\ work[c] # Idle /\ work[c].op = "approve" /\ c \notin outdated
      /\ status' = [status EXCEPT ![work[c].doc] = work[c].status]
      /\ UNCHANGED <<request, executed>>
  BY DEF CommitLateApproval, Busy, SaveVersion, MaySave, IsLatest, WriteVersion
<1>2. PICK v \in Version : v = work[c].doc
  BY <1>1, WorkType DEF IInv
<1>3. CanTransition(status[v], "Approved") /\ work[c].status = "Approved"
  BY <1>1, <1>2 DEF LoadedInv, LoadedOK
<1>4. Books' = Books
  BY <1>1 DEF Books, Booked
<1>5. Protocol!CanTransition(status[v], "Approved")
  BY <1>3 DEF Protocol!CanTransition, CanTransition, Protocol!VERSION_TRANSITIONS,
     VERSION_TRANSITIONS, Protocol!TransitionPairs, TransitionPairs, Protocol!Status, Status
<1>6. Protocol!LateApproval(v)
  BY <1>1, <1>2, <1>3, <1>4, <1>5 DEF Protocol!LateApproval, Books
<1> QED
  BY <1>1, <1>6 DEF Protocol!Next

\* Every step is one of the protocol, or leaves the books alone.
LEMMA ProtocolStep ==
    ASSUME IInv, LoadedInv, EnvelopesAreOwn, [Next]_vars
    PROVE  [Protocol!Next]_<<status, Books, executed>>
<1>1. ASSUME NEW c \in Client, Commit(c)
      PROVE  Protocol!Next \/ (Books' = Books /\ UNCHANGED <<status, executed>>)
  BY <1>1, CreateIsStep, FormAndMarkAreStutters, SendIsStep, CompleteIsStep, CancelIsStep,
     DropIsStep, ActionIsStep, LateApprovalIsStep DEF Commit
<1>2. ASSUME NEW c \in Client,
             Begin(c) \/ CreateEnvelope(c) \/ RefuseSend(c) \/ Distribute(c) \/ Abandon(c)
      PROVE  UNCHANGED <<status, request, executed>>
  BY <1>2 DEF Begin, BeginCreate, OpenRequest, BeginForm, BeginSend, BeginCancel, BeginWebhook,
              BeginMark, BeginAction, BeginLateApproval, CreateEnvelope, RefuseSend, Distribute,
              Abandon, database
<1>3. ASSUME NEW e \in Envelope, Sign(e)
      PROVE  UNCHANGED <<status, request, executed>>
  BY <1>3 DEF Sign, database
<1>4. UNCHANGED vars => UNCHANGED <<status, request, executed>>
  BY DEF vars
<1>5. UNCHANGED <<status, request, executed>> => UNCHANGED <<status, Books, executed>>
  BY DEF Books, Booked
<1> QED
  BY <1>1, <1>2, <1>3, <1>4, <1>5 DEF Next

-----------------------------------------------------------------------------
(* The theorem *)

\* Whatever overlapping, failing and repeated requests leave on the books, the
\* operations of SigningProtocol, one after the other, leave there too.
THEOREM SigningRefinement == Spec => FollowsProtocol
<1>1. Init => Protocol!Init
  BY DEF Init, Protocol!Init, Booked
<1>2. Init => LoadedInv /\ EnvelopesAreOwn
  BY DEF Init, LoadedInv, LoadedOK, EnvelopesAreOwn, Filed
<1>3. IInv /\ LoadedInv /\ EnvelopesAreOwn /\ [Next]_vars
        => [Protocol!Next]_<<status, Books, executed>>
  BY ProtocolStep
<1> QED
  BY <1>1, <1>2, <1>3, NextLoaded, NextOwn, SigningInvariance, PTL
     DEF Spec, FollowsProtocol, Protocol!Spec, Protocol!vars, Books
=============================================================================
