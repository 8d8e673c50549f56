----------------------------- MODULE Recipients -----------------------------
(***************************************************************************)
(* The recipients of one signature request: entered in the form, sent to   *)
(* Documenso, linked with what it answers, marked by the webhook, and the  *)
(* link the portal offers the counterparty.  How such requests overlap is  *)
(* the subject of Signing.                                                 *)
(***************************************************************************)
EXTENDS DocumensoClient, Sequences, Naturals, FiniteSets, Functions

CONSTANTS Mailbox,        \* e-mail accounts
          Counterparty,   \* the account of the counterparty's portal user
          MaxRows,        \* bound of the model: recipients of a request
          None

ASSUME RecipientsAssumption ==
    Counterparty \in Mailbox /\ None \notin Mailbox /\ MaxRows \in Nat

VARIABLES state,      \* status of the signature request
          rows,       \* its recipients, in the order of the table
          url,        \* whose signing URL is in signing_url
          step,       \* how far send_signature_request is
          envelope,   \* status of the envelope of the last sending
          known       \* known[i]: the recipient Documenso calls i

vars == <<state, rows, url, step, envelope, known>>

\* Documenso may store an address in lower case.
Email == [box : Mailbox, spelling : {"typed", "lower"}]

\* strip().lower()
Folded(email) == [email EXCEPT !.spelling = "lower"]

Row(email, order) == [email |-> email, order |-> order, id |-> 0, status |-> "Pending"]

\* What may be typed into the table, wrong orders included.
Tables == UNION {[1..n -> {Row(e, o) : e \in Email, o \in 0..(MaxRows + 1)}] : n \in 0..MaxRows}

Init ==
    /\ state = "Draft"
    /\ rows = <<>>
    /\ url = None
    /\ step = "idle"
    /\ envelope = "none"
    /\ known = <<>>

-----------------------------------------------------------------------------
(* The validators of every save *)

EmailsUnique_Raw(t) == \A i, j \in DOMAIN t : t[i].email = t[j].email => i = j

\* validate_unique_signer_emails.  (The mutant compares without folding.)
EmailsUnique(t) == \A i, j \in DOMAIN t : Folded(t[i].email) = Folded(t[j].email) => i = j

\* validate_unique_signing_order.
OrdersUnique(t) == \A i, j \in DOMAIN t : t[i].order = t[j].order => i = j

OrdersSequential_Loose(t) == \A i \in DOMAIN t : t[i].order <= Len(t)

\* validate_signing_order_sequence.  (The mutant only looks for an order that is
\* too high.)
OrdersSequential(t) == {t[i].order : i \in DOMAIN t} = 1..Len(t)

Valid(t) == EmailsUnique(t) /\ OrdersUnique(t) /\ OrdersSequential(t)

\* Saving the form of a draft.
SaveForm ==
    /\ state = "Draft" /\ step = "idle"
    /\ rows' \in {t \in Tables : Valid(t)}
    /\ UNCHANGED <<state, url, step, envelope, known>>

-----------------------------------------------------------------------------
(* send_signature_request *)

BeginSend ==
    /\ state = "Draft" /\ step = "idle"
    /\ rows # <<>>
    /\ step' = "create"
    /\ UNCHANGED <<state, rows, url, envelope, known>>

\* _build_documenso_payload, as Documenso keeps it when it folds some addresses.
Kept(folded) ==
    [i \in DOMAIN rows |-> [email |-> IF i \in folded THEN Folded(rows[i].email) ELSE rows[i].email,
                            order |-> rows[i].order, signed |-> FALSE]]

\* Documenso did what it was asked if it says so, and perhaps if it does not.
CreateEnvelope ==
    /\ step = "create"
    /\ \E r \in Response :
         /\ step' = IF CreateAnswer(r) THEN "distribute" ELSE "idle"
         /\ \/ /\ envelope' = "draft"
               /\ \E folded \in SUBSET (DOMAIN rows) : known' = Kept(folded)
            \/ /\ r.code # "200"
               /\ UNCHANGED <<envelope, known>>
    /\ UNCHANGED <<state, rows, url>>

\* The answer lists Documenso's recipients in some order, or none at all.
Answered(r) ==
    IF Send(r) = Value("object")
    THEN {p \in [DOMAIN known -> DOMAIN known] : IsInjective(p)} ELSE {<<>>}

\* email_map: the recipient of the answer with the address of row i, as written.
Match(answered, i) == {k \in Range(answered) : known[k].email = rows[i].email}

Link_ByPosition(answered, i) == answered[i]

\* _apply_recipient_metadata.  (The mutant takes the answer in its order.)
Link(answered, i) == CHOOSE k \in Match(answered, i) : TRUE

LinkRows(answered) ==
    rows' = [i \in DOMAIN rows |->
                [rows[i] EXCEPT !.id = IF Match(answered, i) = {} THEN @ ELSE Link(answered, i)]]

\* The request has one signing_url: of the last row that matches.
LinkURL(answered) ==
    LET matched == {i \in DOMAIN rows : Match(answered, i) # {}} IN
    url' = IF matched = {} THEN url ELSE rows[CHOOSE i \in matched : \A j \in matched : j <= i].email.box

Distribute ==
    /\ step = "distribute"
    /\ step' = "idle"
    /\ \E r \in Response :
         /\ envelope' \in {"live"} \union (IF r.code = "200" THEN {} ELSE {envelope})
         /\ \/ /\ DistributeAnswer(r)
               /\ state' = "Pending"
               /\ \E answered \in Answered(r) : LinkRows(answered) /\ LinkURL(answered)
            \/ UNCHANGED <<state, rows, url>>
    /\ UNCHANGED known

-----------------------------------------------------------------------------
(* Signing and completion *)

\* External: a recipient signs, the last one completes the envelope.
Sign(i) ==
    /\ envelope = "live"
    /\ ~known[i].signed
    /\ known' = [known EXCEPT ![i].signed = TRUE]
    /\ envelope' = IF \A j \in DOMAIN known : known'[j].signed THEN "completed" ELSE "live"
    /\ UNCHANGED <<state, rows, url, step>>

SignedInPayload_All(i) == i \in DOMAIN rows

\* The recipients of the webhook's payload in signingStatus SIGNED, by their IDs.
\* (The mutant marks every row when the document is completed.)
SignedInPayload(i) == rows[i].id \in DOMAIN known /\ known[rows[i].id].signed

Marked_Theirs == "SIGNED"

\* _mark_signature_recipient_signed.  (The mutant stores Documenso's word.)
Marked == "Signed"

\* process_document_completed.
Complete ==
    /\ state = "Pending" /\ envelope = "completed"
    /\ state' = "Completed"
    /\ rows' = [i \in DOMAIN rows |->
                   [rows[i] EXCEPT !.status = IF SignedInPayload(i) THEN Marked ELSE @]]
    /\ UNCHANGED <<url, step, envelope, known>>

Next ==
    \/ SaveForm \/ BeginSend \/ CreateEnvelope \/ Distribute \/ Complete
    \/ \E i \in DOMAIN known : Sign(i)

Spec == Init /\ [][Next]_vars

-----------------------------------------------------------------------------
(* The portal *)

\* get_contract_detail: the counterparty's row, compared after strip().lower().
OwnRows == {i \in DOMAIN rows : rows[i].email.box = Counterparty}

\* The owner of the signing URL the portal offers, None if it offers none.
OfferedURL ==
    IF state = "Pending" /\ \E i \in OwnRows : rows[i].status = "Pending" THEN url ELSE None

-----------------------------------------------------------------------------
(* Properties *)

\* Every variable has its type.
TypeOK ==
    /\ state \in {"Draft", "Pending", "Completed"}
    /\ rows \in Seq([email : Email, order : Nat, id : Nat, status : {"Pending", "Signed"}])
    /\ url \in Mailbox \union {None}
    /\ step \in {"idle", "create", "distribute"}
    /\ envelope \in {"none", "draft", "live", "completed"}
    /\ known \in Seq([email : Email, order : Nat, signed : BOOLEAN])

\* Whatever is typed into the table, Documenso is given a signing order in which
\* every place from the first to the last is somebody's, and nobody shares one.
SigningOrderIsTotal ==
    \A k \in DOMAIN known : Cardinality({i \in DOMAIN known : known[i].order = k}) = 1

\* Nobody is asked twice: two recipients of an envelope never share a mailbox,
\* not even when it is spelled differently.
OneRecipientPerMailbox ==
    \A i, j \in DOMAIN known : known[i].email.box = known[j].email.box => i = j

\* A row is linked with the recipient Documenso has for its own mailbox, in
\* whatever order the answer lists them.
LinkedIsOwn ==
    \A i \in DOMAIN rows : rows[i].id # 0 => known[rows[i].id].email.box = rows[i].email.box

\* A request becomes Pending only if Documenso has sent the envelope out: no
\* time-out, error answer or unexpected body is taken for success.
PendingIsOut == state = "Pending" => envelope \in {"live", "completed"}

\* A completed request shows exactly its linked recipients as signed: a row left
\* unlinked, its address folded by Documenso or missing in the answer, stays
\* Pending although its owner has signed.
CompletedMarksLinked ==
    state = "Completed" => \A i \in DOMAIN rows : rows[i].status = "Signed" <=> rows[i].id # 0

\* "Only surface the URL belonging to this counterparty": the link the portal
\* offers is that of the counterparty's own recipient.
OfferedURLIsOwn == OfferedURL \in {None, Counterparty}
=============================================================================
