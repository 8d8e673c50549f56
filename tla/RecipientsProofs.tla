--------------------------- MODULE RecipientsProofs ---------------------------
(***************************************************************************)
(* Proofs about the recipients of a request, for any mailboxes and any     *)
(* number of rows.                                                         *)
(***************************************************************************)
EXTENDS Recipients, SequenceTheorems, FiniteSetTheorems, WellFoundedInduction, TLAPS

\* What the validators ask of a table holds as long as the request lives.
RowsAreValid == Valid(rows)

\* Only a draft is being sent.
OnlyDraftsAreSent == step # "idle" => state = "Draft"

\* A row is linked when the request becomes Pending, and marked when it is Completed.
RowsFollowState ==
    \A i \in DOMAIN rows :
        /\ state = "Draft" => rows[i].id = 0
        /\ state # "Completed" => rows[i].status = "Pending"

\* A link leads to a recipient of the envelope.
LinksExist == \A i \in DOMAIN rows : rows[i].id # 0 => rows[i].id \in DOMAIN known

\* An envelope is completed when everybody has signed.
CompletedIsSigned == envelope = "completed" => \A k \in DOMAIN known : known[k].signed

IInv ==
    /\ TypeOK /\ RowsAreValid /\ OnlyDraftsAreSent /\ RowsFollowState /\ LinksExist
    /\ CompletedIsSigned
    /\ SigningOrderIsTotal /\ OneRecipientPerMailbox /\ LinkedIsOwn /\ PendingIsOut
    /\ CompletedMarksLinked

RowRecord == [email : Email, order : Nat, id : Nat, status : {"Pending", "Signed"}]

KnownRecord == [email : Email, order : Nat, signed : BOOLEAN]

-----------------------------------------------------------------------------
(* Lemmas about the operators *)

\* A Documenso answer counts as a success only if its status says so.
LEMMA SuccessIs200 ==
    ASSUME NEW r \in Response, CreateAnswer(r) \/ DistributeAnswer(r)
    PROVE  r.code = "200"
<1>1. IsValue(JSONRequest(r))
  <2>1. PICK b \in Body : JSONRequest(r) = Value(b)
    BY DEF CreateAnswer, DistributeAnswer, Body
  <2> QED  BY <2>1 DEF IsValue, Value
<1>2. \A n : ~IsValue(Raise(n))  BY DEF IsValue, Raise
<1>3. IsValue(Send(r))  BY <1>1, <1>2 DEF JSONRequest
<1>4. r.code \in Code  BY DEF Response
<1> QED  BY <1>2, <1>3, <1>4 DEF Send, Code

\* A function on 1..n is a sequence of length n.
LEMMA SequenceOf ==
    ASSUME NEW S, NEW n \in Nat, NEW f \in [1..n -> S]
    PROVE  /\ f \in Seq(S)
           /\ Len(f) = n
           /\ DOMAIN f = 1..n
BY SeqDef

\* Two addresses fold to the same one exactly if they name the same mailbox.
LEMMA FoldedIsMailbox ==
    ASSUME NEW e \in Email, NEW f \in Email
    PROVE  /\ Folded(e) \in Email
           /\ Folded(e).box = e.box
           /\ Folded(e) = Folded(f) <=> e.box = f.box
<1>1. \A x \in Email : Folded(x) = [box |-> x.box, spelling |-> "lower"]
  BY DEF Folded, Email
<1> QED  BY <1>1 DEF Email

\* In a table with unique and sequential orders every place is exactly one row's.
LEMMA OrdersAreTotal ==
    ASSUME NEW n \in Nat, NEW o \in [1..n -> Nat],
           \A i, j \in 1..n : o[i] = o[j] => i = j,
           {o[i] : i \in 1..n} = 1..n
    PROVE  \A k \in 1..n : Cardinality({i \in 1..n : o[i] = k}) = 1
<1> SUFFICES ASSUME NEW k \in 1..n
             PROVE  Cardinality({i \in 1..n : o[i] = k}) = 1
  OBVIOUS
<1>1. PICK i \in 1..n : o[i] = k
  <2>1. k \in {o[i] : i \in 1..n}
    OBVIOUS
  <2> QED
    BY ONLY <2>1
<1>2. {j \in 1..n : o[j] = k} = {i}  BY <1>1
<1> QED  BY <1>2, FS_Singleton

\* A set of places that is not empty has a last one: the one whose distance from
\* the bound is least.
LEMMA LastExists ==
    ASSUME NEW n \in Nat, NEW S \in SUBSET (1..n), S # {}
    PROVE  \E i \in S : \A j \in S : j <= i
<1> DEFINE D == {n - i : i \in S}
<1>0. S \subseteq Nat /\ \A i \in S : i <= n  OBVIOUS
<1>1. D \subseteq Nat /\ D # {}
  <2>1. \A i \in S : n - i \in Nat  BY <1>0
  <2> QED  BY <2>1
<1> HIDE DEF D
<1>2. PICK d \in D : \A e \in D : <<e, d>> \notin OpToRel(<, Nat)
  BY <1>1, NatLessThanWellFounded, WFMin
<1> USE DEF D
<1>3. \A e \in D : ~(e < d)  BY <1>1, <1>2 DEF OpToRel
<1>4. PICK i \in S : d = n - i  BY <1>2
<1>5. \A j \in S : ~(n - j < n - i)  BY <1>3, <1>4
<1> SUFFICES ASSUME NEW j \in S PROVE j <= i  OBVIOUS
<1>6. i \in Nat /\ j \in Nat /\ ~(n - j < n - i)  BY <1>0, <1>5
<1> QED  BY ONLY <1>6, n \in Nat

\* The answer lists recipients of the envelope only.
LEMMA AnsweredAreKnown ==
    ASSUME NEW r, NEW answered \in Answered(r)
    PROVE  Range(answered) \subseteq DOMAIN known
<1>1. CASE answered \in [DOMAIN known -> DOMAIN known]  BY <1>1 DEF Range
<1>2. CASE answered = <<>>  BY <1>2, EmptySeq DEF Range
<1> QED  BY <1>1, <1>2 DEF Answered

\* A row is linked with a recipient of the envelope that has the row's address.
LEMMA LinkMatches ==
    ASSUME NEW r, NEW answered \in Answered(r), NEW i, Match(answered, i) # {}
    PROVE  /\ Link(answered, i) \in DOMAIN known
           /\ known[Link(answered, i)].email = rows[i].email
<1>1. Link(answered, i) \in Match(answered, i)  BY DEF Link
<1> QED  BY <1>1, AnsweredAreKnown DEF Match

-----------------------------------------------------------------------------
(* The steps *)

LEMMA InitInv == Init => IInv
<1> SUFFICES ASSUME Init PROVE IInv  OBVIOUS
<1>1. rows = <<>> /\ known = <<>> /\ state = "Draft" /\ step = "idle" /\ envelope = "none"
  BY DEF Init
<1>2. DOMAIN rows = {} /\ DOMAIN known = {} /\ Len(rows) = 0  BY <1>1
<1>3. TypeOK  BY DEF Init, TypeOK
<1>4. RowsAreValid
  BY <1>2 DEF RowsAreValid, Valid, EmailsUnique, OrdersUnique, OrdersSequential
<1>5. SigningOrderIsTotal  BY <1>2 DEF SigningOrderIsTotal
<1> QED
  BY <1>1, <1>2, <1>3, <1>4, <1>5
  DEF IInv, OnlyDraftsAreSent, RowsFollowState, LinksExist, CompletedIsSigned,
      OneRecipientPerMailbox, LinkedIsOwn, PendingIsOut, CompletedMarksLinked

\* The envelope's recipients and their orders are those of a valid table.
LEMMA KeptIsSound ==
    ASSUME IInv, NEW folded, known' = Kept(folded)
    PROVE  /\ known' \in Seq(KnownRecord)
           /\ SigningOrderIsTotal'
           /\ OneRecipientPerMailbox'
<1>1. rows \in Seq(RowRecord) /\ Valid(rows)
  BY DEF IInv, TypeOK, RowsAreValid, RowRecord
<1>2. PICK n \in Nat : rows \in [1..n -> RowRecord]  BY <1>1, SeqDef
<1>3. DOMAIN rows = 1..n /\ Len(rows) = n  BY <1>2, SequenceOf
<1>4. /\ \A i \in 1..n : rows[i].email \in Email /\ rows[i].order \in Nat
  BY <1>2 DEF RowRecord
<1>5. /\ DOMAIN known' = 1..n
      /\ known' = [i \in 1..n |-> known'[i]]
      /\ \A i \in 1..n : /\ known'[i] \in KnownRecord
                         /\ known'[i].order = rows[i].order
                         /\ known'[i].email.box = rows[i].email.box
  <2>1. known' = [i \in 1..n |->
                    [email |-> IF i \in folded THEN Folded(rows[i].email) ELSE rows[i].email,
                     order |-> rows[i].order, signed |-> FALSE]]
    BY <1>3 DEF Kept
  <2> QED  BY <2>1, <1>4, FoldedIsMailbox DEF KnownRecord
<1>6. known' \in [1..n -> KnownRecord]  BY <1>5
<1>7. known' \in Seq(KnownRecord)  BY <1>6, SequenceOf
<1>8. SigningOrderIsTotal'
  <2>1. PICK o \in [1..n -> Nat] : \A i \in 1..n : o[i] = rows[i].order
    <3>1. [i \in 1..n |-> rows[i].order] \in [1..n -> Nat]  BY <1>4
    <3> QED  BY <3>1
  <2>2. \A i, j \in 1..n : o[i] = o[j] => i = j
    <3>1. OrdersUnique(rows)
      BY <1>1 DEF Valid
    <3>2. \A i, j \in 1..n : rows[i].order = rows[j].order => i = j
      BY ONLY <3>1, <1>3 DEF OrdersUnique
    <3> QED  BY ONLY <2>1, <3>2
  <2>3. {o[i] : i \in 1..n} = 1..n
    <3>1. {rows[i].order : i \in 1..n} = 1..n
      BY <1>1, <1>3 DEF Valid, OrdersSequential
    <3> QED  BY ONLY <2>1, <3>1
  <2>4. \A k \in 1..n : Cardinality({i \in 1..n : o[i] = k}) = 1
    BY <2>2, <2>3, OrdersAreTotal
  <2> SUFFICES ASSUME NEW k \in 1..n
               PROVE  Cardinality({i \in 1..n : known'[i].order = k}) = 1
    BY <1>5 DEF SigningOrderIsTotal
  <2>5. {i \in 1..n : known'[i].order = k} = {i \in 1..n : o[i] = k}
    BY <1>5, <2>1
  <2> QED  BY <2>4, <2>5
<1>9. OneRecipientPerMailbox'
  <2>1. \A i, j \in 1..n : Folded(rows[i].email) = Folded(rows[j].email) => i = j
    BY <1>1, <1>3 DEF Valid, EmailsUnique
  <2>2. \A i, j \in 1..n : rows[i].email.box = rows[j].email.box => i = j
    BY <2>1, <1>4, FoldedIsMailbox
  <2> QED  BY <2>2, <1>5 DEF OneRecipientPerMailbox
<1> QED  BY <1>7, <1>8, <1>9

\* A table as typed: fresh rows, one after the other.
LEMMA TypedTables ==
    ASSUME NEW t \in Tables
    PROVE  /\ t \in Seq(RowRecord)
           /\ \A i \in DOMAIN t : t[i].id = 0 /\ t[i].status = "Pending"
<1>1. PICK n \in 0..MaxRows :
        t \in [1..n -> {Row(e, o) : e \in Email, o \in 0..(MaxRows + 1)}]
  BY DEF Tables
<1>2. n \in Nat /\ MaxRows \in Nat  BY RecipientsAssumption
<1>3. \A e \in Email, o \in 0..(MaxRows + 1) :
        /\ Row(e, o) \in RowRecord
        /\ Row(e, o).id = 0 /\ Row(e, o).status = "Pending"
  BY <1>2 DEF Row, RowRecord
<1>4. \A i \in 1..n : t[i] \in RowRecord /\ t[i].id = 0 /\ t[i].status = "Pending"
  BY <1>1, <1>3
<1>5. t \in [1..n -> RowRecord]  BY <1>1, <1>4
<1> QED  BY <1>2, <1>4, <1>5, SequenceOf

\* Rewriting IDs and statuses of the rows keeps the table and its validity.
LEMMA RewrittenRows ==
    ASSUME rows \in Seq(RowRecord), Valid(rows),
           NEW t, t = [i \in DOMAIN rows |-> t[i]],
           \A i \in DOMAIN rows : /\ t[i] \in RowRecord
                                  /\ t[i].email = rows[i].email
                                  /\ t[i].order = rows[i].order
    PROVE  t \in Seq(RowRecord) /\ DOMAIN t = DOMAIN rows /\ Valid(t)
<1>1. PICK n \in Nat : rows \in [1..n -> RowRecord]  BY SeqDef
<1>2. DOMAIN rows = 1..n /\ Len(rows) = n  BY <1>1, SequenceOf
<1>3. t \in [1..n -> RowRecord]  BY <1>2
<1>4. t \in Seq(RowRecord) /\ DOMAIN t = 1..n /\ Len(t) = n  BY <1>3, SequenceOf
<1>5. {t[i].order : i \in DOMAIN t} = {rows[i].order : i \in DOMAIN rows}
  <2>1. DOMAIN t = DOMAIN rows  BY <1>2, <1>4
  <2>2. \A i \in DOMAIN rows : t[i].order = rows[i].order  OBVIOUS
  <2> QED  BY ONLY <2>1, <2>2
<1>6. EmailsUnique(t) /\ OrdersUnique(t)
  <2>1. DOMAIN t = DOMAIN rows  BY <1>2, <1>4
  <2>2. \A i \in DOMAIN rows : t[i].email = rows[i].email /\ t[i].order = rows[i].order
    OBVIOUS
  <2>3. EmailsUnique(rows) /\ OrdersUnique(rows)  BY DEF Valid
  <2>4. EmailsUnique(t)  BY ONLY <2>1, <2>2, <2>3 DEF EmailsUnique
  <2>5. OrdersUnique(t)  BY ONLY <2>1, <2>2, <2>3 DEF OrdersUnique
  <2> QED  BY <2>4, <2>5
<1>7. OrdersSequential(t)
  <2>1. {rows[i].order : i \in DOMAIN rows} = 1..n
    BY <1>2 DEF Valid, OrdersSequential
  <2> QED  BY ONLY <1>4, <1>5, <2>1 DEF OrdersSequential
<1> QED  BY <1>2, <1>4, <1>6, <1>7 DEF Valid

\* An ID other than 0 is what a link needs: no recipient is called 0.
LEMMA NobodyIsZero == ASSUME TypeOK PROVE DOMAIN known \subseteq Nat \ {0}
<1>1. known \in Seq(KnownRecord)  BY DEF TypeOK, KnownRecord
<1>2. PICK n \in Nat : known \in [1..n -> KnownRecord]  BY <1>1, SeqDef
<1> QED  BY <1>2

LEMMA SaveFormInv == ASSUME IInv, SaveForm PROVE IInv'
<1>1. rows' \in Tables /\ Valid(rows') /\ state = "Draft"
      /\ UNCHANGED <<state, url, step, envelope, known>>
  BY DEF SaveForm
<1>2. /\ rows' \in Seq(RowRecord)
      /\ \A i \in DOMAIN rows' : rows'[i].id = 0 /\ rows'[i].status = "Pending"
  BY <1>1, TypedTables
<1>3. TypeOK'  BY <1>1, <1>2 DEF IInv, TypeOK, RowRecord
<1> QED
  BY <1>1, <1>2, <1>3
  DEF IInv, RowsAreValid, OnlyDraftsAreSent, RowsFollowState, LinksExist, CompletedIsSigned,
      SigningOrderIsTotal, OneRecipientPerMailbox, LinkedIsOwn, PendingIsOut,
      CompletedMarksLinked

LEMMA BeginSendInv == ASSUME IInv, BeginSend PROVE IInv'
BY DEF BeginSend, IInv, TypeOK, RowsAreValid, OnlyDraftsAreSent, RowsFollowState,
       LinksExist, CompletedIsSigned, SigningOrderIsTotal, OneRecipientPerMailbox,
       LinkedIsOwn, PendingIsOut, CompletedMarksLinked

\* A draft's rows are unlinked, so another envelope cannot take a link away.
LEMMA CreateEnvelopeInv == ASSUME IInv, CreateEnvelope PROVE IInv'
<1>1. /\ step = "create" /\ state = "Draft"
      /\ UNCHANGED <<state, rows, url>>
      /\ step' \in {"distribute", "idle"}
  BY DEF CreateEnvelope, IInv, OnlyDraftsAreSent
<1>2. \A i \in DOMAIN rows : rows[i].id = 0 /\ rows[i].status = "Pending"
  BY <1>1 DEF IInv, RowsFollowState
<1>3. /\ known' \in Seq(KnownRecord)
      /\ SigningOrderIsTotal' /\ OneRecipientPerMailbox' /\ CompletedIsSigned'
      /\ envelope' \in {"none", "draft", "live", "completed"}
  <2>1. CASE envelope' = "draft" /\ \E folded \in SUBSET (DOMAIN rows) : known' = Kept(folded)
    BY <2>1, KeptIsSound DEF CompletedIsSigned
  <2>2. CASE UNCHANGED <<envelope, known>>
    BY <2>2 DEF IInv, TypeOK, KnownRecord, SigningOrderIsTotal, OneRecipientPerMailbox,
                CompletedIsSigned
  <2> QED  BY <2>1, <2>2 DEF CreateEnvelope
<1>4. TypeOK'  BY <1>1, <1>3 DEF IInv, TypeOK, KnownRecord
<1>5. RowsAreValid' /\ RowsFollowState'
  BY <1>1 DEF IInv, RowsAreValid, RowsFollowState
<1> QED
  BY <1>1, <1>2, <1>3, <1>4, <1>5
  DEF IInv, OnlyDraftsAreSent, LinksExist, LinkedIsOwn, PendingIsOut, CompletedMarksLinked

\* A success links rows with recipients of the same address; a failure changes
\* no row.
LEMMA DistributeInv == ASSUME IInv, Distribute PROVE IInv'
<1>1. /\ step = "distribute" /\ state = "Draft" /\ step' = "idle"
      /\ known' = known
      /\ TypeOK
  BY DEF Distribute, IInv, OnlyDraftsAreSent
<1>2. \A i \in DOMAIN rows : rows[i].id = 0 /\ rows[i].status = "Pending"
  BY <1>1 DEF IInv, RowsFollowState
<1>3. PICK r \in Response :
        /\ envelope' \in {"live"} \union (IF r.code = "200" THEN {} ELSE {envelope})
        /\ \/ /\ DistributeAnswer(r)
              /\ state' = "Pending"
              /\ \E answered \in Answered(r) : LinkRows(answered) /\ LinkURL(answered)
           \/ UNCHANGED <<state, rows, url>>
  BY DEF Distribute
<1>4. envelope' \in {"live", envelope}  BY <1>3
<1>5. CompletedIsSigned'  BY <1>1, <1>4 DEF IInv, CompletedIsSigned
<1>6. SigningOrderIsTotal' /\ OneRecipientPerMailbox'
  BY <1>1 DEF IInv, SigningOrderIsTotal, OneRecipientPerMailbox
<1>7. CASE UNCHANGED <<state, rows, url>>
  <2>1. TypeOK'  BY <1>1, <1>4, <1>7 DEF TypeOK
  <2> QED
    BY <1>1, <1>2, <1>5, <1>6, <1>7, <2>1
    DEF IInv, RowsAreValid, OnlyDraftsAreSent, RowsFollowState, LinksExist, LinkedIsOwn,
        PendingIsOut, CompletedMarksLinked
<1>8. CASE DistributeAnswer(r) /\ state' = "Pending"
           /\ \E answered \in Answered(r) : LinkRows(answered) /\ LinkURL(answered)
  <2>1. envelope' = "live"  BY <1>3, <1>8, SuccessIs200
  <2>2. PICK answered \in Answered(r) : LinkRows(answered) /\ LinkURL(answered)  BY <1>8
  <2>3. rows \in Seq(RowRecord) /\ Valid(rows)
    BY DEF IInv, TypeOK, RowRecord, RowsAreValid
  <2>4. \A i \in DOMAIN rows : rows[i] \in RowRecord
    <3>1. PICK n \in Nat : rows \in [1..n -> RowRecord]  BY <2>3, SeqDef
    <3> QED  BY <3>1
  <2>5. /\ rows' = [i \in DOMAIN rows |-> rows'[i]]
        /\ \A i \in DOMAIN rows :
             rows'[i] = [rows[i] EXCEPT !.id = IF Match(answered, i) = {} THEN @
                                               ELSE Link(answered, i)]
    BY <2>2 DEF LinkRows
  <2>6. \A i \in DOMAIN rows :
          /\ rows'[i] \in RowRecord
          /\ rows'[i].email = rows[i].email
          /\ rows'[i].order = rows[i].order
          /\ rows'[i].status = "Pending"
          /\ rows'[i].id # 0 => /\ rows'[i].id \in DOMAIN known
                                /\ known[rows'[i].id].email = rows[i].email
    <3> SUFFICES ASSUME NEW i \in DOMAIN rows
                 PROVE  /\ rows'[i] \in RowRecord
                        /\ rows'[i].email = rows[i].email
                        /\ rows'[i].order = rows[i].order
                        /\ rows'[i].status = "Pending"
                        /\ rows'[i].id # 0 => /\ rows'[i].id \in DOMAIN known
                                              /\ known[rows'[i].id].email = rows[i].email
      OBVIOUS
    <3>1. rows[i] \in RowRecord /\ rows[i].id = 0 /\ rows[i].status = "Pending"
      BY <1>2, <2>4
    <3>2. CASE Match(answered, i) = {}
      BY <3>1, <3>2, <2>5 DEF RowRecord
    <3>3. CASE Match(answered, i) # {}
      <4>1. /\ Link(answered, i) \in DOMAIN known
            /\ known[Link(answered, i)].email = rows[i].email
        BY <3>3, LinkMatches
      <4>2. Link(answered, i) \in Nat  BY <4>1, <1>1, NobodyIsZero
      <4>3. rows'[i] = [rows[i] EXCEPT !.id = Link(answered, i)]  BY <3>3, <2>5
      <4> QED  BY <3>1, <4>1, <4>2, <4>3 DEF RowRecord
    <3> QED  BY <3>2, <3>3
  <2>7. rows' \in Seq(RowRecord) /\ DOMAIN rows' = DOMAIN rows /\ Valid(rows')
    BY ONLY <2>3, <2>5, <2>6, RewrittenRows
  <2>8. url' \in Mailbox \union {None}
    <3>1. \A i \in DOMAIN rows : rows[i].email.box \in Mailbox
      BY <2>4 DEF RowRecord, Email
    <3>2. DOMAIN rows \subseteq Nat /\ \E n \in Nat : DOMAIN rows = 1..n
      BY <2>3, SeqDef
    <3> DEFINE matched == {i \in DOMAIN rows : Match(answered, i) # {}}
    <3>3. matched # {} => \E i \in matched : \A j \in matched : j <= i
      <4>1. PICK n \in Nat : DOMAIN rows = 1..n  BY <3>2
      <4>2. matched \subseteq 1..n  BY <4>1
      <4> HIDE DEF matched
      <4> QED  BY <4>2, LastExists
    <3>4. url \in Mailbox \union {None}  BY <1>1 DEF TypeOK
    <3> QED  BY <2>2, <3>1, <3>3, <3>4 DEF LinkURL
  <2>9. TypeOK'
    BY <1>1, <1>8, <2>1, <2>7, <2>8 DEF TypeOK, RowRecord
  <2> QED
    BY <1>1, <1>5, <1>6, <1>8, <2>1, <2>6, <2>7, <2>9
    DEF IInv, RowsAreValid, OnlyDraftsAreSent, RowsFollowState, LinksExist, LinkedIsOwn,
        PendingIsOut, CompletedMarksLinked
<1> QED  BY <1>3, <1>7, <1>8

\* External: signing changes nothing but who has signed.
LEMMA SignInv == ASSUME IInv, NEW k \in DOMAIN known, Sign(k) PROVE IInv'
<1>1. /\ known' = [known EXCEPT ![k].signed = TRUE]
      /\ envelope = "live"
      /\ envelope' = IF \A j \in DOMAIN known : known'[j].signed THEN "completed" ELSE "live"
      /\ UNCHANGED <<state, rows, url, step>>
  BY DEF Sign
<1>2. known \in Seq(KnownRecord)  BY DEF IInv, TypeOK, KnownRecord
<1>3. PICK n \in Nat : known \in [1..n -> KnownRecord]  BY <1>2, SeqDef
<1>4. /\ known' \in [1..n -> KnownRecord]
      /\ DOMAIN known = 1..n /\ DOMAIN known' = 1..n
      /\ \A j \in 1..n : /\ known'[j].email = known[j].email
                         /\ known'[j].order = known[j].order
  BY <1>1, <1>3 DEF KnownRecord
<1>5. known' \in Seq(KnownRecord)  BY <1>4, SequenceOf
<1>6. TypeOK'  BY <1>1, <1>5 DEF IInv, TypeOK, KnownRecord
<1>7. SigningOrderIsTotal'
  <2> SUFFICES ASSUME NEW p \in 1..n
               PROVE  Cardinality({i \in 1..n : known'[i].order = p}) = 1
    BY <1>4 DEF SigningOrderIsTotal
  <2>1. \A i \in 1..n : known'[i].order = known[i].order
    BY ONLY <1>4
  <2>2. {i \in 1..n : known'[i].order = p} = {i \in 1..n : known[i].order = p}
    BY ONLY <2>1
  <2>3. Cardinality({i \in 1..n : known[i].order = p}) = 1
    BY <1>4 DEF IInv, SigningOrderIsTotal
  <2> QED  BY ONLY <2>2, <2>3
<1>8. OneRecipientPerMailbox'  BY <1>4 DEF IInv, OneRecipientPerMailbox
<1>9. CompletedIsSigned'  BY <1>1, <1>4 DEF CompletedIsSigned
<1>10. LinksExist' /\ LinkedIsOwn'  BY <1>1, <1>4 DEF IInv, LinksExist, LinkedIsOwn
<1> QED
  BY <1>1, <1>6, <1>7, <1>8, <1>9, <1>10
  DEF IInv, RowsAreValid, OnlyDraftsAreSent, RowsFollowState, PendingIsOut,
      CompletedMarksLinked

\* The envelope is completed, so whoever is linked has signed and is marked.
LEMMA CompleteInv == ASSUME IInv, Complete PROVE IInv'
<1>1. /\ state = "Pending" /\ envelope = "completed" /\ state' = "Completed"
      /\ UNCHANGED <<url, step, envelope, known>>
      /\ TypeOK
  BY DEF Complete, IInv
<1>2. /\ rows' = [i \in DOMAIN rows |-> rows'[i]]
      /\ \A i \in DOMAIN rows :
           rows'[i] = [rows[i] EXCEPT !.status = IF SignedInPayload(i) THEN "Signed" ELSE @]
  BY DEF Complete, Marked
<1>3. rows \in Seq(RowRecord) /\ Valid(rows)
  BY DEF IInv, TypeOK, RowRecord, RowsAreValid
<1>4. \A i \in DOMAIN rows : rows[i] \in RowRecord
  <2>1. PICK n \in Nat : rows \in [1..n -> RowRecord]  BY <1>3, SeqDef
  <2> QED  BY <2>1
<1>5. \A i \in DOMAIN rows : SignedInPayload(i) <=> rows[i].id # 0
  BY <1>1, NobodyIsZero DEF SignedInPayload, IInv, LinksExist, CompletedIsSigned
<1>6. \A i \in DOMAIN rows : rows[i].status = "Pending"
  BY <1>1 DEF IInv, RowsFollowState
<1>7. \A i \in DOMAIN rows :
        /\ rows'[i] \in RowRecord
        /\ rows'[i].email = rows[i].email
        /\ rows'[i].order = rows[i].order
        /\ rows'[i].id = rows[i].id
        /\ rows'[i].status = "Signed" <=> rows[i].id # 0
  BY <1>2, <1>4, <1>5, <1>6 DEF RowRecord
<1>8. rows' \in Seq(RowRecord) /\ DOMAIN rows' = DOMAIN rows /\ Valid(rows')
  BY ONLY <1>2, <1>3, <1>7, RewrittenRows
<1>9. TypeOK'  BY <1>1, <1>8 DEF TypeOK, RowRecord
<1>10. SigningOrderIsTotal' /\ OneRecipientPerMailbox' /\ CompletedIsSigned'
  BY <1>1 DEF IInv, SigningOrderIsTotal, OneRecipientPerMailbox, CompletedIsSigned
<1>11. LinksExist' /\ LinkedIsOwn'
  BY <1>1, <1>7, <1>8 DEF IInv, LinksExist, LinkedIsOwn
<1> QED
  BY <1>1, <1>7, <1>8, <1>9, <1>10, <1>11
  DEF IInv, RowsAreValid, OnlyDraftsAreSent, RowsFollowState, PendingIsOut,
      CompletedMarksLinked

LEMMA NextInv == ASSUME IInv, [Next]_vars PROVE IInv'
<1>1. CASE SaveForm  BY <1>1, SaveFormInv
<1>2. CASE BeginSend  BY <1>2, BeginSendInv
<1>3. CASE CreateEnvelope  BY <1>3, CreateEnvelopeInv
<1>4. CASE Distribute  BY <1>4, DistributeInv
<1>5. CASE Complete  BY <1>5, CompleteInv
<1>6. CASE \E k \in DOMAIN known : Sign(k)  BY <1>6, SignInv
<1>7. CASE UNCHANGED vars
  BY <1>7 DEF vars, IInv, TypeOK, RowsAreValid, OnlyDraftsAreSent, RowsFollowState,
              LinksExist, CompletedIsSigned, SigningOrderIsTotal, OneRecipientPerMailbox,
              LinkedIsOwn, PendingIsOut, CompletedMarksLinked
<1> QED  BY <1>1, <1>2, <1>3, <1>4, <1>5, <1>6, <1>7 DEF Next

-----------------------------------------------------------------------------
(* The theorems *)

\* The inductive invariant: the table stays valid, only drafts are sent, links
\* lead to recipients of the last envelope, and a completed envelope is signed.
THEOREM RecipientsInvariance == Spec => []IInv
BY InitInv, NextInv, PTL DEF Spec

\* Every variable has its type.
THEOREM RecipientsTypeCorrect == Spec => []TypeOK
<1>1. IInv => TypeOK  BY DEF IInv
<1> QED  BY <1>1, RecipientsInvariance, PTL

\* The two validators of the signing order leave Documenso no gap and no tie.
THEOREM OrderIsTotal == Spec => []SigningOrderIsTotal
<1>1. IInv => SigningOrderIsTotal  BY DEF IInv
<1> QED  BY <1>1, RecipientsInvariance, PTL

\* validate_unique_signer_emails folds addresses, so no mailbox is asked twice.
THEOREM NobodyAskedTwice == Spec => []OneRecipientPerMailbox
<1>1. IInv => OneRecipientPerMailbox  BY DEF IInv
<1> QED  BY <1>1, RecipientsInvariance, PTL

\* _apply_recipient_metadata links a row with its own recipient, whatever the
\* order of the answer.
THEOREM LinkIsOwn == Spec => []LinkedIsOwn
<1>1. IInv => LinkedIsOwn  BY DEF IInv
<1> QED  BY <1>1, RecipientsInvariance, PTL

\* No failure of the provider makes a request Pending.
THEOREM PendingHasGoneOut == Spec => []PendingIsOut
<1>1. IInv => PendingIsOut  BY DEF IInv
<1> QED  BY <1>1, RecipientsInvariance, PTL

\* Completion marks the linked rows, and no others.
THEOREM CompletionMarksLinked == Spec => []CompletedMarksLinked
<1>1. IInv => CompletedMarksLinked  BY DEF IInv
<1> QED  BY <1>1, RecipientsInvariance, PTL
=============================================================================
