--------------------------- MODULE ApprovalsProofs ---------------------------
(***************************************************************************)
(* Proofs of the properties of Approvals, for any set of versions, of      *)
(* approvers and of clients, and any number of rounds.                     *)
(***************************************************************************)
EXTENDS Approvals, VersionWorkflowProofs, SequenceTheorems

\* An approval that waits for its decision is the last one of its approver.
PendingIsLast ==
    \A v \in Version, u \in User : \A i \in Open(v, u) : i = Len(rows[v][u])

RoundsBounded == \A v \in Version, u \in User : Len(rows[v][u]) <= MaxRounds

Past == {"Approved", "Signature Requested", "Executed", "Superseded"}

\* A review that all have approved is over, and no workflow action reopens it.
UnanimousIsPast == \A v \in Version : Submitted(v) /\ Unanimous(v) => status[v] \in Past

OneIsCurrent == \E v \in Version : current = {v}

\* The following are about the copy w of a client c.  The version it holds has
\* not become current behind its back; a form that unticks the box of the current
\* version has seen no other.
FlagOK(c, w) ==
    (c \notin outdated /\ w.op \in {"submit", "action", "conclude"} /\ w.doc \in current)
        => w.current \/ w.seen = {w.doc}

\* The version about to be submitted is a Draft without open approvals.
SubmitOK(c, w) ==
    w.op = "submit" =>
        /\ w.status = "Under Review"
        /\ c \notin outdated =>
             /\ status[w.doc] = "Draft"
             /\ \A u \in User : Open(w.doc, u) = {} /\ Len(rows[w.doc][u]) < MaxRounds

\* As long as the contract is as it was loaded, nobody has decided anything: the
\* approval is open, the roster as loaded, and not all the others have approved.
DecisionOK(c, w) ==
    (w.op \in {"decide", "conclude"} /\ c \notin stale) =>
        /\ w.row \in Open(w.doc, w.user)
        /\ w.review = review
        /\ w.op = "decide" => w.status = "Approved" /\ ~AllApproved(w.doc, w.user, w.row)

\* As long as the version is as it was loaded, it may be moved; and if the
\* contract is too, all the others have approved.
ConcludeOK(c, w) ==
    (w.op = "conclude" /\ c \notin outdated) =>
        /\ CanTransition(status[w.doc], w.status)
        /\ (w.status = "Approved" /\ c \notin stale) => AllApproved(w.doc, w.user, w.row)

ContractOK(c, w) == (w.op = "contract" /\ c \notin stale) => w.review = review

CopyOK(c, w) ==
    FlagOK(c, w) /\ SubmitOK(c, w) /\ DecisionOK(c, w) /\ ConcludeOK(c, w) /\ ContractOK(c, w)

WorkInv == \A c \in Client : work[c] # Idle => CopyOK(c, work[c])

RowsInv == PendingIsLast /\ RoundsBounded /\ UnanimousIsPast /\ ApprovedByAll

IInv == TypeOK /\ OneIsCurrent /\ RowsInv /\ WorkInv

Work == VersionWork \union DecisionWork \union ContractWork

-----------------------------------------------------------------------------
(* The approval rows *)

\* create_for_version: a pending row after those of u.
LEMMA AppendRow ==
    ASSUME TypeOK, NEW v \in Version, NEW u \in User
    PROVE  LET s == Append(rows[v][u], "Pending") IN
           /\ s \in Seq(ApprovalStatus)
           /\ Len(s) = Len(rows[v][u]) + 1
           /\ DOMAIN s = 1..Len(s)
           /\ s[Len(s)] = "Pending"
           /\ \A j \in DOMAIN rows[v][u] : j \in DOMAIN s /\ s[j] = rows[v][u][j]
<1>1. rows[v][u] \in Seq(ApprovalStatus) /\ "Pending" \in ApprovalStatus
  BY DEF TypeOK, ApprovalStatus
<1>2. DOMAIN rows[v][u] = 1..Len(rows[v][u]) /\ Len(rows[v][u]) \in Nat
  BY <1>1, LenProperties
<1> QED
  BY ONLY <1>1, <1>2, AppendProperties

\* DOMAIN and type of the rows of one approver.
LEMMA RowsType ==
    ASSUME TypeOK, NEW v \in Version, NEW u \in User
    PROVE  /\ rows[v][u] \in Seq(ApprovalStatus)
           /\ Len(rows[v][u]) \in Nat
           /\ DOMAIN rows[v][u] = 1..Len(rows[v][u])
           /\ \A i \in DOMAIN rows[v][u] : rows[v][u][i] \in ApprovalStatus
<1>1. rows[v][u] \in Seq(ApprovalStatus)
  BY DEF TypeOK
<1> QED
  BY <1>1, LenProperties, ElementOfSeq

\* A blind write of one row that exists.
LEMMA WriteRow ==
    ASSUME TypeOK, NEW v \in Version, NEW u \in User, NEW i \in DOMAIN rows[v][u],
           NEW s \in ApprovalStatus, rows' = [rows EXCEPT ![v][u][i] = s]
    PROVE  /\ rows' \in [Version -> [User -> Seq(ApprovalStatus)]]
           /\ \A w \in Version, x \in User :
                /\ DOMAIN rows'[w][x] = DOMAIN rows[w][x]
                /\ Len(rows'[w][x]) = Len(rows[w][x])
                /\ \A j \in DOMAIN rows[w][x] :
                     rows'[w][x][j] = IF w = v /\ x = u /\ j = i THEN s ELSE rows[w][x][j]
<1> DEFINE t == [rows[v][u] EXCEPT ![i] = s]
<1>1. rows[v][u] \in Seq(ApprovalStatus) /\ i \in 1..Len(rows[v][u])
  BY RowsType
<1>2. /\ t \in Seq(ApprovalStatus) /\ Len(t) = Len(rows[v][u]) /\ DOMAIN t = DOMAIN rows[v][u]
      /\ \A j \in DOMAIN rows[v][u] : t[j] = IF j = i THEN s ELSE rows[v][u][j]
  BY <1>1, ExceptSeq, RowsType
<1>3. \A w \in Version, x \in User :
          rows'[w][x] = IF w = v /\ x = u THEN t ELSE rows[w][x]
  BY DEF TypeOK
<1>4. rows' \in [Version -> [User -> Seq(ApprovalStatus)]]
  <2>1. rows' = [rows EXCEPT ![v] = [rows[v] EXCEPT ![u] = t]]
    OBVIOUS
  <2> HIDE DEF t
  <2>2. [rows[v] EXCEPT ![u] = t] \in [User -> Seq(ApprovalStatus)]
    BY <1>2 DEF TypeOK
  <2> QED
    BY <2>1, <2>2 DEF TypeOK
<1> HIDE DEF t
<1> QED
  BY <1>2, <1>3, <1>4

-----------------------------------------------------------------------------
(* What a step does to the copies *)

LEMMA InitInv == Init => IInv
<1> SUFFICES ASSUME Init PROVE IInv
  OBVIOUS
<1>1. TypeOK
  <2>1. <<>> \in Seq(ApprovalStatus)
    BY EmptySeq
  <2> QED
    BY <2>1 DEF Init, TypeOK, Status, ApprovalStatus
<1>2. \A v \in Version, u \in User :
         rows[v][u] = <<>> /\ DOMAIN rows[v][u] = {} /\ Len(rows[v][u]) = 0
  BY DEF Init
<1>3. RowsInv
  BY <1>2, MaxRoundsAssumption
     DEF Init, RowsInv, PendingIsLast, Open, RoundsBounded, UnanimousIsPast, Submitted,
         ApprovedByAll
<1> QED
  BY <1>1, <1>3 DEF Init, IInv, OneIsCurrent, WorkInv

\* Nothing happens to the approvals.
LEMMA KeepRows ==
    ASSUME IInv, UNCHANGED <<status, current, rows, waived>>
    PROVE  OneIsCurrent' /\ RowsInv'
<1>1. OneIsCurrent' /\ PendingIsLast' /\ RoundsBounded'
  BY DEF IInv, OneIsCurrent, RowsInv, PendingIsLast, Open, RoundsBounded
<1>2. \A v \in Version : (Unanimous(v)' <=> Unanimous(v)) /\ (Submitted(v)' <=> Submitted(v))
  BY DEF Unanimous, Submitted
<1>3. UnanimousIsPast' /\ ApprovedByAll'
  BY <1>2 DEF IInv, RowsInv, UnanimousIsPast, ApprovedByAll, Past
<1> QED
  BY <1>1, <1>3 DEF RowsInv

\* A copy stays good as long as what it was loaded from does.
LEMMA KeepCopy ==
    ASSUME NEW d \in Client, NEW w, work'[d] = w, CopyOK(d, w),
           d \in outdated => d \in outdated', d \in stale => d \in stale',
           UNCHANGED <<status, current, rows, review>>
    PROVE  CopyOK(d, work[d])'
<1>1. FlagOK(d, work[d])' /\ ContractOK(d, work[d])'
  BY DEF CopyOK, FlagOK, ContractOK
<1>2. SubmitOK(d, work[d])'
  BY DEF CopyOK, SubmitOK, Open
<1>3. Open(w.doc, w.user)' = Open(w.doc, w.user)
  BY DEF Open
<1>4. AllApproved(w.doc, w.user, w.row)' <=> AllApproved(w.doc, w.user, w.row)
  BY DEF AllApproved
<1>5. DecisionOK(d, work[d])'
  BY <1>3, <1>4 DEF CopyOK, DecisionOK
<1>6. ConcludeOK(d, work[d])'
  BY <1>4 DEF CopyOK, ConcludeOK, CanTransition
<1> QED
  BY <1>1, <1>2, <1>5, <1>6 DEF CopyOK

\* A step that only changes the copy of one client.
LEMMA HoldStep ==
    ASSUME IInv, NEW c \in Client, NEW w \in Work, Hold(c, w), CopyOK(c, w),
           UNCHANGED <<status, current, outdated, rows, review, stale, waived>>
    PROVE  IInv'
<1>1. /\ work' \in [Client -> Work \union {Idle}]
      /\ work'[c] = w
      /\ \A d \in Client \ {c} : work'[d] = work[d]
  BY DEF Hold, IInv, TypeOK, Work
<1>2. TypeOK'
  BY <1>1 DEF IInv, TypeOK, Work
<1>3. OneIsCurrent' /\ RowsInv'
  BY KeepRows
<1>4. ASSUME NEW d \in Client, work'[d] # Idle
      PROVE  CopyOK(d, work[d])'
  <2>1. CopyOK(d, work'[d])
    BY <1>1, <1>4 DEF IInv, WorkInv
  <2> QED
    BY <2>1, KeepCopy
<1> QED
  BY <1>2, <1>3, <1>4 DEF IInv, WorkInv

\* What a client works on has its type.
LEMMA WorkType ==
    ASSUME TypeOK, NEW c \in Client, work[c] # Idle
    PROVE  /\ work[c] \in Work
           /\ work[c].op \in {"submit", "action"} => work[c] \in VersionWork
           /\ work[c].op \in {"decide", "conclude"} => work[c] \in DecisionWork
           /\ work[c].op = "contract" => work[c] \in ContractWork
           /\ work[c].op \in {"submit", "action", "decide", "conclude"} => work[c].doc \in Version
           /\ work[c].op \in {"submit", "action", "conclude"} => work[c].status \in Status
<1>1. work[c] \in Work
  BY DEF TypeOK, Work
<1>2. {"Approved", "Rejected"} \subseteq Status
  BY DEF Status
<1> QED
  BY <1>1, <1>2 DEF Work, VersionWork, DecisionWork, ContractWork

\* A client lets go of its copy; the other copies stay as they are.
LEMMA ReleaseStep ==
    ASSUME TypeOK, NEW c \in Client, Release(c)
    PROVE  /\ work' \in [Client -> Work \union {Idle}]
           /\ \A d \in Client : work'[d] # Idle => d # c /\ work'[d] = work[d]
BY DEF TypeOK, Release, Work

\* Saving the version a client holds.
LEMMA VersionStep ==
    ASSUME IInv, NEW c \in Client, work[c] # Idle,
           work[c].op \in {"submit", "action", "conclude"},
           SaveVersion(c, work[c].status)
    PROVE  LET v == work[c].doc IN
           /\ v \in Version
           /\ status' \in [Version -> Status]
           /\ status'[v] = work[c].status
           /\ \A w \in Version \ {v} : status'[w] = status[w]
           /\ current' \subseteq Version
           /\ OneIsCurrent'
           /\ work' \in [Client -> Work \union {Idle}]
           /\ outdated' \subseteq Client
           /\ c \notin outdated
           /\ TableAllows(status[v], work[c].status)
           /\ \A d \in Client : work'[d] # Idle =>
                /\ d # c /\ work'[d] = work[d]
                /\ d \notin outdated' => d \notin outdated /\ work[d].doc # v
                /\ FlagOK(d, work[d])'
<1> DEFINE v == work[c].doc
<1>1. v \in Version /\ work[c].status \in Status
  BY WorkType DEF IInv
<1>2. /\ status' = [status EXCEPT ![v] = work[c].status]
      /\ SetCurrent(c) /\ Release(c)
      /\ outdated' = (outdated \union Holders(v)) \ {c}
      /\ c \notin outdated
      /\ TableAllows(status[v], work[c].status)
  BY DEF SaveVersion, WriteVersion, MaySave, IsLatest
<1>3. PICK w \in Version : current = {w}
  BY DEF IInv, OneIsCurrent
<1>4. current' = {v} \/ current' = current
  <2>1. CASE work[c].current
    BY <2>1, <1>2 DEF SetCurrent, OtherCurrent
  <2>2. CASE ~work[c].current
    <3>1. FlagOK(c, work[c])
      BY DEF IInv, WorkInv, CopyOK
    <3>2. v \in current => work[c].seen \ {v} # {}
      BY <2>2 DEF SaveVersion, MaySave, CurrentRemains
    <3>3. v \notin current
      BY <3>1, <3>2, <2>2, <1>2 DEF FlagOK
    <3> QED
      BY <3>3, <2>2, <1>2 DEF SetCurrent
  <2> QED
    BY <2>1, <2>2
<1>5. work' \in [Client -> Work \union {Idle}]
  BY <1>2, ReleaseStep DEF IInv
<1>6. ASSUME NEW d \in Client, work'[d] # Idle
      PROVE  /\ d # c /\ work'[d] = work[d]
             /\ d \notin outdated' => d \notin outdated /\ work[d].doc # v
             /\ FlagOK(d, work[d])'
  <2>1. d # c /\ work'[d] = work[d]
    BY <1>6, <1>2, ReleaseStep DEF IInv
  <2>2. d \notin outdated' => d \notin outdated /\ work[d].doc # v
    BY <1>6, <2>1, <1>2 DEF Holders
  <2>3. FlagOK(d, work[d])
    BY <1>6, <2>1 DEF IInv, WorkInv, CopyOK
  <2>4. FlagOK(d, work[d])'
    BY <2>1, <2>2, <2>3, <1>4 DEF FlagOK
  <2> QED
    BY <2>1, <2>2, <2>4
<1>7. status' \in [Version -> Status] /\ outdated' \subseteq Client /\ status'[v] = work[c].status
  BY <1>1, <1>2 DEF IInv, TypeOK, Holders
<1>8. \A x \in Version \ {v} : status'[x] = status[x]
  BY <1>2 DEF IInv, TypeOK
<1>9. current' \subseteq Version /\ OneIsCurrent'
  BY <1>1, <1>3, <1>4 DEF OneIsCurrent
<1> QED
  BY <1>1, <1>2, <1>5, <1>6, <1>7, <1>8, <1>9

-----------------------------------------------------------------------------
(* The steps that load *)

LEMMA OpenContractStep ==
    ASSUME IInv, NEW c \in Client, OpenContract(c)
    PROVE  IInv'
<1> DEFINE w == [op |-> "contract", doc |-> Idle, review |-> review]
<1>1. w \in Work
  BY DEF IInv, TypeOK, Work, ContractWork
<1>2. CopyOK(c, w)
  BY DEF CopyOK, FlagOK, SubmitOK, DecisionOK, ConcludeOK, ContractOK
<1> QED
  BY <1>1, <1>2, HoldStep DEF OpenContract

LEMMA BeginSubmitStep ==
    ASSUME IInv, NEW c \in Client, NEW v \in Version, BeginSubmit(c, v)
    PROVE  IInv'
<1> DEFINE w == [op |-> "submit", doc |-> v, status |-> "Under Review",
                 current |-> v \in current, seen |-> current]
<1>0. "Under Review" \in Status
  BY DEF Status
<1>1. w \in Work
  <2>1. current \in SUBSET Version /\ (v \in current) \in BOOLEAN
    BY DEF IInv, TypeOK
  <2>2. w \in VersionWork
    BY <1>0, <2>1 DEF VersionWork
  <2> QED
    BY <2>2 DEF Work
<1>2. status[v] = "Draft"
  BY Sources DEF BeginSubmit
<1>3. SubmitOK(c, w)
  BY <1>2 DEF BeginSubmit, NoPending, SubmitOK
<1>4. CopyOK(c, w)
  BY <1>3 DEF CopyOK, FlagOK, DecisionOK, ConcludeOK, ContractOK
<1> QED
  BY <1>1, <1>4, HoldStep DEF BeginSubmit

LEMMA DecisionWorks ==
    ASSUME IInv, NEW v \in Version, NEW u \in User, NEW i \in DOMAIN rows[v][u],
           NEW op \in {"decide", "conclude"}, NEW decision \in {"Approved", "Rejected"}
    PROVE  Decision(v, u, i, op, decision) \in Work /\ Decision(v, u, i, op, decision) \in DecisionWork
<1>1. i \in Nat
  BY RowsType DEF IInv
<1>2. current \in SUBSET Version /\ review \in [User -> ApprovalStatus]
  BY DEF IInv, TypeOK
<1>3. Decision(v, u, i, op, decision) \in DecisionWork
  BY <1>1, <1>2 DEF Decision, DecisionWork
<1> QED
  BY <1>3 DEF Work

LEMMA BeginApproveStep ==
    ASSUME IInv, NEW c \in Client, NEW v \in Version, NEW u \in User, BeginApprove(c, v, u)
    PROVE  IInv'
<1>1. PICK i \in DOMAIN rows[v][u] :
        /\ MayDecide(v, u, i)
        /\ \/ /\ AllApproved(v, u, i)
              /\ CanTransition(status[v], "Approved")
              /\ Hold(c, Decision(v, u, i, "conclude", "Approved"))
           \/ /\ ~AllApproved(v, u, i)
              /\ Hold(c, Decision(v, u, i, "decide", "Approved"))
  BY DEF BeginApprove
<1>2. i \in Open(v, u)
  BY <1>1 DEF MayDecide, Open
<1>3. ASSUME AllApproved(v, u, i), CanTransition(status[v], "Approved"),
             Hold(c, Decision(v, u, i, "conclude", "Approved"))
      PROVE  IInv'
  <2> DEFINE w == Decision(v, u, i, "conclude", "Approved")
  <2>1. CopyOK(c, w)
    BY <1>2, <1>3 DEF Decision, CopyOK, FlagOK, SubmitOK, DecisionOK, ConcludeOK, ContractOK
  <2>2. w \in Work
    BY DecisionWorks
  <2> QED
    BY <1>3, <2>1, <2>2, HoldStep DEF BeginApprove
<1>4. ASSUME ~AllApproved(v, u, i), Hold(c, Decision(v, u, i, "decide", "Approved"))
      PROVE  IInv'
  <2> DEFINE w == Decision(v, u, i, "decide", "Approved")
  <2>1. CopyOK(c, w)
    BY <1>2, <1>4 DEF Decision, CopyOK, FlagOK, SubmitOK, DecisionOK, ConcludeOK, ContractOK
  <2>2. w \in Work
    BY DecisionWorks
  <2> QED
    BY <1>4, <2>1, <2>2, HoldStep DEF BeginApprove
<1> QED
  BY <1>1, <1>3, <1>4

LEMMA BeginRejectStep ==
    ASSUME IInv, NEW c \in Client, NEW v \in Version, NEW u \in User, BeginReject(c, v, u)
    PROVE  IInv'
<1>1. PICK i \in DOMAIN rows[v][u] :
        /\ MayDecide(v, u, i)
        /\ CanTransition(status[v], "Rejected")
        /\ Hold(c, Decision(v, u, i, "conclude", "Rejected"))
  BY DEF BeginReject
<1> DEFINE w == Decision(v, u, i, "conclude", "Rejected")
<1>2. CopyOK(c, w)
  BY <1>1 DEF MayDecide, Open, Decision, CopyOK, FlagOK, SubmitOK, DecisionOK, ConcludeOK,
              ContractOK
<1>3. w \in Work
  BY DecisionWorks
<1> QED
  BY <1>1, <1>2, <1>3, HoldStep DEF BeginReject

LEMMA BeginActionStep ==
    ASSUME IInv, NEW c \in Client, NEW v \in Version, NEW a, BeginAction(c, v, a)
    PROVE  IInv'
<1>1. PICK r \in Outcomes(status[v], a) :
        Hold(c, [op |-> "action", doc |-> v, status |-> r.next,
                 current |-> v \in current, seen |-> current])
  BY DEF BeginAction
<1> DEFINE w == [op |-> "action", doc |-> v, status |-> r.next,
                 current |-> v \in current, seen |-> current]
<1>2. r.next \in Status
  BY OutcomeIsTransition DEF IInv, TypeOK
<1>3. w \in Work
  BY <1>2 DEF IInv, TypeOK, Work, VersionWork
<1>4. CopyOK(c, w)
  BY DEF CopyOK, FlagOK, SubmitOK, DecisionOK, ConcludeOK, ContractOK
<1> QED
  BY <1>1, <1>3, <1>4, HoldStep DEF BeginAction

-----------------------------------------------------------------------------
(* The steps that change neither an approval nor a version *)

LEMMA KeepCopies ==
    ASSUME IInv, NEW c \in Client, Rollback(c),
           \A d \in Client \ {c} : d \in stale => d \in stale',
           UNCHANGED <<status, current, rows, review>>
    PROVE  /\ work' \in [Client -> Work \union {Idle}]
           /\ outdated' \subseteq Client
           /\ WorkInv'
<1>1. /\ work' \in [Client -> Work \union {Idle}]
      /\ \A d \in Client : work'[d] # Idle => d # c /\ work'[d] = work[d]
  BY ReleaseStep DEF IInv, Rollback
<1>2. outdated' \subseteq Client /\ \A d \in Client : d \notin outdated' /\ d # c => d \notin outdated
  BY DEF Rollback, IInv, TypeOK
<1>3. ASSUME NEW d \in Client, work'[d] # Idle
      PROVE  CopyOK(d, work[d])'
  <2>1. d # c /\ work'[d] = work[d] /\ CopyOK(d, work[d])
    BY <1>1, <1>3 DEF IInv, WorkInv
  <2>2. (d \in outdated => d \in outdated') /\ (d \in stale => d \in stale')
    BY <1>2, <2>1
  <2> QED
    BY <2>1, <2>2, KeepCopy
<1> QED
  BY <1>1, <1>2, <1>3 DEF WorkInv

LEMMA CommitContractStep ==
    ASSUME IInv, NEW c \in Client, CommitContract(c)
    PROVE  IInv'
<1>1. /\ work[c] # Idle /\ work[c].op = "contract" /\ c \notin stale
      /\ review' = work[c].review /\ stale' = (stale \union ContractHolders) \ {c}
      /\ Rollback(c) /\ UNCHANGED <<status, current, rows, waived>>
  BY DEF CommitContract, Busy, SaveContract, ContractLatest
<1>2. review' = review
  BY <1>1 DEF IInv, WorkInv, CopyOK, ContractOK
<1>3. stale' \subseteq Client
  BY <1>1 DEF IInv, TypeOK, ContractHolders
<1>4. /\ work' \in [Client -> Work \union {Idle}] /\ outdated' \subseteq Client
      /\ WorkInv' /\ OneIsCurrent' /\ RowsInv'
  BY <1>1, <1>2, KeepRows, KeepCopies
<1>5. TypeOK'
  BY <1>1, <1>2, <1>3, <1>4 DEF IInv, TypeOK, Work
<1> QED
  BY <1>4, <1>5 DEF IInv

LEMMA AbandonStep ==
    ASSUME IInv, NEW c \in Client, Abandon(c)
    PROVE  IInv'
<1>1. /\ Rollback(c) /\ stale' = stale \ {c}
      /\ UNCHANGED <<status, current, rows, review, waived>>
  BY DEF Abandon
<1>2. stale' \subseteq Client
  BY <1>1 DEF IInv, TypeOK
<1>3. /\ work' \in [Client -> Work \union {Idle}] /\ outdated' \subseteq Client
      /\ WorkInv' /\ OneIsCurrent' /\ RowsInv'
  BY <1>1, KeepRows, KeepCopies
<1>4. TypeOK'
  BY <1>1, <1>2, <1>3 DEF IInv, TypeOK, Work
<1> QED
  BY <1>3, <1>4 DEF IInv

-----------------------------------------------------------------------------
(* Submissions *)

\* What CommitSubmit does to the rows of the version it submits.
LEMMA SubmitRows ==
    ASSUME IInv, NEW v \in Version, \A u \in User : Open(v, u) = {} /\ Len(rows[v][u]) < MaxRounds,
           rows' = [rows EXCEPT ![v] = [u \in User |-> Append(rows[v][u], "Pending")]]
    PROVE  /\ rows' \in [Version -> [User -> Seq(ApprovalStatus)]]
           /\ \A w \in Version \ {v} : rows'[w] = rows[w]
           /\ \A w \in Version, u \in User :
                \A j \in DOMAIN rows[w][u] : j \in DOMAIN rows'[w][u] /\ rows'[w][u][j] = rows[w][u][j]
           /\ PendingIsLast' /\ RoundsBounded'
           /\ User # {} => ~Unanimous(v)'
<1>1. rows' \in [Version -> [User -> Seq(ApprovalStatus)]]
  <2>1. \A u \in User : Append(rows[v][u], "Pending") \in Seq(ApprovalStatus)
    BY AppendRow DEF IInv
  <2> QED
    BY <2>1 DEF IInv, TypeOK
<1>2. \A w \in Version \ {v} : rows'[w] = rows[w]
  BY DEF IInv, TypeOK
<1>3. \A u \in User : rows'[v][u] = Append(rows[v][u], "Pending")
  BY DEF IInv, TypeOK
<1>4. \A u \in User :
         /\ Len(rows'[v][u]) = Len(rows[v][u]) + 1
         /\ DOMAIN rows'[v][u] = 1..Len(rows'[v][u])
         /\ rows'[v][u][Len(rows'[v][u])] = "Pending"
         /\ \A j \in DOMAIN rows[v][u] : j \in DOMAIN rows'[v][u] /\ rows'[v][u][j] = rows[v][u][j]
  BY <1>3, AppendRow DEF IInv
<1>5. \A u \in User : Len(rows[v][u]) \in Nat /\ DOMAIN rows[v][u] = 1..Len(rows[v][u])
  BY RowsType DEF IInv
<1>6. \A w \in Version, u \in User :
         \A j \in DOMAIN rows[w][u] : j \in DOMAIN rows'[w][u] /\ rows'[w][u][j] = rows[w][u][j]
  BY <1>2, <1>4
<1>7. PendingIsLast'
  <2> SUFFICES ASSUME NEW w \in Version, NEW u \in User, NEW i \in Open(w, u)'
               PROVE  i = Len(rows'[w][u])
    BY DEF PendingIsLast
  <2>1. CASE w # v
    <3>1. rows'[w] = rows[w]
      BY <2>1, <1>2
    <3>2. i \in DOMAIN rows[w][u] /\ rows[w][u][i] = "Pending"
      BY <3>1 DEF Open
    <3> QED
      BY <3>1, <3>2 DEF Open, IInv, RowsInv, PendingIsLast
  <2>2. CASE w = v
    <3>1. i \in DOMAIN rows'[v][u] /\ rows'[v][u][i] = "Pending"
      BY <2>2 DEF Open
    <3>2. i \notin DOMAIN rows[v][u]
      BY <3>1, <1>4 DEF Open
    <3> QED
      BY <2>2, <3>1, <3>2, <1>4, <1>5
  <2> QED
    BY <2>1, <2>2
<1>8. RoundsBounded'
  <2> SUFFICES ASSUME NEW w \in Version, NEW u \in User
               PROVE  Len(rows'[w][u]) <= MaxRounds
    BY DEF RoundsBounded
  <2>1. CASE w # v
    BY <2>1, <1>2 DEF IInv, RowsInv, RoundsBounded
  <2>2. CASE w = v
    BY <2>2, <1>4, <1>5, MaxRoundsAssumption
  <2> QED
    BY <2>1, <2>2
<1>9. User # {} => ~Unanimous(v)'
  <2> SUFFICES ASSUME NEW u \in User PROVE ~Unanimous(v)'
    OBVIOUS
  <2>1. Len(rows'[v][u]) \in DOMAIN rows'[v][u]
    BY <1>4, <1>5
  <2> QED
    BY <2>1, <1>4 DEF Unanimous
<1> QED
  BY <1>1, <1>2, <1>6, <1>7, <1>8, <1>9

\* A copy x goes on holding what it was loaded with: of a version whose rows
\* are as they were, and of a version that only gains rows.
LEMMA ConcludeKept ==
    ASSUME NEW d, NEW x, ConcludeOK(d, x), stale' = stale,
           x.op = "conclude" /\ d \notin outdated' =>
             /\ d \notin outdated
             /\ status'[x.doc] = status[x.doc] /\ rows'[x.doc] = rows[x.doc]
    PROVE  ConcludeOK(d, x)'
<1> SUFFICES ASSUME x.op = "conclude", d \notin outdated'
             PROVE  ConcludeOK(d, x)'
  BY DEF ConcludeOK
<1>1. /\ CanTransition(status[x.doc], x.status)
      /\ (x.status = "Approved" /\ d \notin stale) => AllApproved(x.doc, x.user, x.row)
  BY DEF ConcludeOK
<1>2. CanTransition(status'[x.doc], x.status)
  BY <1>1
<1>3. (x.status = "Approved" /\ d \notin stale') => AllApproved(x.doc, x.user, x.row)'
  <2> SUFFICES ASSUME x.status = "Approved", d \notin stale',
                      NEW w \in User, NEW j \in DOMAIN rows'[x.doc][w],
                      ~(w = x.user /\ j = x.row)
               PROVE  rows'[x.doc][w][j] = "Approved"
    BY DEF AllApproved
  <2>1. rows'[x.doc] = rows[x.doc]
    OBVIOUS
  <2> QED
    BY <1>1, <2>1 DEF AllApproved
<1> QED
  BY ONLY <1>2, <1>3 DEF ConcludeOK, CanTransition

LEMMA DecisionKept ==
    ASSUME NEW d, NEW x, DecisionOK(d, x), stale' = stale, review' = review,
           x.op \in {"decide", "conclude"} => x.user \in User,
           \A u \in User : \A j \in DOMAIN rows[x.doc][u] :
             j \in DOMAIN rows'[x.doc][u] /\ rows'[x.doc][u][j] = rows[x.doc][u][j]
    PROVE  DecisionOK(d, x)'
<1> SUFFICES ASSUME x.op \in {"decide", "conclude"}, d \notin stale
             PROVE  DecisionOK(d, x)'
  BY DEF DecisionOK
<1>1. /\ x.row \in Open(x.doc, x.user) /\ x.review = review
      /\ x.op = "decide" => x.status = "Approved" /\ ~AllApproved(x.doc, x.user, x.row)
  BY DEF DecisionOK
<1>2. x.row \in Open(x.doc, x.user)'
  BY <1>1 DEF Open
<1>3. ASSUME x.op = "decide"
      PROVE  ~AllApproved(x.doc, x.user, x.row)'
  <2>1. PICK w \in User : \E j \in DOMAIN rows[x.doc][w] :
          ~(w = x.user /\ j = x.row) /\ rows[x.doc][w][j] # "Approved"
    BY <1>1, <1>3 DEF AllApproved
  <2>2. PICK j \in DOMAIN rows[x.doc][w] :
          ~(w = x.user /\ j = x.row) /\ rows[x.doc][w][j] # "Approved"
    BY <2>1
  <2>3. j \in DOMAIN rows'[x.doc][w] /\ rows'[x.doc][w][j] # "Approved"
    BY <2>2
  <2> QED
    BY ONLY <2>2, <2>3 DEF AllApproved
<1>4. review' = x.review /\ (x.op = "decide" => x.status = "Approved")
  BY <1>1
<1> QED
  BY ONLY <1>2, <1>3, <1>4 DEF DecisionOK

LEMMA CommitSubmitStep ==
    ASSUME IInv, NEW c \in Client, CommitSubmit(c)
    PROVE  IInv'
<1>0. PICK v \in Version : v = work[c].doc
  BY WorkType DEF CommitSubmit, Busy, IInv
<1>1. /\ work[c] # Idle /\ work[c].op = "submit" /\ SaveVersion(c, work[c].status)
      /\ rows' = [rows EXCEPT ![v] = [u \in User |-> Append(rows[v][u], "Pending")]]
      /\ UNCHANGED <<review, stale, waived>>
  BY <1>0 DEF CommitSubmit, Busy
<1>2. /\ status' \in [Version -> Status] /\ status'[v] = work[c].status
      /\ \A w \in Version \ {v} : status'[w] = status[w]
      /\ current' \subseteq Version /\ OneIsCurrent'
      /\ work' \in [Client -> Work \union {Idle}] /\ outdated' \subseteq Client
      /\ c \notin outdated
      /\ \A d \in Client : work'[d] # Idle =>
           /\ d # c /\ work'[d] = work[d]
           /\ d \notin outdated' => d \notin outdated /\ work[d].doc # v
           /\ FlagOK(d, work[d])'
  BY <1>0, <1>1, VersionStep
<1>3. /\ work[c].status = "Under Review"
      /\ \A u \in User : Open(v, u) = {} /\ Len(rows[v][u]) < MaxRounds
  BY <1>0, <1>1, <1>2 DEF IInv, WorkInv, CopyOK, SubmitOK
<1>4. /\ rows' \in [Version -> [User -> Seq(ApprovalStatus)]]
      /\ \A w \in Version \ {v} : rows'[w] = rows[w]
      /\ \A w \in Version, u \in User :
           \A j \in DOMAIN rows[w][u] : j \in DOMAIN rows'[w][u] /\ rows'[w][u][j] = rows[w][u][j]
      /\ PendingIsLast' /\ RoundsBounded'
      /\ User # {} => ~Unanimous(v)'
  BY <1>1, <1>2, <1>3, SubmitRows
<1>5. TypeOK'
  BY <1>1, <1>2, <1>4 DEF IInv, TypeOK, Work
<1>6. \A w \in Version \ {v} : (Unanimous(w)' <=> Unanimous(w)) /\ (Submitted(w)' <=> Submitted(w))
  BY <1>4 DEF Unanimous, Submitted
<1>7. UnanimousIsPast'
  <2> SUFFICES ASSUME NEW w \in Version, Submitted(w)', Unanimous(w)'
               PROVE  status'[w] \in Past
    BY DEF UnanimousIsPast, Past
  <2>1. User # {}
    BY DEF Submitted
  <2>2. w # v
    BY <2>1, <1>4
  <2> QED
    BY <2>2, <1>2, <1>6 DEF IInv, RowsInv, UnanimousIsPast
<1>8. ApprovedByAll'
  <2> SUFFICES ASSUME NEW w \in Version \ waived,
                      status'[w] \in {"Approved", "Signature Requested", "Executed"}
               PROVE  Unanimous(w)'
    BY <1>1 DEF ApprovedByAll
  <2>1. w # v
    BY <1>2, <1>3
  <2> QED
    BY <2>1, <1>2, <1>6 DEF IInv, RowsInv, ApprovedByAll
<1>9. ASSUME NEW d \in Client, work'[d] # Idle
      PROVE  CopyOK(d, work[d])'
  <2>1. /\ d # c /\ work'[d] = work[d] /\ FlagOK(d, work[d])'
        /\ d \notin outdated' => d \notin outdated /\ work[d].doc # v
    BY <1>2, <1>9
  <2>2. CopyOK(d, work[d])
    BY <2>1, <1>9 DEF IInv, WorkInv
  <2>3. work[d].op \in {"submit", "decide", "conclude"} => work[d].doc \in Version
    BY <2>1, <1>9, WorkType DEF IInv
  <2>4. d \notin outdated' /\ work[d].op \in {"submit", "conclude"} =>
          status'[work[d].doc] = status[work[d].doc] /\ rows'[work[d].doc] = rows[work[d].doc]
    BY <2>1, <2>3, <1>2, <1>4
  <2>5. SubmitOK(d, work[d])'
    <3>1. SubmitOK(d, work[d])
      BY <2>2 DEF CopyOK
    <3> QED
      BY ONLY <3>1, <2>1, <2>4 DEF SubmitOK, Open
  <2>6. ConcludeOK(d, work[d])'
    <3>1. PICK x : x = work[d] /\ x = work'[d]
      BY <2>1
    <3>2. ConcludeOK(d, x) /\ stale' = stale
      BY <2>2, <3>1, <1>1 DEF CopyOK
    <3>3. x.op = "conclude" /\ d \notin outdated' =>
            /\ d \notin outdated
            /\ status'[x.doc] = status[x.doc] /\ rows'[x.doc] = rows[x.doc]
      BY <2>1, <2>4, <3>1
    <3>4. ConcludeOK(d, x)'
      BY ONLY <3>2, <3>3, ConcludeKept
    <3> QED
      BY ONLY <3>1, <3>4 DEF ConcludeOK
  <2>7. ContractOK(d, work[d])'
    BY <2>1, <2>2, <1>1 DEF CopyOK, ContractOK
  <2>8. DecisionOK(d, work[d])'
    <3>1. PICK x : x = work[d] /\ x = work'[d]
      BY <2>1
    <3>2. DecisionOK(d, x) /\ stale' = stale /\ review' = review
      BY <2>2, <3>1, <1>1 DEF CopyOK
    <3>3. x.op \in {"decide", "conclude"} => x.user \in User
      BY <3>1, <1>9, <2>1, WorkType DEF IInv, DecisionWork
    <3>4. x.op \in {"decide", "conclude"} => x.doc \in Version
      BY <2>3, <3>1
    <3>5. DecisionOK(d, x)'
      <4> SUFFICES ASSUME x.op \in {"decide", "conclude"}
                   PROVE  DecisionOK(d, x)'
        BY DEF DecisionOK
      <4>1. \A u \in User : \A j \in DOMAIN rows[x.doc][u] :
              j \in DOMAIN rows'[x.doc][u] /\ rows'[x.doc][u][j] = rows[x.doc][u][j]
        BY <3>4, <1>4
      <4> QED
        BY ONLY <3>2, <3>3, <4>1, DecisionKept
    <3> QED
      BY ONLY <3>1, <3>5 DEF DecisionOK
  <2> QED
    BY <2>1, <2>5, <2>6, <2>7, <2>8 DEF CopyOK
<1> QED
  BY <1>2, <1>4, <1>5, <1>7, <1>8, <1>9 DEF IInv, RowsInv, WorkInv

-----------------------------------------------------------------------------
(* Decisions *)

\* What a decision does to the approvals: as the contract is as it was loaded,
\* it decides an open one, and leaves the version unanimous only if all the
\* others have approved.
LEMMA DecideRows ==
    ASSUME IInv, NEW c \in Client, work[c] # Idle, work[c].op \in {"decide", "conclude"},
           c \notin stale, NEW v \in Version, v = work[c].doc, WriteApproval(c)
    PROVE  /\ rows' \in [Version -> [User -> Seq(ApprovalStatus)]]
           /\ \A w \in Version, x \in User :
                /\ DOMAIN rows'[w][x] = DOMAIN rows[w][x]
                /\ Len(rows'[w][x]) = Len(rows[w][x])
                /\ Open(w, x)' \subseteq Open(w, x)
                /\ \A j \in DOMAIN rows[w][x] :
                     rows[w][x][j] # "Pending" => rows'[w][x][j] = rows[w][x][j]
           /\ \A w \in Version : Submitted(w)' <=> Submitted(w)
           /\ \A w \in Version \ {v} : Unanimous(w)' <=> Unanimous(w)
           /\ ~Unanimous(v)
           /\ Unanimous(v)' <=>
                work[c].status = "Approved" /\ AllApproved(v, work[c].user, work[c].row)
           /\ work[c].user \in User /\ work[c].review = review
           /\ work[c].row \in Open(v, work[c].user)
           /\ rows'[v][work[c].user][work[c].row] = work[c].status
<1>0. PICK u, i, s : u = work[c].user /\ i = work[c].row /\ s = work[c].status
  OBVIOUS
<1>1. u \in User /\ s \in {"Approved", "Rejected"} /\ s \in ApprovalStatus
  BY <1>0, WorkType DEF IInv, DecisionWork, ApprovalStatus
<1>2. i \in Open(v, u) /\ work[c].review = review
  BY <1>0 DEF IInv, WorkInv, CopyOK, DecisionOK
<1>3. i \in DOMAIN rows[v][u] /\ rows[v][u][i] = "Pending"
  BY <1>2 DEF Open
<1>4. rows' = [rows EXCEPT ![v][u][i] = s]
  BY <1>0 DEF WriteApproval
<1>5. /\ rows' \in [Version -> [User -> Seq(ApprovalStatus)]]
      /\ \A w \in Version, x \in User :
           /\ DOMAIN rows'[w][x] = DOMAIN rows[w][x]
           /\ Len(rows'[w][x]) = Len(rows[w][x])
           /\ \A j \in DOMAIN rows[w][x] :
                rows'[w][x][j] = IF w = v /\ x = u /\ j = i THEN s ELSE rows[w][x][j]
  <2>1. /\ TypeOK /\ v \in Version /\ u \in User /\ i \in DOMAIN rows[v][u]
        /\ s \in ApprovalStatus /\ rows' = [rows EXCEPT ![v][u][i] = s]
    BY <1>1, <1>3, <1>4 DEF IInv
  <2>2. rows' \in [Version -> [User -> Seq(ApprovalStatus)]]
    BY ONLY <2>1, WriteRow
  <2>3. \A w \in Version, x \in User :
           /\ DOMAIN rows'[w][x] = DOMAIN rows[w][x]
           /\ Len(rows'[w][x]) = Len(rows[w][x])
           /\ \A j \in DOMAIN rows[w][x] :
                rows'[w][x][j] = IF w = v /\ x = u /\ j = i THEN s ELSE rows[w][x][j]
    BY ONLY <2>1, WriteRow
  <2> QED
    BY ONLY <2>2, <2>3
<1>6. \A w \in Version, x \in User :
         /\ Open(w, x)' \subseteq Open(w, x)
         /\ \A j \in DOMAIN rows[w][x] :
              rows[w][x][j] # "Pending" => rows'[w][x][j] = rows[w][x][j]
  <2> SUFFICES ASSUME NEW w \in Version, NEW x \in User
               PROVE  /\ Open(w, x)' \subseteq Open(w, x)
                      /\ \A j \in DOMAIN rows[w][x] :
                           rows[w][x][j] # "Pending" => rows'[w][x][j] = rows[w][x][j]
    OBVIOUS
  <2>1. /\ DOMAIN rows'[w][x] = DOMAIN rows[w][x]
        /\ \A j \in DOMAIN rows[w][x] :
             rows'[w][x][j] = IF w = v /\ x = u /\ j = i THEN s ELSE rows[w][x][j]
    BY ONLY <1>5, w \in Version, x \in User
  <2>2. s # "Pending"
    BY ONLY <1>1
  <2> QED
    BY ONLY <1>3, <2>1, <2>2 DEF Open
<1>7. \A w \in Version : Submitted(w)' <=> Submitted(w)
  <2>1. \A w \in Version, x \in User : Len(rows[w][x]) \in Nat /\ Len(rows'[w][x]) = Len(rows[w][x])
    BY <1>5, RowsType DEF IInv
  <2>2. \A w \in Version, x \in User :
           /\ rows[w][x] = <<>> <=> Len(rows[w][x]) = 0
           /\ rows'[w][x] = <<>> <=> Len(rows'[w][x]) = 0
    BY <1>5, EmptySeq DEF IInv, TypeOK
  <2> QED
    BY <2>1, <2>2 DEF Submitted
<1>8. \A w \in Version \ {v} : Unanimous(w)' <=> Unanimous(w)
  <2>1. \A w \in Version \ {v}, x \in User : \A j \in DOMAIN rows[w][x] :
           rows'[w][x][j] = rows[w][x][j]
    BY <1>5
  <2> QED
    BY <1>5, <2>1 DEF Unanimous
<1>9. ~Unanimous(v)
  BY <1>1, <1>3 DEF Unanimous
<1>10. Unanimous(v)' <=> s = "Approved" /\ AllApproved(v, u, i)
  <2>1. /\ rows'[v][u][i] = s
        /\ \A x \in User : \A j \in DOMAIN rows[v][x] :
             (x = u /\ j = i) \/ rows'[v][x][j] = rows[v][x][j]
    BY <1>1, <1>3, <1>5
  <2>2. ASSUME Unanimous(v)' PROVE s = "Approved" /\ AllApproved(v, u, i)
    BY <1>1, <1>3, <1>5, <2>1, <2>2 DEF Unanimous, AllApproved
  <2>3. ASSUME s = "Approved", AllApproved(v, u, i),
               NEW x \in User, NEW j \in DOMAIN rows'[v][x]
        PROVE  rows'[v][x][j] = "Approved"
    <3>1. j \in DOMAIN rows[v][x]
      BY <1>5, <2>3
    <3> QED
      BY <3>1, <2>1, <2>3 DEF AllApproved
  <2> QED
    BY <2>2, <2>3 DEF Unanimous
<1>11. rows'[v][u][i] = s
  BY ONLY <1>1, <1>3, <1>5, v \in Version
<1>12. \A w \in Version, x \in User :
         /\ DOMAIN rows'[w][x] = DOMAIN rows[w][x]
         /\ Len(rows'[w][x]) = Len(rows[w][x])
         /\ Open(w, x)' \subseteq Open(w, x)
         /\ \A j \in DOMAIN rows[w][x] :
              rows[w][x][j] # "Pending" => rows'[w][x][j] = rows[w][x][j]
  <2> SUFFICES ASSUME NEW w \in Version, NEW x \in User
               PROVE  /\ DOMAIN rows'[w][x] = DOMAIN rows[w][x]
                      /\ Len(rows'[w][x]) = Len(rows[w][x])
                      /\ Open(w, x)' \subseteq Open(w, x)
                      /\ \A j \in DOMAIN rows[w][x] :
                           rows[w][x][j] # "Pending" => rows'[w][x][j] = rows[w][x][j]
    OBVIOUS
  <2>1. DOMAIN rows'[w][x] = DOMAIN rows[w][x] /\ Len(rows'[w][x]) = Len(rows[w][x])
    BY ONLY <1>5
  <2>2. /\ Open(w, x)' \subseteq Open(w, x)
        /\ \A j \in DOMAIN rows[w][x] :
             rows[w][x][j] # "Pending" => rows'[w][x][j] = rows[w][x][j]
    BY ONLY <1>6
  <2> QED
    BY ONLY <2>1, <2>2
<1>13. rows' \in [Version -> [User -> Seq(ApprovalStatus)]]
  BY ONLY <1>5
<1>14. /\ Unanimous(v)' <=>
             work[c].status = "Approved" /\ AllApproved(v, work[c].user, work[c].row)
       /\ work[c].user \in User /\ work[c].review = review
       /\ work[c].row \in Open(v, work[c].user)
       /\ rows'[v][work[c].user][work[c].row] = work[c].status
  BY ONLY <1>0, <1>1, <1>2, <1>10, <1>11
<1> QED
  BY ONLY <1>7, <1>8, <1>9, <1>12, <1>13, <1>14

\* The save of the contract leaves no other copy of it fresh.
LEMMA ContractStep ==
    ASSUME IInv, NEW c \in Client, work[c] # Idle, work[c].op \in {"decide", "conclude"},
           UpdateCollaborator(c)
    PROVE  /\ c \notin stale
           /\ review' \in [User -> ApprovalStatus]
           /\ stale' \subseteq Client
           /\ \A d \in Client \ {c} :
                /\ d \in stale => d \in stale'
                /\ (work[d] # Idle /\ work[d].op \in {"decide", "conclude", "contract"}) => d \in stale'
<1>1. work[c].user \in User /\ work[c].status \in ApprovalStatus /\ work[c].review \in [User -> ApprovalStatus]
  BY WorkType DEF IInv, DecisionWork, ApprovalStatus
<1>2. /\ c \notin stale
      /\ review' = [work[c].review EXCEPT ![work[c].user] = work[c].status]
      /\ stale' = (stale \union ContractHolders) \ {c}
  BY DEF UpdateCollaborator, SaveContract, ContractLatest
<1>3. \A d \in Client : (work[d] # Idle /\ work[d].op \in {"decide", "conclude", "contract"}) =>
                           d \in ContractHolders
  BY DEF ContractHolders, Busy
<1> QED
  BY <1>1, <1>2, <1>3 DEF ContractHolders, IInv, TypeOK

\* A copy of another client, when a decision on version v is committed.
LEMMA DecidedCopies ==
    ASSUME IInv, NEW v \in Version, NEW d \in Client, work[d] # Idle, work'[d] = work[d],
           CopyOK(d, work[d]), FlagOK(d, work[d])',
           d \notin outdated' => d \notin outdated,
           d \in stale => d \in stale',
           work[d].op \in {"decide", "conclude", "contract"} => d \in stale',
           d \notin outdated' /\ work[d].op \in {"submit", "conclude"} =>
               status'[work[d].doc] = status[work[d].doc],
           \A w \in Version, x \in User :
                Len(rows'[w][x]) = Len(rows[w][x]) /\ Open(w, x)' \subseteq Open(w, x)
    PROVE  CopyOK(d, work[d])'
<1>1. DecisionOK(d, work[d])' /\ ContractOK(d, work[d])'
  BY DEF DecisionOK, ContractOK
<1>2. ConcludeOK(d, work[d])'
  BY DEF CopyOK, ConcludeOK, CanTransition
<1>3. SubmitOK(d, work[d])'
  <2> SUFFICES ASSUME work[d].op = "submit", d \notin outdated'
               PROVE  \A u \in User : /\ Open(work[d].doc, u)' = {}
                                      /\ Len(rows'[work[d].doc][u]) < MaxRounds
    BY DEF SubmitOK, CopyOK
  <2>1. work[d].doc \in Version
    BY WorkType DEF IInv
  <2>2. \A u \in User : Open(work[d].doc, u) = {} /\ Len(rows[work[d].doc][u]) < MaxRounds
    BY DEF CopyOK, SubmitOK
  <2> QED
    BY <2>1, <2>2 DEF Open
<1> QED
  BY <1>1, <1>2, <1>3 DEF CopyOK

LEMMA CommitDecideStep ==
    ASSUME IInv, NEW c \in Client, CommitDecide(c)
    PROVE  IInv'
<1>0. PICK v \in Version : v = work[c].doc
  BY WorkType DEF CommitDecide, Busy, IInv
<1>1. /\ work[c] # Idle /\ work[c].op = "decide" /\ WriteApproval(c) /\ UpdateCollaborator(c)
      /\ Rollback(c) /\ UNCHANGED <<status, current, waived>>
  BY DEF CommitDecide, Busy
<1>2. /\ c \notin stale /\ review' \in [User -> ApprovalStatus] /\ stale' \subseteq Client
      /\ \A d \in Client \ {c} :
           /\ d \in stale => d \in stale'
           /\ (work[d] # Idle /\ work[d].op \in {"decide", "conclude", "contract"}) => d \in stale'
  BY <1>1, ContractStep
<1>3. /\ rows' \in [Version -> [User -> Seq(ApprovalStatus)]]
      /\ \A w \in Version, x \in User :
           Len(rows'[w][x]) = Len(rows[w][x]) /\ Open(w, x)' \subseteq Open(w, x)
      /\ \A w \in Version : Submitted(w)' <=> Submitted(w)
      /\ \A w \in Version \ {v} : Unanimous(w)' <=> Unanimous(w)
      /\ ~Unanimous(v)
      /\ Unanimous(v)' <=> work[c].status = "Approved" /\ AllApproved(v, work[c].user, work[c].row)
  BY <1>0, <1>1, <1>2, DecideRows
<1>4. ~Unanimous(v)'
  BY <1>0, <1>1, <1>2, <1>3 DEF IInv, WorkInv, CopyOK, DecisionOK
<1>5. /\ work' \in [Client -> Work \union {Idle}]
      /\ \A d \in Client : work'[d] # Idle => d # c /\ work'[d] = work[d]
  BY <1>1, ReleaseStep DEF IInv, Rollback
<1>6. outdated' \subseteq Client /\ \A d \in Client : d \notin outdated' /\ d # c => d \notin outdated
  BY <1>1 DEF Rollback, IInv, TypeOK
<1>7. TypeOK'
  BY <1>1, <1>2, <1>3, <1>5, <1>6 DEF IInv, TypeOK, Work
<1>8. PendingIsLast' /\ RoundsBounded'
  BY <1>3 DEF IInv, RowsInv, PendingIsLast, RoundsBounded
<1>9. UnanimousIsPast' /\ ApprovedByAll'
  BY <1>1, <1>3, <1>4 DEF IInv, RowsInv, UnanimousIsPast, ApprovedByAll, Past
<1>10. ASSUME NEW d \in Client, work'[d] # Idle
       PROVE  CopyOK(d, work[d])'
  <2>1. d # c /\ work'[d] = work[d] /\ CopyOK(d, work[d])
    BY <1>5, <1>10 DEF IInv, WorkInv
  <2>2. FlagOK(d, work[d])'
    BY <2>1, <1>1, <1>6 DEF CopyOK, FlagOK
  <2> QED
    BY <2>1, <2>2, <1>1, <1>2, <1>3, <1>6, <1>10, DecidedCopies
<1> QED
  BY <1>1, <1>7, <1>8, <1>9, <1>10 DEF IInv, OneIsCurrent, RowsInv, WorkInv

LEMMA CommitConcludeStep ==
    ASSUME IInv, NEW c \in Client, CommitConclude(c)
    PROVE  IInv'
<1>0. PICK v \in Version : v = work[c].doc
  BY WorkType DEF CommitConclude, Busy, IInv
<1>1. /\ work[c] # Idle /\ work[c].op = "conclude" /\ WriteApproval(c) /\ UpdateCollaborator(c)
      /\ SaveVersion(c, work[c].status) /\ UNCHANGED waived
  BY DEF CommitConclude, Busy
<1>2. /\ c \notin stale /\ review' \in [User -> ApprovalStatus] /\ stale' \subseteq Client
      /\ \A d \in Client \ {c} :
           /\ d \in stale => d \in stale'
           /\ (work[d] # Idle /\ work[d].op \in {"decide", "conclude", "contract"}) => d \in stale'
  BY <1>1, ContractStep
<1>3. /\ rows' \in [Version -> [User -> Seq(ApprovalStatus)]]
      /\ \A w \in Version, x \in User :
           Len(rows'[w][x]) = Len(rows[w][x]) /\ Open(w, x)' \subseteq Open(w, x)
      /\ \A w \in Version : Submitted(w)' <=> Submitted(w)
      /\ \A w \in Version \ {v} : Unanimous(w)' <=> Unanimous(w)
      /\ ~Unanimous(v)
      /\ Unanimous(v)' <=> work[c].status = "Approved" /\ AllApproved(v, work[c].user, work[c].row)
  BY <1>0, <1>1, <1>2, DecideRows
<1>4. /\ status' \in [Version -> Status] /\ status'[v] = work[c].status
      /\ \A w \in Version \ {v} : status'[w] = status[w]
      /\ current' \subseteq Version /\ OneIsCurrent'
      /\ work' \in [Client -> Work \union {Idle}] /\ outdated' \subseteq Client
      /\ c \notin outdated
      /\ \A d \in Client : work'[d] # Idle =>
           /\ d # c /\ work'[d] = work[d]
           /\ d \notin outdated' => d \notin outdated /\ work[d].doc # v
           /\ FlagOK(d, work[d])'
  BY <1>0, <1>1, VersionStep
<1>5. work[c].status \in {"Approved", "Rejected"}
  BY <1>1, WorkType DEF IInv, DecisionWork
<1>6. work[c].status = "Approved" => AllApproved(v, work[c].user, work[c].row)
  BY <1>0, <1>1, <1>2, <1>4 DEF IInv, WorkInv, CopyOK, ConcludeOK
<1>7. TypeOK'
  BY <1>1, <1>2, <1>3, <1>4 DEF IInv, TypeOK, Work
<1>8. PendingIsLast' /\ RoundsBounded'
  BY <1>3 DEF IInv, RowsInv, PendingIsLast, RoundsBounded
<1>9. UnanimousIsPast'
  BY <1>3, <1>4 DEF IInv, RowsInv, UnanimousIsPast, Past
<1>10. ApprovedByAll'
  BY <1>1, <1>3, <1>4, <1>5, <1>6 DEF IInv, RowsInv, ApprovedByAll
<1>11. ASSUME NEW d \in Client, work'[d] # Idle
       PROVE  CopyOK(d, work[d])'
  <2>1. /\ d # c /\ work'[d] = work[d] /\ FlagOK(d, work[d])'
        /\ d \notin outdated' => d \notin outdated /\ work[d].doc # v
    BY <1>4, <1>11
  <2>2. CopyOK(d, work[d])
    BY <2>1, <1>11 DEF IInv, WorkInv
  <2>3. d \notin outdated' /\ work[d].op \in {"submit", "conclude"} =>
          status'[work[d].doc] = status[work[d].doc]
    BY <2>1, <1>4, <1>11, WorkType DEF IInv
  <2> QED
    BY <2>1, <2>2, <2>3, <1>2, <1>3, <1>11, DecidedCopies
<1> QED
  BY <1>4, <1>7, <1>8, <1>9, <1>10, <1>11 DEF IInv, RowsInv, WorkInv

-----------------------------------------------------------------------------
(* The desk *)

LEMMA CommitActionStep ==
    ASSUME IInv, NEW c \in Client, CommitAction(c)
    PROVE  IInv'
<1>0. PICK v \in Version : v = work[c].doc
  BY WorkType DEF CommitAction, Busy, IInv
<1>1. /\ work[c] # Idle /\ work[c].op = "action" /\ SaveVersion(c, work[c].status)
      /\ NoteApproved(v) /\ UNCHANGED <<rows, review, stale>>
  BY <1>0 DEF CommitAction, Busy
<1>2. /\ status' \in [Version -> Status] /\ status'[v] = work[c].status
      /\ \A w \in Version \ {v} : status'[w] = status[w]
      /\ current' \subseteq Version /\ OneIsCurrent'
      /\ work' \in [Client -> Work \union {Idle}] /\ outdated' \subseteq Client
      /\ c \notin outdated
      /\ TableAllows(status[v], work[c].status)
      /\ \A d \in Client : work'[d] # Idle =>
           /\ d # c /\ work'[d] = work[d]
           /\ d \notin outdated' => d \notin outdated /\ work[d].doc # v
           /\ FlagOK(d, work[d])'
  BY <1>0, <1>1, VersionStep
<1>3. /\ status[v] \in Past => status'[v] \in Past
      /\ status'[v] \in {"Approved", "Signature Requested", "Executed"} =>
           \/ status[v] \in {"Approved", "Signature Requested", "Executed"}
           \/ status[v] = "Under Review" /\ status'[v] = "Approved"
  <2>1. status[v] \in Status /\ status'[v] \in Status /\ TableAllows(status[v], status'[v])
    BY <1>2 DEF IInv, TypeOK
  <2> QED
    BY <2>1, AllowedMoves DEF Past
<1>4. waived' = IF status[v] = "Under Review" /\ status'[v] = "Approved"
                THEN waived \union {v} ELSE waived
  BY <1>1 DEF NoteApproved
<1>5. TypeOK'
  BY <1>1, <1>2, <1>4 DEF IInv, TypeOK, Work
<1>6. \A w \in Version : (Unanimous(w)' <=> Unanimous(w)) /\ (Submitted(w)' <=> Submitted(w))
  BY <1>1 DEF Unanimous, Submitted
<1>7. UnanimousIsPast'
  BY <1>2, <1>3, <1>6 DEF IInv, RowsInv, UnanimousIsPast, Past
<1>8. ApprovedByAll'
  BY <1>2, <1>3, <1>4, <1>6 DEF IInv, RowsInv, ApprovedByAll
<1>9. PendingIsLast' /\ RoundsBounded'
  BY <1>1 DEF IInv, RowsInv, PendingIsLast, Open, RoundsBounded
<1>10. ASSUME NEW d \in Client, work'[d] # Idle
       PROVE  CopyOK(d, work[d])'
  <2>1. /\ d # c /\ work'[d] = work[d] /\ FlagOK(d, work[d])'
        /\ d \notin outdated' => d \notin outdated /\ work[d].doc # v
    BY <1>2, <1>10
  <2>2. CopyOK(d, work[d])
    BY <2>1, <1>10 DEF IInv, WorkInv
  <2>3. d \notin outdated' /\ work[d].op \in {"submit", "conclude"} =>
          status'[work[d].doc] = status[work[d].doc]
    BY <2>1, <1>2, <1>10, WorkType DEF IInv
  <2>4. SubmitOK(d, work[d])'
    <3>1. SubmitOK(d, work[d])
      BY <2>2 DEF CopyOK
    <3>2. work'[d] = work[d] /\ rows' = rows
      BY <2>1, <1>1
    <3> QED
      BY ONLY <3>1, <3>2, <2>1, <2>3 DEF SubmitOK, Open
  <2>5. DecisionOK(d, work[d])'
    <3>1. PICK x : x = work[d] /\ x = work'[d]
      BY <2>1
    <3>2. DecisionOK(d, x) /\ rows' = rows /\ stale' = stale /\ review' = review
      BY <2>2, <3>1, <1>1 DEF CopyOK
    <3>3. x.op \in {"decide", "conclude"} => x.user \in User
      BY <3>1, <1>10, <2>1, WorkType DEF IInv, DecisionWork
    <3>4. DecisionOK(d, x)'
      BY ONLY <3>2, <3>3, DecisionKept
    <3> QED
      BY ONLY <3>1, <3>4 DEF DecisionOK
  <2>6. ConcludeOK(d, work[d])'
    <3>1. PICK x : x = work[d] /\ x = work'[d]
      BY <2>1
    <3>2. ConcludeOK(d, x) /\ stale' = stale
      BY <2>2, <3>1, <1>1 DEF CopyOK
    <3>3. x.op = "conclude" /\ d \notin outdated' =>
            /\ d \notin outdated
            /\ status'[x.doc] = status[x.doc] /\ rows'[x.doc] = rows[x.doc]
      BY <2>1, <2>3, <3>1, <1>1
    <3>4. ConcludeOK(d, x)'
      BY ONLY <3>2, <3>3, ConcludeKept
    <3> QED
      BY ONLY <3>1, <3>4 DEF ConcludeOK
  <2>7. ContractOK(d, work[d])'
    BY <2>1, <2>2, <1>1 DEF CopyOK, ContractOK
  <2> QED
    BY <2>1, <2>4, <2>5, <2>6, <2>7 DEF CopyOK
<1> QED
  BY <1>2, <1>5, <1>7, <1>8, <1>9, <1>10 DEF IInv, RowsInv, WorkInv

-----------------------------------------------------------------------------
(* The theorems *)

LEMMA NextInv == IInv /\ [Next]_vars => IInv'
<1> SUFFICES ASSUME IInv, [Next]_vars
             PROVE  IInv'
  OBVIOUS
<1>1. CASE Next
  <2> SUFFICES ASSUME NEW c \in Client,
                      \/ OpenContract(c) \/ CommitContract(c)
                      \/ \E v \in Version :
                           \/ BeginSubmit(c, v)
                           \/ \E u \in User : BeginApprove(c, v, u) \/ BeginReject(c, v, u)
                           \/ \E a \in DeskActions : BeginAction(c, v, a)
                      \/ CommitSubmit(c) \/ CommitDecide(c) \/ CommitConclude(c) \/ CommitAction(c)
                      \/ Abandon(c)
               PROVE  IInv'
    BY <1>1 DEF Next
  <2>1. CASE OpenContract(c) \/ CommitContract(c)
    BY <2>1, OpenContractStep, CommitContractStep
  <2>2. CASE \E v \in Version : BeginSubmit(c, v)
    BY <2>2, BeginSubmitStep
  <2>3. CASE \E v \in Version, u \in User : BeginApprove(c, v, u) \/ BeginReject(c, v, u)
    BY <2>3, BeginApproveStep, BeginRejectStep
  <2>4. CASE \E v \in Version, a \in DeskActions : BeginAction(c, v, a)
    BY <2>4, BeginActionStep
  <2>5. CASE CommitSubmit(c) \/ CommitAction(c)
    BY <2>5, CommitSubmitStep, CommitActionStep
  <2>6. CASE CommitDecide(c) \/ CommitConclude(c)
    BY <2>6, CommitDecideStep, CommitConcludeStep
  <2>7. CASE Abandon(c)
    BY <2>7, AbandonStep
  <2> QED
    BY <2>1, <2>2, <2>3, <2>4, <2>5, <2>6, <2>7
<1>2. CASE UNCHANGED vars
  <2>1. OneIsCurrent' /\ RowsInv'
    BY <1>2, KeepRows DEF vars
  <2>2. TypeOK'
    BY <1>2 DEF vars, IInv, TypeOK
  <2>3. ASSUME NEW d \in Client, work'[d] # Idle
        PROVE  CopyOK(d, work[d])'
    <3>1. work'[d] = work[d] /\ CopyOK(d, work[d])
      BY <1>2, <2>3 DEF vars, IInv, WorkInv
    <3> QED
      BY <1>2, <3>1, KeepCopy DEF vars
  <2> QED
    BY <2>1, <2>2, <2>3 DEF IInv, WorkInv
<1> QED
  BY <1>1, <1>2

\* The inductive invariant: what the copies of the contract and of the versions
\* still say while the two timestamps have not caught up with them.
THEOREM ReviewInvariance == Spec => []IInv
BY InitInv, NextInv, PTL DEF Spec

\* Every variable of the review keeps its type.
THEOREM ReviewTypeCorrect == Spec => []TypeOK
<1>1. IInv => TypeOK
  BY DEF IInv
<1> QED
  BY <1>1, ReviewInvariance, PTL

\* _check_all_approved: two approvers deciding at the same moment never leave a
\* version Under Review with all its approvals Approved.
THEOREM CompletionNotLost == Spec => []NoLostCompletion
<1>1. IInv => NoLostCompletion
  BY DEF IInv, RowsInv, UnanimousIsPast, NoLostCompletion, Past
<1> QED
  BY <1>1, ReviewInvariance, PTL

\* validate_duplicate_pending_approval: an approver never has two pending
\* approvals of one version, although the check is a plain read.
THEOREM OnePending == Spec => []OnePendingPerApprover
<1>1. IInv => OnePendingPerApprover
  BY DEF IInv, RowsInv, PendingIsLast, OnePendingPerApprover
<1> QED
  BY <1>1, ReviewInvariance, PTL

\* A version is approved, or past it, by all of its approvals, unless the desk
\* applied the Approve action itself.
THEOREM ApprovalNeedsAll == Spec => []ApprovedByAll
<1>1. IInv => ApprovedByAll
  BY DEF IInv, RowsInv
<1> QED
  BY <1>1, ReviewInvariance, PTL

\* Opening a form and the first half of a request write nothing, nor does giving up.
LEMMA WritingSteps ==
    ASSUME Next, ~UNCHANGED <<status, rows, review>>
    PROVE  \E c \in Client : \/ CommitContract(c) \/ CommitSubmit(c) \/ CommitDecide(c)
                             \/ CommitConclude(c) \/ CommitAction(c)
<1>1. \A c \in Client : OpenContract(c) \/ Abandon(c) => UNCHANGED <<status, rows, review>>
  BY DEF OpenContract, Abandon
<1>2. \A c \in Client, v \in Version : BeginSubmit(c, v) => UNCHANGED <<status, rows, review>>
  BY DEF BeginSubmit
<1>3. \A c \in Client, v \in Version, u \in User :
         BeginApprove(c, v, u) \/ BeginReject(c, v, u) => UNCHANGED <<status, rows, review>>
  BY DEF BeginApprove, BeginReject
<1>4. \A c \in Client, v \in Version, a \in DeskActions :
         BeginAction(c, v, a) => UNCHANGED <<status, rows, review>>
  BY DEF BeginAction
<1> QED
  BY <1>1, <1>2, <1>3, <1>4 DEF Next

\* Of all steps, three write approvals.
LEMMA RowsWritten ==
    ASSUME Next, rows' # rows
    PROVE  \E c \in Client : CommitSubmit(c) \/ CommitDecide(c) \/ CommitConclude(c)
<1>1. \A c \in Client : CommitContract(c) \/ CommitAction(c) => rows' = rows
  BY DEF CommitContract, CommitAction
<1> QED
  BY <1>1, WritingSteps

\* No step undoes a decision.
LEMMA DecidedStep ==
    ASSUME IInv, [Next]_vars, NEW v \in Version, NEW u \in User, NEW i \in DOMAIN rows[v][u],
           rows[v][u][i] # "Pending"
    PROVE  i \in DOMAIN rows'[v][u] /\ rows'[v][u][i] = rows[v][u][i]
<1> SUFFICES ASSUME rows' # rows
             PROVE  i \in DOMAIN rows'[v][u] /\ rows'[v][u][i] = rows[v][u][i]
  OBVIOUS
<1>1. PICK c \in Client : CommitSubmit(c) \/ CommitDecide(c) \/ CommitConclude(c)
  BY RowsWritten DEF vars
<1>2. PICK w \in Version : w = work[c].doc
  BY <1>1, WorkType DEF CommitSubmit, CommitDecide, CommitConclude, Busy, IInv
<1>3. CASE CommitSubmit(c)
  <2>1. /\ work[c] # Idle /\ work[c].op = "submit" /\ c \notin outdated
        /\ rows' = [rows EXCEPT ![w] = [x \in User |-> Append(rows[w][x], "Pending")]]
    BY <1>2, <1>3 DEF CommitSubmit, Busy, SaveVersion, MaySave, IsLatest
  <2>2. \A x \in User : Open(w, x) = {} /\ Len(rows[w][x]) < MaxRounds
    BY <1>2, <2>1 DEF IInv, WorkInv, CopyOK, SubmitOK
  <2>3. \A x \in User : \A j \in DOMAIN rows[v][x] :
          j \in DOMAIN rows'[v][x] /\ rows'[v][x][j] = rows[v][x][j]
    BY <2>1, <2>2, SubmitRows
  <2> QED
    BY <2>3
<1>4. CASE CommitDecide(c) \/ CommitConclude(c)
  <2>1. /\ work[c] # Idle /\ work[c].op \in {"decide", "conclude"}
        /\ WriteApproval(c) /\ UpdateCollaborator(c)
    BY <1>4 DEF CommitDecide, CommitConclude, Busy
  <2>2. c \notin stale
    BY <2>1, ContractStep
  <2> QED
    BY <1>2, <2>1, <2>2, DecideRows
<1> QED
  BY <1>1, <1>3, <1>4

\* frappe.db.set_value writes blindly, and still no decided approval is ever
\* decided again or removed.
THEOREM DecidedOnce == Spec => DecisionsAreFinal
<1>1. ASSUME IInv, [Next]_vars
      PROVE  [\A v \in Version, u \in User : \A i \in DOMAIN rows[v][u] :
                rows[v][u][i] # "Pending" =>
                    i \in DOMAIN rows'[v][u] /\ rows'[v][u][i] = rows[v][u][i]]_vars
  BY <1>1, DecidedStep
<1> QED
  BY <1>1, ReviewInvariance, PTL DEF Spec, DecisionsAreFinal

-----------------------------------------------------------------------------
(* The implementation of ReviewProtocol *)

\* As long as the version is as it was loaded, the workflow action a client is
\* about to commit is one the version has.  (A version form saved without an
\* action, which only Portal has, carries the status of the row.)
ActionOK(c) ==
    (work[c] # Idle /\ work[c].op = "action" /\ c \notin outdated) =>
        \/ work[c].status = status[work[c].doc]
        \/ \E a \in DeskActions : \E r \in Outcomes(status[work[c].doc], a) :
               work[c].status = r.next

ActionInv == \A c \in Client : ActionOK(c)

LEMMA NextActionInv == IInv /\ ActionInv /\ [Next]_vars => ActionInv'
<1> SUFFICES ASSUME IInv, ActionInv, [Next]_vars, NEW d \in Client
             PROVE  ActionOK(d)'
  BY DEF ActionInv
<1>1. ASSUME work'[d] = work[d], d \in outdated => d \in outdated',
             work[d] # Idle /\ work[d].op = "action" /\ d \notin outdated' =>
                 status'[work[d].doc] = status[work[d].doc]
      PROVE  ActionOK(d)'
  BY <1>1 DEF ActionInv, ActionOK, Outcomes
<1>3. ASSUME NEW c \in Client, Rollback(c), UNCHANGED status
      PROVE  ActionOK(d)'
  <2>1. IF c = d THEN work'[d] = Idle ELSE work'[d] = work[d] /\ (d \in outdated => d \in outdated')
    BY <1>3 DEF Rollback, Release, IInv, TypeOK
  <2> QED
    BY <1>1, <1>3, <2>1 DEF ActionOK
<1>4. ASSUME NEW c \in Client, work[c] # Idle, work[c].op \in {"submit", "action", "conclude"},
             SaveVersion(c, work[c].status)
      PROVE  ActionOK(d)'
  <2>1. CASE work'[d] = Idle
    BY <2>1 DEF ActionOK
  <2>2. CASE work'[d] # Idle
    <3>1. /\ work'[d] = work[d]
          /\ d \notin outdated' => d \notin outdated /\ work[d].doc # work[c].doc
          /\ \A v \in Version \ {work[c].doc} : status'[v] = status[v]
      BY <1>4, <2>2, VersionStep
    <3>2. work[d].op = "action" => work[d].doc \in Version
      BY <2>2, <3>1, WorkType DEF IInv
    <3> QED
      BY <1>1, <3>1, <3>2
  <2> QED
    BY <2>1, <2>2
<1>5. ASSUME NEW c \in Client, NEW v \in Version, NEW a \in DeskActions, BeginAction(c, v, a)
      PROVE  ActionOK(d)'
  <2>1. PICK r \in Outcomes(status[v], a) :
          Hold(c, [op |-> "action", doc |-> v, status |-> r.next,
                   current |-> v \in current, seen |-> current])
    BY <1>5 DEF BeginAction
  <2>2. UNCHANGED <<status, outdated>>
    BY <1>5 DEF BeginAction
  <2>3. CASE c = d
    <3>1. work'[d].doc = v /\ work'[d].status = r.next
      BY <2>1, <2>3 DEF Hold, IInv, TypeOK
    <3> QED
      BY <2>2, <3>1 DEF ActionOK, Outcomes
  <2>4. CASE c # d
    <3>1. work'[d] = work[d]
      BY <2>1, <2>4 DEF Hold, IInv, TypeOK
    <3> QED
      BY <1>1, <2>2, <3>1
  <2> QED
    BY <2>3, <2>4
<1>6. CASE UNCHANGED vars
  BY <1>1, <1>6 DEF vars
<1>7. ASSUME NEW c \in Client,
             \/ OpenContract(c)
             \/ \E v \in Version :
                  BeginSubmit(c, v) \/ \E u \in User : BeginApprove(c, v, u) \/ BeginReject(c, v, u)
      PROVE  ActionOK(d)'
  <2> DEFINE Loads(e) == IF e = c THEN work'[e].op # "action" ELSE work'[e] = work[e]
  <2>1. ASSUME NEW v \in Version, NEW u \in User, BeginApprove(c, v, u) \/ BeginReject(c, v, u)
        PROVE  Loads(d)
    <3>1. PICK i \in DOMAIN rows[v][u] :
            \/ Hold(c, Decision(v, u, i, "decide", "Approved"))
            \/ Hold(c, Decision(v, u, i, "conclude", "Approved"))
            \/ Hold(c, Decision(v, u, i, "conclude", "Rejected"))
      BY <2>1 DEF BeginApprove, BeginReject
    <3> QED
      BY <3>1 DEF Hold, Decision, IInv, TypeOK
  <2>2. Loads(d)
    <3>1. CASE OpenContract(c)
      BY <3>1 DEF OpenContract, Hold, IInv, TypeOK
    <3>2. ASSUME NEW v \in Version, BeginSubmit(c, v)
          PROVE  Loads(d)
      BY <3>2 DEF BeginSubmit, Hold, IInv, TypeOK
    <3> QED
      BY <1>7, <2>1, <3>1, <3>2
  <2>3. UNCHANGED <<status, outdated>>
    BY <1>7 DEF OpenContract, BeginSubmit, BeginApprove, BeginReject
  <2> QED
    BY <1>1, <2>1, <2>2, <2>3 DEF ActionOK
<1>8. ASSUME NEW c \in Client, CommitContract(c) \/ CommitDecide(c) \/ Abandon(c)
      PROVE  ActionOK(d)'
  BY <1>3, <1>8 DEF CommitContract, CommitDecide, Abandon
<1>9. ASSUME NEW c \in Client, CommitSubmit(c) \/ CommitConclude(c) \/ CommitAction(c)
      PROVE  ActionOK(d)'
  BY <1>4, <1>9 DEF CommitSubmit, CommitConclude, CommitAction, Busy
<1> QED
  BY <1>5, <1>6, <1>7, <1>8, <1>9 DEF Next

\* A commit is a step of the protocol, or leaves approvals, statuses and
\* review_status alone.
LEMMA ProtocolStep ==
    ASSUME IInv, ActionInv, [Next]_vars
    PROVE  [Protocol!Next]_<<status, rows, review>>
<1>1. ASSUME NEW c \in Client, CommitSubmit(c)
      PROVE  Protocol!Next
  <2>1. /\ work[c] # Idle /\ work[c].op = "submit" /\ c \notin outdated
        /\ status' = [status EXCEPT ![work[c].doc] = work[c].status]
        /\ rows' = [rows EXCEPT ![work[c].doc] =
                      [x \in User |-> Append(rows[work[c].doc][x], "Pending")]]
        /\ review' = review
    BY <1>1 DEF CommitSubmit, Busy, SaveVersion, MaySave, IsLatest, WriteVersion
  <2>2. work[c].doc \in Version
    BY <2>1, WorkType DEF IInv
  <2>3. /\ status[work[c].doc] = "Draft" /\ work[c].status = "Under Review"
        /\ \A u \in User : Open(work[c].doc, u) = {}
    BY <2>1 DEF IInv, WorkInv, CopyOK, SubmitOK
  <2>4. Protocol!Submit(work[c].doc)
    BY <2>1, <2>3 DEF Protocol!Submit, Protocol!Open, Open
  <2> QED
    BY <2>2, <2>4 DEF Protocol!Next
<1>2. ASSUME NEW c \in Client, CommitDecide(c) \/ CommitConclude(c)
      PROVE  Protocol!Next
  <2>1. /\ work[c] # Idle /\ work[c].op \in {"decide", "conclude"}
        /\ WriteApproval(c) /\ UpdateCollaborator(c)
    BY <1>2 DEF CommitDecide, CommitConclude, Busy
  <2>2. c \notin stale /\ review' = [work[c].review EXCEPT ![work[c].user] = work[c].status]
    BY <2>1, ContractStep DEF UpdateCollaborator, SaveContract
  <2>3. PICK v \in Version : v = work[c].doc
    BY <2>1, WorkType DEF IInv
  <2>4. PICK u \in User : u = work[c].user
    BY <2>1, WorkType DEF IInv, DecisionWork
  <2>5. /\ work[c].row \in Open(v, u) /\ work[c].review = review
        /\ Unanimous(v)' <=> work[c].status = "Approved" /\ AllApproved(v, u, work[c].row)
    BY <2>1, <2>2, <2>3, <2>4, DecideRows
  <2>6. Protocol!Decide(v, u, work[c].status)
    <3>1. rows' = [rows EXCEPT ![v][u][work[c].row] = work[c].status]
      BY <2>1, <2>3, <2>4 DEF WriteApproval
    <3>2. review' = [review EXCEPT ![u] = work[c].status]
      BY <2>2, <2>4, <2>5
    <3> QED
      BY <3>1, <3>2, <2>5 DEF Protocol!Decide, Protocol!Open, Open
  <2>7. CASE CommitDecide(c)
    <3>1. status' = status /\ work[c].status = "Approved" /\ ~AllApproved(v, u, work[c].row)
      BY <2>2, <2>3, <2>4, <2>7
         DEF CommitDecide, Busy, IInv, WorkInv, CopyOK, DecisionOK
    <3>2. ~Protocol!Unanimous(v)'
      BY <2>5, <3>1 DEF Protocol!Unanimous, Unanimous
    <3>3. Protocol!Approve(v, u)
      BY <2>6, <3>1, <3>2 DEF Protocol!Approve
    <3> QED
      BY <3>3 DEF Protocol!Next
  <2>8. CASE CommitConclude(c)
    <3>1. /\ work[c].op = "conclude" /\ c \notin outdated
          /\ status' = [status EXCEPT ![v] = work[c].status]
      BY <2>3, <2>8 DEF CommitConclude, Busy, SaveVersion, MaySave, IsLatest, WriteVersion
    <3>2. /\ CanTransition(status[v], work[c].status)
          /\ work[c].status = "Approved" => AllApproved(v, u, work[c].row)
      BY <2>1, <2>2, <2>3, <2>4, <3>1 DEF IInv, WorkInv, CopyOK, ConcludeOK
    <3>3. CASE work[c].status = "Approved"
      <4>1. Protocol!Unanimous(v)'
        BY <2>5, <3>2, <3>3 DEF Protocol!Unanimous, Unanimous
      <4>2. Protocol!Approve(v, u)
        BY <2>6, <3>1, <3>2, <3>3, <4>1
           DEF Protocol!Approve, Protocol!CanTransition, CanTransition,
               Protocol!VERSION_TRANSITIONS, VERSION_TRANSITIONS, Protocol!Status, Status,
               Protocol!TransitionPairs, TransitionPairs
      <4> QED
        BY <4>2 DEF Protocol!Next
    <3>4. CASE work[c].status = "Rejected"
      <4>1. Protocol!Reject(v, u)
        BY <2>6, <3>1, <3>2, <3>4
           DEF Protocol!Reject, Protocol!CanTransition, CanTransition,
               Protocol!VERSION_TRANSITIONS, VERSION_TRANSITIONS, Protocol!Status, Status,
               Protocol!TransitionPairs, TransitionPairs
      <4> QED
        BY <4>1 DEF Protocol!Next
    <3>5. work[c].status \in {"Approved", "Rejected"}
      BY <2>1, WorkType DEF IInv, DecisionWork
    <3> QED
      BY <3>3, <3>4, <3>5
  <2> QED
    BY <1>2, <2>7, <2>8
<1>3. ASSUME NEW c \in Client, CommitAction(c)
      PROVE  Protocol!Next \/ UNCHANGED <<status, rows, review>>
  <2>1. /\ work[c] # Idle /\ work[c].op = "action" /\ c \notin outdated
        /\ status' = [status EXCEPT ![work[c].doc] = work[c].status]
        /\ UNCHANGED <<rows, review>>
    BY <1>3 DEF CommitAction, Busy, SaveVersion, MaySave, IsLatest, WriteVersion
  <2>2. work[c].doc \in Version
    BY <2>1, WorkType DEF IInv
  <2>3. CASE work[c].status = status[work[c].doc]
    BY <2>1, <2>2, <2>3 DEF IInv, TypeOK
  <2>4. CASE work[c].status # status[work[c].doc]
    <3>1. PICK a \in DeskActions :
            \E r \in Outcomes(status[work[c].doc], a) : work[c].status = r.next
      BY <2>1, <2>4 DEF ActionInv, ActionOK
    <3>2. Protocol!Desk(work[c].doc, a)
      BY <2>1, <3>1 DEF Protocol!Desk, Protocol!Outcomes, Outcomes, Protocol!WorkflowTable,
         WorkflowTable, Protocol!Row, Row, Protocol!ReviseRow, ReviseRow
    <3> QED
      BY <2>2, <3>2 DEF Protocol!Next
  <2> QED
    BY <2>3, <2>4
<1>4. ASSUME NEW c \in Client, CommitContract(c)
      PROVE  UNCHANGED <<status, rows, review>>
  BY <1>4 DEF CommitContract, Busy, SaveContract, ContractLatest, IInv, WorkInv, CopyOK,
     ContractOK
<1>5. UNCHANGED vars => UNCHANGED <<status, rows, review>>
  BY DEF vars
<1> QED
  BY <1>1, <1>2, <1>3, <1>4, <1>5, WritingSteps

\* Whatever approvals, statuses and review_status requests leave behind, the same
\* requests run one after the other leave behind too.
THEOREM ReviewRefinement == Spec => FollowsProtocol
<1>1. Init => Protocol!Init
  BY DEF Init, Protocol!Init
<1>2. Init => ActionInv
  BY DEF Init, ActionInv, ActionOK
<1>3. IInv /\ ActionInv /\ [Next]_vars => [Protocol!Next]_<<status, rows, review>>
  BY ProtocolStep
<1> QED
  BY <1>1, <1>2, <1>3, NextActionInv, ReviewInvariance, PTL
     DEF Spec, FollowsProtocol, Protocol!Spec, Protocol!vars
=============================================================================
