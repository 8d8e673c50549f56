---------------------------- MODULE PortalProofs ----------------------------
(***************************************************************************)
(* Proofs of the properties of Portal, for any set of versions, approvers  *)
(* and clients, and any number of rounds.                                  *)
(***************************************************************************)
EXTENDS Portal, ApprovalsProofs

\* A client in the portal is deciding the portal user's approval of the version
\* that was current when its request began.
ReviewOK(c) ==
    /\ c \in Client
    /\ work[c] # Idle
    /\ work[c].op \in {"decide", "conclude"}
    /\ work[c].user = PortalUser
    /\ work[c].seen = {work[c].doc}

ReviewInv == \A c \in portal : ReviewOK(c)

\* The portal user's remarks are on approvals of theirs that are decided.
RemarkInv ==
    \A e \in remark : \E v \in Version : \E i \in DOMAIN rows[v][PortalUser] :
        e = <<v, i>> /\ rows[v][PortalUser][i] # "Pending"

PortalIInv == IInv /\ page \in Payload /\ ReviewInv /\ RemarkInv

-----------------------------------------------------------------------------
(* The payload *)

\* The newest of an approver's approvals is one, or there is none.
LEMMA NewestOf ==
    ASSUME TypeOK, NEW v \in Version, NEW u \in User
    PROVE  /\ rows[v][u] = <<>> => Newest(rows[v][u]) = None
           /\ rows[v][u] # <<>> =>
                /\ Newest(rows[v][u]) = rows[v][u][Len(rows[v][u])]
                /\ Len(rows[v][u]) \in DOMAIN rows[v][u]
           /\ Newest(rows[v][u]) \in ApprovalStatus \union {None}
<1>1. /\ Len(rows[v][u]) \in Nat /\ DOMAIN rows[v][u] = 1..Len(rows[v][u])
      /\ \A i \in DOMAIN rows[v][u] : rows[v][u][i] \in ApprovalStatus
  BY RowsType
<1>2. rows[v][u] # <<>> => Len(rows[v][u]) # 0
  BY EmptySeq DEF TypeOK
<1>3. rows[v][u] # <<>> => Len(rows[v][u]) \in DOMAIN rows[v][u]
  BY <1>1, <1>2
<1> QED
  BY <1>1, <1>3 DEF Newest

\* The newest approval is Pending exactly when one is.
LEMMA NewestIsOpen ==
    ASSUME TypeOK, PendingIsLast, NEW v \in Version, NEW u \in User
    PROVE  Newest(rows[v][u]) = "Pending" <=> Open(v, u) # {}
<1>1. None # "Pending"
  BY PortalAssumption DEF ApprovalStatus
<1>2. ASSUME Newest(rows[v][u]) = "Pending"
      PROVE  Len(rows[v][u]) \in Open(v, u)
  BY <1>1, <1>2, NewestOf DEF Open
<1>3. ASSUME NEW i \in Open(v, u)
      PROVE  Newest(rows[v][u]) = "Pending"
  <2>1. i = Len(rows[v][u]) /\ i \in DOMAIN rows[v][u] /\ rows[v][u][i] = "Pending"
    BY <1>3 DEF PendingIsLast, Open
  <2>2. rows[v][u] # <<>>
    BY <2>1
  <2> QED
    BY <2>1, <2>2, NewestOf
<1> QED
  BY <1>2, <1>3

LEMMA CurrentIs ==
    ASSUME NEW v
    PROVE  CurrentVersion({v}) = v
BY DEF CurrentVersion

LEMMA DetailType == IInv => Detail(current, status, rows) \in Payload
<1> SUFFICES ASSUME IInv PROVE Detail(current, status, rows) \in Payload
  OBVIOUS
<1>1. PICK v \in Version : current = {v}
  BY DEF IInv, OneIsCurrent
<1>2. CurrentVersion(current) = v
  BY <1>1, CurrentIs
<1>3. LastApprover \in User /\ PortalUser \in User
  BY PortalAssumption
<1>4. /\ LatestApproval(v, rows) \in ApprovalStatus \union {None}
      /\ UserApproval(v, rows) \in ApprovalStatus \union {None}
  BY <1>3, NewestOf DEF IInv, LatestApproval, UserApproval
<1> DEFINE can == status[v] = "Under Review" /\ UserApproval(v, rows) = "Pending"
<1>5. can \in BOOLEAN
  OBVIOUS
<1>6. Detail(current, status, rows) =
        [current_version |-> v, approval |-> LatestApproval(v, rows),
         can_review |-> can, review_state |-> UserApproval(v, rows)]
  BY <1>2 DEF Detail
<1> HIDE DEF can
<1> QED
  BY <1>4, <1>5, <1>6 DEF Payload

-----------------------------------------------------------------------------
(* Steps *)

\* A step of one client leaves the copies of the others alone.
LEMMA OthersKeep ==
    ASSUME TypeOK, NEW c \in Client, NEW d \in Client, c # d,
           \/ \E v \in Version :
                \/ BeginSubmit(d, v) \/ \E tick \in BOOLEAN : OpenForm(d, v, tick)
                \/ \E u \in User : BeginApprove(d, v, u) \/ BeginReject(d, v, u)
                \/ \E a \in DeskActions : BeginAction(d, v, a)
           \/ CommitSubmit(d) \/ CommitDecide(d) \/ CommitConclude(d) \/ CommitAction(d)
           \/ Abandon(d)
    PROVE  work'[c] = work[c]
<1>1. ASSUME NEW w, Hold(d, w) PROVE work'[c] = work[c]
  BY <1>1 DEF Hold, TypeOK
<1>2. ASSUME Release(d) PROVE work'[c] = work[c]
  BY <1>2 DEF Release, TypeOK
<1>3. ASSUME NEW v \in Version, BeginSubmit(d, v) \/ \E tick \in BOOLEAN : OpenForm(d, v, tick)
      PROVE  work'[c] = work[c]
  BY <1>1, <1>3 DEF BeginSubmit, OpenForm
<1>4. ASSUME NEW v \in Version, NEW u \in User, BeginApprove(d, v, u) \/ BeginReject(d, v, u)
      PROVE  work'[c] = work[c]
  BY <1>1, <1>4 DEF BeginApprove, BeginReject
<1>5. ASSUME NEW v \in Version, NEW a \in DeskActions, BeginAction(d, v, a)
      PROVE  work'[c] = work[c]
  BY <1>1, <1>5 DEF BeginAction
<1>6. CommitSubmit(d) \/ CommitDecide(d) \/ CommitConclude(d) \/ CommitAction(d) \/ Abandon(d)
        => work'[c] = work[c]
  BY <1>2 DEF CommitSubmit, CommitDecide, CommitConclude, CommitAction, Abandon, SaveVersion,
     WriteVersion, Rollback
<1> QED
  BY <1>3, <1>4, <1>5, <1>6

LEMMA OpenFormStep ==
    ASSUME IInv, NEW c \in Client, NEW v \in Version, NEW tick \in BOOLEAN, OpenForm(c, v, tick)
    PROVE  IInv'
<1> DEFINE w == [op |-> "action", doc |-> v, status |-> status[v], current |-> tick,
                 seen |-> current]
<1>1. status[v] \in Status /\ current \in SUBSET Version
  BY DEF IInv, TypeOK
<1>2. w \in VersionWork
  BY <1>1 DEF VersionWork
<1>3. w \in Work
  BY <1>2 DEF Work
<1>4. FlagOK(c, w)
  BY DEF FlagOK, IInv, OneIsCurrent
<1>5. CopyOK(c, w)
  BY <1>4 DEF CopyOK, SubmitOK, DecisionOK, ConcludeOK, ContractOK
<1> QED
  BY <1>3, <1>5, HoldStep DEF OpenForm

\* A step of the portal is one of the review, or opens the form of a version.
LEMMA StepIsReview ==
    ASSUME TypeOK, [PortalNext]_allVars
    PROVE  [Next]_vars \/ \E c \in Client, v \in Version, tick \in BOOLEAN : OpenForm(c, v, tick)
<1>1. CASE LoadDetail
  BY <1>1 DEF LoadDetail
<1>2. ASSUME NEW c \in Client, BeginReview(c)
      PROVE  \E v \in Version : BeginApprove(c, v, PortalUser) \/ BeginReject(c, v, PortalUser)
  BY <1>2 DEF BeginReview, VersionsToReview, TypeOK
<1>3. ASSUME NEW c \in Client, CommitReview(c) \/ FailReview(c)
      PROVE  Next
  BY <1>3 DEF CommitReview, FailReview, Next
<1>4. ASSUME NEW c \in Client, Desk(c)
      PROVE  Next \/ \E v \in Version, tick \in BOOLEAN : OpenForm(c, v, tick)
  BY <1>4 DEF Desk, Next
<1>5. CASE UNCHANGED allVars
  BY <1>5 DEF allVars
<1> QED
  BY <1>1, <1>2, <1>3, <1>4, <1>5, PortalAssumption DEF PortalNext, Next

\* What a portal user's request decides.
LEMMA BeginReviewStep ==
    ASSUME IInv, NEW c \in Client, BeginReview(c)
    PROVE  /\ work'[c] \in DecisionWork /\ work'[c] # Idle
           /\ work'[c].user = PortalUser
           /\ work'[c].seen = {work'[c].doc}
           /\ work[c] = Idle
           /\ \A d \in Client \ {c} : work'[d] = work[d]
           /\ rows' = rows
<1>1. PortalUser \in User
  BY PortalAssumption
<1>2. PICK v \in current : BeginApprove(c, v, PortalUser) \/ BeginReject(c, v, PortalUser)
  BY DEF BeginReview, VersionsToReview
<1>3. v \in Version /\ current = {v}
  BY <1>2 DEF IInv, TypeOK, OneIsCurrent
<1>4. PICK i \in DOMAIN rows[v][PortalUser] :
        \/ Hold(c, Decision(v, PortalUser, i, "decide", "Approved"))
        \/ Hold(c, Decision(v, PortalUser, i, "conclude", "Approved"))
        \/ Hold(c, Decision(v, PortalUser, i, "conclude", "Rejected"))
  BY <1>2 DEF BeginApprove, BeginReject
<1>5. PICK op \in {"decide", "conclude"}, decision \in {"Approved", "Rejected"} :
        Hold(c, Decision(v, PortalUser, i, op, decision))
  BY <1>4
<1>6. Decision(v, PortalUser, i, op, decision) \in DecisionWork
  BY <1>1, <1>3, DecisionWorks
<1>7. work'[c] = Decision(v, PortalUser, i, op, decision)
  BY <1>5 DEF Hold, IInv, TypeOK
<1>8. \A d \in Client \ {c} : work'[d] = work[d]
  BY <1>5 DEF Hold, IInv, TypeOK
<1>9. /\ work'[c].user = PortalUser
      /\ work'[c].seen = {work'[c].doc}
  BY <1>3, <1>7 DEF Decision
<1>10. work[c] = Idle /\ rows' = rows
  BY <1>2 DEF BeginApprove, BeginReject
<1> QED
  BY <1>6, <1>7, <1>8, <1>9, <1>10, IdleAssumption

\* A portal user's decision, committed.
LEMMA CommitReviewStep ==
    ASSUME IInv, ReviewInv, NEW c \in portal, CommitDecide(c) \/ CommitConclude(c)
    PROVE  LET v == work[c].doc IN
           /\ v \in Version
           /\ work[c].row = Len(rows[v][PortalUser])
           /\ work[c].row \in DOMAIN rows'[v][PortalUser]
           /\ Len(rows'[v][PortalUser]) = Len(rows[v][PortalUser])
           /\ rows'[v][PortalUser][work[c].row] = work[c].status
           /\ work[c].status \in {"Approved", "Rejected"}
           /\ work[c].seen = {v}
<1>1. /\ c \in Client /\ work[c] # Idle /\ work[c].op \in {"decide", "conclude"}
      /\ work[c].user = PortalUser /\ work[c].seen = {work[c].doc}
  BY DEF ReviewInv, ReviewOK
<1>2. WriteApproval(c) /\ UpdateCollaborator(c)
  BY DEF CommitDecide, CommitConclude
<1>3. PICK v \in Version : v = work[c].doc
  BY <1>1, WorkType DEF IInv
<1>4. c \notin stale
  BY <1>1, <1>2, ContractStep
<1>5. /\ \A w \in Version, x \in User :
           DOMAIN rows'[w][x] = DOMAIN rows[w][x] /\ Len(rows'[w][x]) = Len(rows[w][x])
      /\ work[c].user \in User /\ work[c].row \in Open(v, work[c].user)
      /\ rows'[v][work[c].user][work[c].row] = work[c].status
  BY <1>1, <1>2, <1>3, <1>4, DecideRows
<1>6. work[c].row = Len(rows[v][PortalUser])
  BY <1>1, <1>5 DEF IInv, RowsInv, PendingIsLast
<1>7. work[c].row \in DOMAIN rows[v][PortalUser]
  BY <1>1, <1>5 DEF Open
<1>8. work[c].status \in {"Approved", "Rejected"}
  BY <1>1, WorkType DEF IInv, DecisionWork
<1> QED
  BY <1>1, <1>3, <1>5, <1>6, <1>7, <1>8

LEMMA PortalInitInv == PortalInit => PortalIInv
<1> SUFFICES ASSUME PortalInit PROVE PortalIInv
  OBVIOUS
<1>1. IInv
  BY InitInv DEF PortalInit
<1>2. page \in Payload
  BY <1>1, DetailType DEF PortalInit
<1> QED
  BY <1>1, <1>2 DEF PortalInit, PortalIInv, ReviewInv, ReviewOK, RemarkInv

LEMMA NextReviewInv ==
    ASSUME PortalIInv, PortalNext
    PROVE  ReviewInv'
<1>1. CASE LoadDetail
  BY <1>1 DEF LoadDetail, vars, PortalIInv, ReviewInv, ReviewOK
<1>2. ASSUME NEW c \in Client, BeginReview(c)
      PROVE  ReviewInv'
  <2> SUFFICES ASSUME NEW d \in portal'
               PROVE  ReviewOK(d)'
    BY DEF ReviewInv
  <2>1. portal' = portal \union {c}
    BY <1>2 DEF BeginReview
  <2>2. CASE d = c
    BY <1>2, <2>2, BeginReviewStep DEF PortalIInv, DecisionWork, ReviewOK
  <2>3. CASE d # c
    BY <1>2, <2>1, <2>3, BeginReviewStep DEF PortalIInv, ReviewInv, ReviewOK
  <2> QED
    BY <2>2, <2>3
<1>3. ASSUME NEW c \in Client, CommitReview(c) \/ FailReview(c)
      PROVE  ReviewInv'
  <2> SUFFICES ASSUME NEW d \in portal'
               PROVE  ReviewOK(d)'
    BY DEF ReviewInv
  <2>1. d \in portal /\ d # c /\ d \in Client
    BY <1>3 DEF CommitReview, FailReview, PortalIInv, ReviewInv, ReviewOK
  <2>2. work'[d] = work[d]
    BY <1>3, <2>1, OthersKeep DEF CommitReview, FailReview, PortalIInv, IInv
  <2> QED
    BY <2>1, <2>2 DEF PortalIInv, ReviewInv, ReviewOK
<1>4. ASSUME NEW c \in Client, Desk(c)
      PROVE  ReviewInv'
  <2> SUFFICES ASSUME NEW d \in portal'
               PROVE  ReviewOK(d)'
    BY DEF ReviewInv
  <2>1. d \in portal /\ d \in Client /\ work[d] # Idle /\ work[d].op \in {"decide", "conclude"}
    BY <1>4 DEF Desk, portalVars, PortalIInv, ReviewInv, ReviewOK
  <2>2. d # c
    BY <1>4, <2>1 DEF Desk, BeginSubmit, OpenForm, BeginApprove, BeginReject, BeginAction,
       CommitSubmit, CommitAction, Busy
  <2>3. work'[d] = work[d]
    BY <1>4, <2>1, <2>2, OthersKeep DEF Desk, PortalIInv, IInv
  <2> QED
    BY <2>1, <2>3 DEF PortalIInv, ReviewInv, ReviewOK
<1> QED
  BY <1>1, <1>2, <1>3, <1>4 DEF PortalNext

LEMMA NextRemarkInv ==
    ASSUME PortalIInv, [PortalNext]_allVars
    PROVE  RemarkInv'
<1>1. PortalUser \in User
  BY PortalAssumption
<1>2. ASSUME NEW v \in Version, NEW i \in DOMAIN rows[v][PortalUser],
             rows[v][PortalUser][i] # "Pending"
      PROVE  i \in DOMAIN rows'[v][PortalUser] /\ rows'[v][PortalUser][i] # "Pending"
  <2>1. CASE [Next]_vars
    BY <1>1, <1>2, <2>1, DecidedStep DEF PortalIInv
  <2>2. CASE \E c \in Client, w \in Version, tick \in BOOLEAN : OpenForm(c, w, tick)
    BY <1>2, <2>2 DEF OpenForm
  <2> QED
    BY <2>1, <2>2, StepIsReview DEF PortalIInv, IInv
<1>3. ASSUME NEW e \in remark
      PROVE  \E v \in Version : \E i \in DOMAIN rows'[v][PortalUser] :
                e = <<v, i>> /\ rows'[v][PortalUser][i] # "Pending"
  BY <1>2, <1>3 DEF PortalIInv, RemarkInv
<1>4. CASE UNCHANGED remark
  BY <1>3, <1>4 DEF RemarkInv
<1>5. ASSUME NEW c \in Client, CommitReview(c)
      PROVE  RemarkInv'
  <2>1. /\ c \in portal
        /\ CommitDecide(c) \/ CommitConclude(c)
        /\ remark' = remark \union {Decided(c)}
    BY <1>5 DEF CommitReview
  <2>2. /\ work[c].doc \in Version
        /\ work[c].row \in DOMAIN rows'[work[c].doc][PortalUser]
        /\ rows'[work[c].doc][PortalUser][work[c].row] \in {"Approved", "Rejected"}
    BY <2>1, CommitReviewStep DEF PortalIInv
  <2>3. Decided(c) = <<work[c].doc, work[c].row>>
    BY DEF Decided
  <2>4. \A e \in remark' : \E v \in Version : \E i \in DOMAIN rows'[v][PortalUser] :
           e = <<v, i>> /\ rows'[v][PortalUser][i] # "Pending"
    BY <1>3, <2>1, <2>2, <2>3
  <2> QED
    BY <2>4 DEF RemarkInv
<1> QED
  BY <1>4, <1>5
     DEF PortalNext, LoadDetail, BeginReview, FailReview, UndoRemark, Desk, portalVars, allVars

LEMMA PortalNextInv == PortalIInv /\ [PortalNext]_allVars => PortalIInv'
<1> SUFFICES ASSUME PortalIInv, [PortalNext]_allVars
             PROVE  PortalIInv'
  OBVIOUS
<1>1. IInv'
  BY StepIsReview, NextInv, OpenFormStep DEF PortalIInv, IInv
<1>2. (page \in Payload)'
  <2>1. page' = page \/ page' = Detail(current, status, rows)
    BY DEF PortalNext, LoadDetail, BeginReview, CommitReview, FailReview, Desk, portalVars, allVars
  <2> QED
    BY <2>1, DetailType DEF PortalIInv, Payload
<1>3. ReviewInv'
  <2>1. CASE UNCHANGED allVars
    BY <2>1 DEF allVars, vars, portalVars, PortalIInv, ReviewInv, ReviewOK
  <2> QED
    BY <2>1, NextReviewInv
<1>4. RemarkInv'
  BY NextRemarkInv
<1> QED
  BY <1>1, <1>2, <1>3, <1>4 DEF PortalIInv

-----------------------------------------------------------------------------
(* The theorems *)

\* The review's inductive invariant holds with the portal too, and a request of
\* the portal holds the version that was current when it began.
THEOREM PortalInvariance == PortalSpec => []PortalIInv
BY PortalInitInv, PortalNextInv, PTL DEF PortalSpec

\* Every variable of the portal keeps its type.
THEOREM PortalTypeCorrect == PortalSpec => []PortalTypeOK
<1>1. PortalIInv => PortalTypeOK
  <2> SUFFICES ASSUME PortalIInv PROVE PortalTypeOK
    OBVIOUS
  <2>1. ASSUME NEW v \in Version, NEW i \in DOMAIN rows[v][PortalUser]
        PROVE  i \in 1..MaxRounds
    <3>1. /\ Len(rows[v][PortalUser]) \in Nat /\ Len(rows[v][PortalUser]) <= MaxRounds
          /\ DOMAIN rows[v][PortalUser] = 1..Len(rows[v][PortalUser])
      BY PortalAssumption, RowsType DEF PortalIInv, IInv, RowsInv, RoundsBounded
    <3> QED
      BY <2>1, <3>1, MaxRoundsAssumption
  <2>2. remark \subseteq Version \X (1..MaxRounds)
    BY <2>1 DEF PortalIInv, RemarkInv
  <2> QED
    BY <2>2 DEF PortalTypeOK, PortalIInv, ReviewInv, ReviewOK
<1> QED
  BY <1>1, PortalInvariance, PTL

\* review_contract writes the remark before it decides, and no failure leaves a
\* remark on an approval that is still open.
THEOREM RemarksNeedDecisions == PortalSpec => []RemarksAreDecided
<1>1. PortalIInv => RemarksAreDecided
  BY DEF PortalIInv, RemarkInv, RemarksAreDecided, Open
<1> QED
  BY <1>1, PortalInvariance, PTL

\* can_review looks at the newest approval of the user, which is the pending one
\* if any is.
THEOREM OfferIsExact == PortalSpec => []PendingIsOffered
<1>1. PortalIInv => PendingIsOffered
  <2> SUFFICES ASSUME PortalIInv PROVE PendingIsOffered
    OBVIOUS
  <2>1. PICK v \in Version : current = {v}
    BY DEF PortalIInv, IInv, OneIsCurrent
  <2>2. Detail(current, status, rows).can_review <=>
          status[v] = "Under Review" /\ UserApproval(v, rows) = "Pending"
    BY <2>1, CurrentIs DEF Detail
  <2>3. UserApproval(v, rows) = "Pending" <=> Open(v, PortalUser) # {}
    BY PortalAssumption, NewestIsOpen DEF UserApproval, PortalIInv, IInv, RowsInv
  <2> QED
    BY <2>1, <2>2, <2>3 DEF PendingIsOffered
<1> QED
  BY <1>1, PortalInvariance, PTL

\* When a client of the portal writes approvals and lets go of its copy, it commits
\* its decision.
LEMMA PortalDecides ==
    ASSUME PortalIInv, [PortalNext]_allVars, NEW c \in portal, rows' # rows, work'[c] # work[c]
    PROVE  CommitDecide(c) \/ CommitConclude(c)
<1>1. c \in Client /\ work[c] # Idle /\ work[c].op \in {"decide", "conclude"}
  BY DEF PortalIInv, ReviewInv, ReviewOK
<1>2. Next
  BY StepIsReview DEF OpenForm, vars, PortalIInv, IInv
<1>3. PICK d \in Client : CommitSubmit(d) \/ CommitDecide(d) \/ CommitConclude(d)
  BY <1>2, RowsWritten
<1>4. d = c
  BY <1>1, <1>3, OthersKeep DEF PortalIInv, IInv
<1> QED
  BY <1>1, <1>3, <1>4 DEF CommitSubmit, Busy

\* The answer to a decision, read before the commit, is of the version decided and
\* shows the decision.
THEOREM AnswerIsRight == PortalSpec => AnswerShowsDecision
<1>1. ASSUME PortalIInv, [PortalNext]_allVars
      PROVE  [\A c \in portal : rows' # rows /\ work'[c] # work[c] =>
                /\ Answer(c).current_version = work[c].doc
                /\ Answer(c).review_state = work[c].status
                /\ ~Answer(c).can_review]_allVars
  <2> SUFFICES ASSUME NEW c \in portal, rows' # rows, work'[c] # work[c]
               PROVE  /\ Answer(c).current_version = work[c].doc
                      /\ Answer(c).review_state = work[c].status
                      /\ ~Answer(c).can_review
    OBVIOUS
  <2>1. CommitDecide(c) \/ CommitConclude(c)
    BY <1>1, PortalDecides
  <2>2. PICK v \in Version : v = work[c].doc
    BY <1>1, <2>1, CommitReviewStep DEF PortalIInv
  <2>3. /\ work[c].row = Len(rows'[v][PortalUser])
        /\ work[c].row \in DOMAIN rows'[v][PortalUser]
        /\ rows'[v][PortalUser][work[c].row] = work[c].status
        /\ work[c].status \in {"Approved", "Rejected"}
        /\ work[c].seen = {v}
    BY <1>1, <2>1, <2>2, CommitReviewStep DEF PortalIInv
  <2>4. CurrentVersion(work[c].seen) = v
    BY <2>3, CurrentIs
  <2>5. Newest(rows'[v][PortalUser]) = work[c].status
    BY <2>3 DEF Newest
  <2>6. /\ Answer(c).current_version = v
        /\ Answer(c).review_state = Newest(rows'[v][PortalUser])
        /\ Answer(c).can_review <=>
             status'[v] = "Under Review" /\ Newest(rows'[v][PortalUser]) = "Pending"
    BY <2>4 DEF Answer, Detail, UserApproval
  <2> QED
    BY <2>2, <2>3, <2>5, <2>6
<1> QED
  BY <1>1, PortalInvariance, PTL DEF PortalSpec, AnswerShowsDecision

\* review_contract decides the version the page shows, or one that had replaced it
\* as current when the request began.
THEOREM ShownOrReplaced == PortalSpec => DecidesShownVersion
<1>1. ASSUME PortalIInv, [PortalNext]_allVars
      PROVE  [\A c \in portal : rows' # rows /\ work'[c] # work[c] =>
                work[c].doc = page.current_version \/ page.current_version \notin work[c].seen]_allVars
  BY <1>1 DEF PortalIInv, ReviewInv, ReviewOK
<1> QED
  BY <1>1, PortalInvariance, PTL DEF PortalSpec, DecidesShownVersion

\* The portal takes nothing from the review: with decisions taken from old pages,
\* and version forms opened before them, no completion is lost, no approver has
\* two pending approvals, and a version is approved only by all of its approvals.
THEOREM PortalKeepsReview ==
    PortalSpec => [](NoLostCompletion /\ OnePendingPerApprover /\ ApprovedByAll)
<1>1. PortalIInv => NoLostCompletion /\ OnePendingPerApprover /\ ApprovedByAll
  BY DEF PortalIInv, IInv, RowsInv, UnanimousIsPast, Past, PendingIsLast, NoLostCompletion,
     OnePendingPerApprover
<1> QED
  BY <1>1, PortalInvariance, PTL

\* A decision taken at the desk is final for the portal, and one taken in the
\* portal is final for the desk.
THEOREM PortalDecidesOnce == PortalSpec => DecisionsAreFinal
<1>1. ASSUME PortalIInv, [PortalNext]_allVars
      PROVE  [\A v \in Version, u \in User : \A i \in DOMAIN rows[v][u] :
                rows[v][u][i] # "Pending" =>
                    i \in DOMAIN rows'[v][u] /\ rows'[v][u][i] = rows[v][u][i]]_vars
  <2>1. CASE [Next]_vars
    BY <1>1, <2>1, DecidedStep DEF PortalIInv
  <2>2. CASE \E c \in Client, v \in Version, tick \in BOOLEAN : OpenForm(c, v, tick)
    BY <2>2 DEF OpenForm
  <2> QED
    BY <1>1, <2>1, <2>2, StepIsReview DEF PortalIInv, IInv
<1> QED
  BY <1>1, PortalInvariance, PTL DEF PortalSpec, DecisionsAreFinal

\* A form carries the status of the row.
LEMMA FormActionInv ==
    ASSUME IInv, ActionInv, NEW c \in Client, NEW v \in Version, NEW tick \in BOOLEAN,
           OpenForm(c, v, tick)
    PROVE  ActionInv'
<1> SUFFICES ASSUME NEW d \in Client
             PROVE  ActionOK(d)'
  BY DEF ActionInv
<1>1. UNCHANGED <<status, outdated>>
  BY DEF OpenForm
<1>2. CASE c = d
  <2>1. work'[d].doc = v /\ work'[d].status = status[v]
    BY <1>2 DEF OpenForm, Hold, IInv, TypeOK
  <2> QED
    BY <1>1, <2>1 DEF ActionOK
<1>3. CASE c # d
  <2>1. work'[d] = work[d]
    BY <1>3 DEF OpenForm, Hold, IInv, TypeOK
  <2> QED
    BY <1>1, <2>1 DEF ActionInv, ActionOK, Outcomes
<1> QED
  BY <1>2, <1>3

\* review_contract picks version and approval anew, elevates itself and writes a
\* remark first; for the review it is still one decision among those of the desk.
THEOREM PortalImplementsReview == PortalSpec => FollowsProtocol
<1>1. PortalInit => Protocol!Init
  BY DEF PortalInit, Init, Protocol!Init
<1>2. PortalInit => ActionInv
  BY DEF PortalInit, Init, ActionInv, ActionOK
<1>3. PortalIInv /\ ActionInv /\ [PortalNext]_allVars => ActionInv'
  BY StepIsReview, NextActionInv, FormActionInv DEF PortalIInv, IInv
<1>4. PortalIInv /\ ActionInv /\ [PortalNext]_allVars =>
        [Protocol!Next]_<<status, rows, review>>
  <2> SUFFICES ASSUME PortalIInv, ActionInv, [PortalNext]_allVars
               PROVE  [Protocol!Next]_<<status, rows, review>>
    OBVIOUS
  <2>1. CASE [Next]_vars
    BY <2>1, ProtocolStep DEF PortalIInv
  <2>2. CASE \E c \in Client, v \in Version, tick \in BOOLEAN : OpenForm(c, v, tick)
    BY <2>2 DEF OpenForm
  <2> QED
    BY <2>1, <2>2, StepIsReview DEF PortalIInv, IInv
<1> QED
  BY <1>1, <1>2, <1>3, <1>4, PortalInvariance, PTL
     DEF PortalSpec, FollowsProtocol, Protocol!Spec, Protocol!vars
=============================================================================
