------------------------------- MODULE Portal -------------------------------
(***************************************************************************)
(* The counterparty's review through the portal (portal_api.py and the     *)
(* contract page of portal.js), composed with the review at the desk       *)
(* (Approvals) and with the current flag moving between two versions.      *)
(*                                                                         *)
(* The page keeps the payload of its last get_contract_detail while the    *)
(* desk goes on; review_contract chooses version and approval anew, writes *)
(* the remark, decides as Administrator and answers with the payload its   *)
(* own transaction then reads.                                             *)
(***************************************************************************)
EXTENDS Approvals, FiniteSets

CONSTANTS PortalUser,    \* the counterparty's portal user, an approver
          LastApprover,  \* the last approver of the roster
          None,          \* no approval
          MaxSubmitted   \* bound of the model: submissions of all versions

ASSUME PortalAssumption ==
    /\ {PortalUser, LastApprover} \subseteq User
    /\ None \notin ApprovalStatus
    /\ MaxSubmitted \in Nat

\* A client that is deciding is not idle.
ASSUME IdleAssumption == Idle \notin DecisionWork

VARIABLES page,      \* the payload the portal page shows
          portal,    \* clients whose open request is a review_contract
          remark     \* <<v, i>>: the portal user's i-th approval of v has remarks

portalVars == <<page, portal, remark>>
allVars == <<vars, portalVars>>

-----------------------------------------------------------------------------
(* get_contract_detail *)

Newest(s) == IF s = <<>> THEN None ELSE s[Len(s)]

\* create_for_version inserts in the order of the roster, so the newest approval
\* of a version is the last approver's of the last round.
LatestApproval(v, r) == Newest(r[v][LastApprover])

UserApproval_Oldest(v, r) == IF r[v][PortalUser] = <<>> THEN None ELSE Head(r[v][PortalUser])

UserApproval_Latest(v, r) == LatestApproval(v, r)

UserApproval_Raw(v, r) == r[v][PortalUser]

\* The user's own approval; get_all lists the newest first.  (The
\* mutants take the first round's, the newest of any approver, the whole list.)
UserApproval(v, r) == Newest(r[v][PortalUser])

\* The contract's version flagged current.
CurrentVersion(flagged) == CHOOSE v \in flagged : TRUE

\* The payload for versions `flagged` current, statuses st and approvals r.
Detail(flagged, st, r) ==
    LET v == CurrentVersion(flagged) IN
    [current_version |-> v,
     approval |-> LatestApproval(v, r),
     can_review |-> st[v] = "Under Review" /\ UserApproval(v, r) = "Pending",
     review_state |-> UserApproval(v, r)]

Payload == [current_version : Version, approval : ApprovalStatus \union {None},
            can_review : BOOLEAN, review_state : ApprovalStatus \union {None}]

\* The approval panel of ApprovalCard.
Panel(p) == p.can_review /\ p.approval = "Pending"

\* load, and refreshSilently whenever the page regains focus.
LoadDetail ==
    /\ page' = Detail(current, status, rows)
    /\ UNCHANGED <<vars, portal, remark>>

-----------------------------------------------------------------------------
(* review_contract *)

VersionsToReview_Mutant == Version

\* The version flagged current in the snapshot.  (The mutant lost the filter.)
VersionsToReview == current

\* Sent from the panel; refused unless the user has a pending approval.
BeginReview(c) ==
    /\ Panel(page)
    /\ \E v \in VersionsToReview :
         /\ Open(v, PortalUser) # {}
         /\ BeginApprove(c, v, PortalUser) \/ BeginReject(c, v, PortalUser)
    /\ portal' = portal \union {c}
    /\ UNCHANGED <<page, remark>>

Decided(c) == <<work[c].doc, work[c].row>>

\* The remark and the service's writes are committed together.  (The user of
\* the model always leaves a remark; an empty one would write nothing.)
CommitReview(c) ==
    /\ c \in portal
    /\ CommitDecide(c) \/ CommitConclude(c)
    /\ remark' = remark \union {Decided(c)}
    /\ portal' = portal \ {c}
    /\ UNCHANGED page

UndoRemark_Mutant(c) == remark' = remark \union {Decided(c)}

\* frappe.db.rollback on any exception of the service; the remark was written
\* before it.  (The mutant commits the remark.)
UndoRemark(c) == UNCHANGED remark

FailReview(c) ==
    /\ c \in portal
    /\ Abandon(c)
    /\ UndoRemark(c)
    /\ portal' = portal \ {c}
    /\ UNCHANGED page

\* What get_contract_detail reads at the end of the transaction: its snapshot,
\* with its own writes.  No other approval of the version changes meanwhile.
Answer(c) == Detail(work[c].seen, status', rows')

-----------------------------------------------------------------------------
(* The desk *)

\* The form of a version, to be saved with its Current Version box ticked or not;
\* as its status is not edited, the save is that of an action that changes nothing.
\* What the save's snapshot shows instead of `seen` makes no difference: a version
\* becomes current only by a save of its own, which outdates the form.
OpenForm(c, v, tick) ==
    /\ work[c] = Idle
    /\ Hold(c, [op |-> "action", doc |-> v, status |-> status[v], current |-> tick,
                seen |-> current])
    /\ UNCHANGED <<status, current, outdated, rows, review, stale, waived>>

Rounds == UNION {{v} \X DOMAIN rows[v][PortalUser] : v \in Version}

\* The requests of Approvals, whose portal user decides in the portal.  Contract
\* forms are left out: all they could do here is make a decision fail.
Desk(c) ==
    /\ \/ \E v \in Version :
            \/ Cardinality(Rounds) < MaxSubmitted /\ BeginSubmit(c, v)
            \/ \E tick \in BOOLEAN : OpenForm(c, v, tick)
            \/ \E u \in User \ {PortalUser} : BeginApprove(c, v, u) \/ BeginReject(c, v, u)
            \/ \E a \in DeskActions : BeginAction(c, v, a)
       \/ CommitSubmit(c) \/ CommitAction(c)
       \/ c \notin portal /\ (CommitDecide(c) \/ CommitConclude(c) \/ Abandon(c))
    /\ UNCHANGED portalVars

PortalInit ==
    /\ Init
    /\ page = Detail(current, status, rows)
    /\ portal = {}
    /\ remark = {}

PortalNext ==
    \/ LoadDetail
    \/ \E c \in Client : BeginReview(c) \/ CommitReview(c) \/ FailReview(c) \/ Desk(c)

PortalSpec == PortalInit /\ [][PortalNext]_allVars

-----------------------------------------------------------------------------
(* Properties *)

\* Every variable of the portal has its type.
PortalTypeOK ==
    /\ page \in Payload
    /\ portal \subseteq Client
    /\ remark \subseteq Version \X (1..MaxRounds)

\* "a failed decision never leaves partial state": the portal user's remarks are
\* on decided approvals only, although the remark is written first and the
\* decision may fail against a simultaneous one.
RemarksAreDecided ==
    \A v \in Version : \A i \in Open(v, PortalUser) : <<v, i>> \notin remark

\* The API offers the review exactly to a user whose approval of the current
\* version is pending while it is Under Review: the approval it looks at, the
\* newest, is the pending one whatever happened in earlier rounds.
PendingIsOffered ==
    Detail(current, status, rows).can_review <=>
        \E v \in current : status[v] = "Under Review" /\ Open(v, PortalUser) # {}

\* The answer of a portal decision is about the version decided, shows that
\* decision as the user's review state and offers no further review, although
\* it is read before the commit.
AnswerShowsDecision ==
    [][\A c \in portal : rows' # rows /\ work'[c] # work[c] =>
         /\ Answer(c).current_version = work[c].doc
         /\ Answer(c).review_state = work[c].status
         /\ ~Answer(c).can_review]_allVars

\* A portal decision lands on another version than the page shows only if that
\* version was not current any more when the request began.
DecidesShownVersion ==
    [][\A c \in portal : rows' # rows /\ work'[c] # work[c] =>
         work[c].doc = page.current_version \/ page.current_version \notin work[c].seen]_allVars

\* "Under Review + pending approval: ApprovalCard, approve/reject": a portal
\* user whose approval is awaited is shown the panel on a freshly loaded page.
PendingReviewerCanDecide ==
    (\E v \in current : status[v] = "Under Review" /\ Open(v, PortalUser) # {})
        => Panel(Detail(current, status, rows))
=============================================================================
