----------------------------- MODULE Approvals -----------------------------
(***************************************************************************)
(* The review of the versions of one contract: ContractVersionService,     *)
(* ApprovalService and the Approval controller, with the contract document *)
(* whose collaborators table carries every approver's review_status.       *)
(*                                                                         *)
(* A decision blindly writes the approval row, saves the contract and, if  *)
(* it settles the review, saves the version.  What it decided on are plain *)
(* reads of the transaction's snapshot (see VersionTable); nothing but the *)
(* timestamp checks of the two saves keeps two decisions apart.            *)
(***************************************************************************)
EXTENDS VersionTable, Sequences, Naturals

CONSTANTS User,          \* the collaborators whose role is in APPROVAL_ROLES
          MaxRounds,     \* bound of the model: submissions of one version
          DeskActions    \* the workflow actions applied from the desk

ASSUME MaxRoundsAssumption == MaxRounds \in Nat \ {0}
ASSUME ReviewDeskActionsAssumption == DeskActions \subseteq WorkflowAction

VARIABLES rows,     \* rows[v][u]: the statuses of u's approvals of v, oldest first
          review,   \* review[u]: review_status of u in the collaborators table
          stale,    \* clients whose copy of the contract is not the latest
          waived    \* history: versions the Approve action of the desk approved

vars == <<status, current, work, outdated, rows, review, stale, waived>>

\* Class ApprovalStatus.
ApprovalStatus == {"Pending", "Approved", "Rejected"}

\* "decide" writes an approval and the contract, "conclude" also the version;
\* "contract" is a contract form open in a tab.
VersionWork == [op : {"submit", "action"}, doc : Version, status : Status,
                current : BOOLEAN, seen : SUBSET Version]
DecisionWork == [op : {"decide", "conclude"}, doc : Version, status : {"Approved", "Rejected"},
                 current : BOOLEAN, seen : SUBSET Version,
                 user : User, row : Nat, review : [User -> ApprovalStatus]]
ContractWork == [op : {"contract"}, doc : {Idle}, review : [User -> ApprovalStatus]]

Init ==
    /\ status = [v \in Version |-> "Draft"]
    /\ current \in {{v} : v \in Version}
    /\ work = [c \in Client |-> Idle]
    /\ outdated = {}
    /\ rows = [v \in Version |-> [u \in User |-> <<>>]]
    /\ review = [u \in User |-> "Pending"]
    /\ stale = {}
    /\ waived = {}

Busy(c, op) == work[c] # Idle /\ work[c].op = op

Hold(c, w) == work' = [work EXCEPT ![c] = w]

Open(v, u) == {i \in DOMAIN rows[v][u] : rows[v][u][i] = "Pending"}

-----------------------------------------------------------------------------
(* The contract document *)

ContractHolders == {d \in Client : \E op \in {"decide", "conclude", "contract"} : Busy(d, op)}

\* check_if_latest of Contract.save.
ContractLatest(c) == c \notin stale

\* The save writes every collaborator row as it was loaded, or changed since.
SaveContract(c, roster) ==
    /\ ContractLatest(c)
    /\ review' = roster
    /\ stale' = (stale \union ContractHolders) \ {c}

OpenContract(c) ==
    /\ work[c] = Idle
    /\ Hold(c, [op |-> "contract", doc |-> Idle, review |-> review])
    /\ UNCHANGED <<status, current, outdated, rows, review, stale, waived>>

\* Editing the title or the dates of a contract.
CommitContract(c) ==
    /\ Busy(c, "contract")
    /\ SaveContract(c, work[c].review)
    /\ Rollback(c)
    /\ UNCHANGED <<status, current, rows, waived>>

-----------------------------------------------------------------------------
(* submit_for_review *)

NoPending_Mutant(v, u) == u \in User /\ v \in Version

\* validate_duplicate_pending_approval: a plain read.
NoPending(v, u) == Open(v, u) = {}

\* Needs at least one approver; one blocked approval undoes the whole request.
BeginSubmit(c, v) ==
    /\ work[c] = Idle
    /\ CanTransition(status[v], "Under Review")
    /\ User # {}
    /\ \A u \in User : NoPending(v, u) /\ Len(rows[v][u]) < MaxRounds
    /\ Hold(c, [op |-> "submit", doc |-> v, status |-> "Under Review",
                current |-> v \in current, seen |-> current])
    /\ UNCHANGED <<status, current, outdated, rows, review, stale, waived>>

\* apply_action saves the version, create_for_version inserts the approvals.
CommitSubmit(c) ==
    /\ Busy(c, "submit")
    /\ SaveVersion(c, work[c].status)
    /\ rows' = [rows EXCEPT ![work[c].doc] =
                    [u \in User |-> Append(rows[work[c].doc][u], "Pending")]]
    /\ UNCHANGED <<review, stale, waived>>

-----------------------------------------------------------------------------
(* approve and reject *)

AllApproved_Mutant(v, u, i) ==
    /\ i \in DOMAIN rows[v][u]
    /\ \E w \in User : \E j \in DOMAIN rows[v][w] : rows[v][w][j] = "Approved"

\* _check_all_approved, once the request has approved row i of u: it reads the
\* snapshot, its own write on top, and the approvals of every submission.
AllApproved(v, u, i) ==
    \A w \in User : \A j \in DOMAIN rows[v][w] :
        (w = u /\ j = i) \/ rows[v][w][j] = "Approved"

MayDecide_Mutant(v, u, i) == rows[v][u][i] \in ApprovalStatus

\* "Only pending approvals can be approved", or rejected: a plain read.
MayDecide(v, u, i) == rows[v][u][i] = "Pending"

Decision(v, u, i, op, decision) ==
    [op |-> op, doc |-> v, status |-> decision, current |-> v \in current, seen |-> current,
     user |-> u, row |-> i, review |-> review]

\* Approving the last open approval also moves the version, or throws.
BeginApprove(c, v, u) ==
    /\ work[c] = Idle
    /\ \E i \in DOMAIN rows[v][u] :
         /\ MayDecide(v, u, i)
         /\ \/ /\ AllApproved(v, u, i)
               /\ CanTransition(status[v], "Approved")
               /\ Hold(c, Decision(v, u, i, "conclude", "Approved"))
            \/ /\ ~AllApproved(v, u, i)
               /\ Hold(c, Decision(v, u, i, "decide", "Approved"))
    /\ UNCHANGED <<status, current, outdated, rows, review, stale, waived>>

BeginReject(c, v, u) ==
    /\ work[c] = Idle
    /\ \E i \in DOMAIN rows[v][u] :
         /\ MayDecide(v, u, i)
         /\ CanTransition(status[v], "Rejected")
         /\ Hold(c, Decision(v, u, i, "conclude", "Rejected"))
    /\ UNCHANGED <<status, current, outdated, rows, review, stale, waived>>

WriteApproval_Mutant(c) ==
    rows' = [rows EXCEPT ![work[c].doc][work[c].user][work[c].row] = "Approved"]

\* frappe.db.set_value: a blind write of the row named when it was read.
\* (The mutant rejects with the values of an approval.)
WriteApproval(c) ==
    rows' = [rows EXCEPT ![work[c].doc][work[c].user][work[c].row] = work[c].status]

UpdateCollaborator_Mutant(c) ==
    SaveContract(c, [work[c].review EXCEPT ![work[c].user] = status[work[c].doc]])

UpdateCollaborator_Blind(c) ==
    /\ review' = [review EXCEPT ![work[c].user] = work[c].status]
    /\ stale' = stale \ {c}

\* _update_collaborator_status.  (One mutant passes the version's status on, the
\* other writes the collaborator row with set_value instead of contract.save.)
UpdateCollaborator(c) ==
    SaveContract(c, [work[c].review EXCEPT ![work[c].user] = work[c].status])

CommitDecide(c) ==
    /\ Busy(c, "decide")
    /\ WriteApproval(c)
    /\ UpdateCollaborator(c)
    /\ Rollback(c)
    /\ UNCHANGED <<status, current, waived>>

\* ... and _approve_version or _reject_version.
CommitConclude(c) ==
    /\ Busy(c, "conclude")
    /\ WriteApproval(c)
    /\ UpdateCollaborator(c)
    /\ SaveVersion(c, work[c].status)
    /\ UNCHANGED waived

-----------------------------------------------------------------------------
(* The desk's own workflow actions *)

BeginAction(c, v, a) ==
    /\ work[c] = Idle
    /\ \E r \in Outcomes(status[v], a) :
         Hold(c, [op |-> "action", doc |-> v, status |-> r.next,
                  current |-> v \in current, seen |-> current])
    /\ UNCHANGED <<status, current, outdated, rows, review, stale, waived>>

\* Bookkeeping of the model: the workflow engine approves without approvals.
NoteApproved(v) ==
    waived' = IF status[v] = "Under Review" /\ status'[v] = "Approved"
              THEN waived \union {v} ELSE waived

CommitAction(c) ==
    /\ Busy(c, "action")
    /\ SaveVersion(c, work[c].status)
    /\ NoteApproved(work[c].doc)
    /\ UNCHANGED <<rows, review, stale>>

\* A request that throws or dies rolls back; a tab is closed.
Abandon(c) ==
    /\ work[c] # Idle
    /\ Rollback(c)
    /\ stale' = stale \ {c}
    /\ UNCHANGED <<status, current, rows, review, waived>>

Next ==
    \E c \in Client :
        \/ OpenContract(c) \/ CommitContract(c)
        \/ \E v \in Version :
             \/ BeginSubmit(c, v)
             \/ \E u \in User : BeginApprove(c, v, u) \/ BeginReject(c, v, u)
             \/ \E a \in DeskActions : BeginAction(c, v, a)
        \/ CommitSubmit(c) \/ CommitDecide(c) \/ CommitConclude(c) \/ CommitAction(c)
        \/ Abandon(c)

Spec == Init /\ [][Next]_vars

-----------------------------------------------------------------------------
(* Properties *)

\* Every variable has its type.
TypeOK ==
    /\ status \in [Version -> Status]
    /\ current \subseteq Version
    /\ work \in [Client -> VersionWork \union DecisionWork \union ContractWork \union {Idle}]
    /\ outdated \subseteq Client
    /\ rows \in [Version -> [User -> Seq(ApprovalStatus)]]
    /\ review \in [User -> ApprovalStatus]
    /\ stale \subseteq Client
    /\ waived \subseteq Version

Submitted(v) == \E u \in User : rows[v][u] # <<>>

Unanimous(v) == \A u \in User : \A i \in DOMAIN rows[v][u] : rows[v][u][i] = "Approved"

\* Two approvers who decide at the same moment cannot each take the other for
\* undecided: a version all of whose approvals are Approved does not stay Under
\* Review with nobody left to move it (_check_all_approved).
NoLostCompletion == \A v \in Version : status[v] = "Under Review" /\ Submitted(v) => ~Unanimous(v)

\* "One pending approval per approver per version", however the version was
\* rejected, revised and submitted again (validate_duplicate_pending_approval).
OnePendingPerApprover ==
    \A v \in Version, u \in User : \A i, j \in Open(v, u) : i = j

\* A decided approval is never decided again, or removed, by a double click or
\* by an approve racing a reject.
DecisionsAreFinal ==
    [][\A v \in Version, u \in User : \A i \in DOMAIN rows[v][u] :
            rows[v][u][i] # "Pending" =>
                i \in DOMAIN rows'[v][u] /\ rows'[v][u][i] = rows[v][u][i]]_vars

\* A version is Approved, or past it, only with every approval of it, of every
\* round, Approved ("Only when all approvals for a version are Approved does the
\* version transition"), unless the desk applied the Approve action itself:
\* submissions, late decisions and cancelled signatures open no other way.
ApprovedByAll ==
    \A v \in Version \ waived :
        status[v] \in {"Approved", "Signature Requested", "Executed"} => Unanimous(v)

Protocol == INSTANCE ReviewProtocol

\* Overlapping submissions, decisions, workflow actions and contract edits have
\* the effect of the same requests run one after the other: no approval, no
\* review_status and no status is lost or written from a stale read.
FollowsProtocol == Protocol!Spec

\* The documents' "Under Review - awaiting collaborator approvals".
AwaitsApprovals ==
    \A v \in Version : status[v] = "Under Review" => \E u \in User : Open(v, u) # {}
=============================================================================
