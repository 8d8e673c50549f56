--------------------------- MODULE ReviewProtocol ---------------------------
(***************************************************************************)
(* The review of a contract's versions as if every request ran alone: a    *)
(* decision reads the approvals, decides, updates the roster and moves the *)
(* version in one indivisible step.  Approvals, where requests overlap, is *)
(* shown to do nothing else.                                               *)
(***************************************************************************)
EXTENDS VersionWorkflow, Sequences

CONSTANTS Version, User, DeskActions
VARIABLES status, rows, review

vars == <<status, rows, review>>

Init ==
    /\ status = [v \in Version |-> "Draft"]
    /\ rows = [v \in Version |-> [u \in User |-> <<>>]]
    /\ review = [u \in User |-> "Pending"]

Open(v, u) == {i \in DOMAIN rows[v][u] : rows[v][u][i] = "Pending"}

Unanimous(v) == \A u \in User : \A i \in DOMAIN rows[v][u] : rows[v][u][i] = "Approved"

\* Submitting opens one approval for every approver, none of whom has one.
Submit(v) ==
    /\ status[v] = "Draft"
    /\ \A u \in User : Open(v, u) = {}
    /\ status' = [status EXCEPT ![v] = "Under Review"]
    /\ rows' = [rows EXCEPT ![v] = [u \in User |-> Append(rows[v][u], "Pending")]]
    /\ UNCHANGED review

Decide(v, u, decision) ==
    /\ \E i \in Open(v, u) : rows' = [rows EXCEPT ![v][u][i] = decision]
    /\ review' = [review EXCEPT ![u] = decision]

\* The last missing approval approves the version, from any status the workflow
\* approves from.
Approve(v, u) ==
    /\ Decide(v, u, "Approved")
    /\ IF Unanimous(v)'
       THEN CanTransition(status[v], "Approved") /\ status' = [status EXCEPT ![v] = "Approved"]
       ELSE UNCHANGED status

\* Any rejection rejects the version.
Reject(v, u) ==
    /\ Decide(v, u, "Rejected")
    /\ CanTransition(status[v], "Rejected")
    /\ status' = [status EXCEPT ![v] = "Rejected"]

\* The workflow engine, which knows nothing of approvals.
Desk(v, a) ==
    /\ \E r \in Outcomes(status[v], a) : status' = [status EXCEPT ![v] = r.next]
    /\ UNCHANGED <<rows, review>>

Next ==
    \E v \in Version :
        \/ Submit(v)
        \/ \E u \in User : Approve(v, u) \/ Reject(v, u)
        \/ \E a \in DeskActions : Desk(v, a)

Spec == Init /\ [][Next]_vars
=============================================================================
