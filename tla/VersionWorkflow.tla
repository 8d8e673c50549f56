-------------------------- MODULE VersionWorkflow --------------------------
(***************************************************************************)
(* The workflow of a Contract Version, as the code holds it twice: as the  *)
(* Python map VERSION_TRANSITIONS (constants/transitions.py), which the    *)
(* services consult through WorkflowService.can_transition, and as the     *)
(* transition table of the Frappe workflow shipped in fixtures/            *)
(* workflow.json, which the framework enforces on every save.              *)
(***************************************************************************)

\* The statuses of class VersionStatus.
Status == {"Draft", "Under Review", "Approved", "Rejected",
           "Signature Requested", "Executed", "Superseded"}

TransitionPairs_Mutant ==
    { <<"Draft", "Under Review">>,
      <<"Under Review", "Approved">>, <<"Under Review", "Rejected">>,
      <<"Rejected", "Draft">>,
      <<"Approved", "Signature Requested">>, <<"Approved", "Superseded">>,
      <<"Signature Requested", "Approved">> }

\* (The mutant lacks an edge that the fixture has.)
TransitionPairs ==
    { <<"Draft", "Under Review">>,
      <<"Under Review", "Approved">>, <<"Under Review", "Rejected">>,
      <<"Rejected", "Draft">>,
      <<"Approved", "Signature Requested">>, <<"Approved", "Superseded">>,
      <<"Signature Requested", "Executed">>, <<"Signature Requested", "Approved">> }

VERSION_TRANSITIONS == [s \in Status |-> {t \in Status : <<s, t>> \in TransitionPairs}]

CanTransition(cur, new) == cur \in Status /\ new \in VERSION_TRANSITIONS[cur]

\* The rows of the fixture: from one state to the next by a named action.
\* The role a row asks for is a permission of the session user, left out.
Row(state, action, next) == [state |-> state, action |-> action, next |-> next]

\* (One mutant sends a revised version straight back into review, the other
\* misspells the next state.)
ReviseRow_Mutant == Row("Rejected", "Revise", "Under Review")

ReviseRow_Misspelt == Row("Rejected", "Revise", "Revised")

ReviseRow == Row("Rejected", "Revise", "Draft")

WorkflowTable ==
    { Row("Draft", "Submit for Review", "Under Review"),
      Row("Under Review", "Approve", "Approved"),
      Row("Under Review", "Reject", "Rejected"),
      ReviseRow,
      Row("Approved", "Request Signature", "Signature Requested"),
      Row("Approved", "Supersede", "Superseded"),
      Row("Signature Requested", "Complete Signing", "Executed"),
      Row("Signature Requested", "Cancel Signature", "Approved") }

WorkflowAction == {r.action : r \in WorkflowTable}

\* What apply_workflow makes of a document in status s: the rows that match.
Outcomes(s, action) == {r \in WorkflowTable : r.state = s /\ r.action = action}

\* The check the workflow engine makes of every save that changes the status.
TableAllows(s, t) == s = t \/ \E r \in WorkflowTable : r.state = s /\ r.next = t
=============================================================================
