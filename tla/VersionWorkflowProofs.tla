------------------------ MODULE VersionWorkflowProofs ------------------------
(***************************************************************************)
(* Facts about the two copies of the workflow, which the proofs about the  *)
(* modules that move versions rest on.                                     *)
(***************************************************************************)
EXTENDS VersionWorkflow, TLAPS

\* The rows of the table, spelled out.
LEMMA RowFields ==
    ASSUME NEW a, NEW s, NEW n
    PROVE  Row(s, a, n).state = s /\ Row(s, a, n).next = n /\ Row(s, a, n).action = a
BY DEF Row

LEMMA TableEdges ==
    ASSUME NEW r \in WorkflowTable
    PROVE  /\ <<r.state, r.next>> \in TransitionPairs /\ r.state \in Status /\ r.next \in Status
           /\ r.action = "Cancel Signature" => r.state = "Signature Requested" /\ r.next = "Approved"
           /\ r.action = "Complete Signing" => r.state = "Signature Requested"
<1> USE DEF Row, TransitionPairs, Status
<1>1. CASE r = Row("Draft", "Submit for Review", "Under Review")
  BY <1>1
<1>2. CASE r = Row("Under Review", "Approve", "Approved")
  BY <1>2
<1>3. CASE r = Row("Under Review", "Reject", "Rejected")
  BY <1>3
<1>4. CASE r = Row("Rejected", "Revise", "Draft")
  BY <1>4
<1>5. CASE r = Row("Approved", "Request Signature", "Signature Requested")
  BY <1>5
<1>6. CASE r = Row("Approved", "Supersede", "Superseded")
  BY <1>6
<1>7. CASE r = Row("Signature Requested", "Complete Signing", "Executed")
  BY <1>7
<1>8. CASE r = Row("Signature Requested", "Cancel Signature", "Approved")
  BY <1>8
<1> QED
  BY <1>1, <1>2, <1>3, <1>4, <1>5, <1>6, <1>7, <1>8 DEF WorkflowTable, ReviseRow

LEMMA EdgesInTable ==
    ASSUME NEW s \in Status, NEW t \in Status, <<s, t>> \in TransitionPairs
    PROVE  \E r \in WorkflowTable : r.state = s /\ r.next = t
<1>1. \E a : Row(s, a, t) \in WorkflowTable
  BY DEF WorkflowTable, ReviseRow, TransitionPairs
<1> QED
  BY <1>1, RowFields

\* The fixture allows exactly what the Python map allows: the two copies of
\* the workflow agree.
THEOREM TableAgreesWithMap ==
    \A s, t \in Status : TableAllows(s, t) <=> s = t \/ CanTransition(s, t)
<1> SUFFICES ASSUME NEW s \in Status, NEW t \in Status
             PROVE  TableAllows(s, t) <=> s = t \/ CanTransition(s, t)
  OBVIOUS
<1>1. CanTransition(s, t) <=> <<s, t>> \in TransitionPairs
  BY DEF CanTransition, VERSION_TRANSITIONS
<1>2. (\E r \in WorkflowTable : r.state = s /\ r.next = t) <=> <<s, t>> \in TransitionPairs
  <2>1. \A r \in WorkflowTable : <<r.state, r.next>> \in TransitionPairs
    BY TableEdges
  <2> QED
    BY <2>1, EdgesInTable
<1> QED
  BY <1>1, <1>2 DEF TableAllows

LEMMA OutcomeIsTransition ==
    ASSUME NEW s \in Status, NEW a, NEW r \in Outcomes(s, a)
    PROVE  r.next \in Status
BY TableEdges DEF Outcomes

\* From where the map lets a version go under review, be rejected, approved, executed.
LEMMA Sources ==
    ASSUME NEW s
    PROVE  /\ CanTransition(s, "Under Review") => s = "Draft"
           /\ CanTransition(s, "Rejected") => s = "Under Review"
           /\ CanTransition(s, "Approved") => s \in {"Under Review", "Signature Requested"}
           /\ CanTransition(s, "Executed") => s = "Signature Requested"
BY DEF CanTransition, VERSION_TRANSITIONS, TransitionPairs, Status

\* What the table allows of a version that has been approved: it stays approved
\* or goes on, only the end of a review or of a signature approves it, and an
\* executed version stays executed.
LEMMA AllowedMoves ==
    ASSUME NEW s \in Status, NEW t \in Status, TableAllows(s, t)
    PROVE  /\ s \in {"Approved", "Signature Requested", "Executed", "Superseded"} =>
                 t \in {"Approved", "Signature Requested", "Executed", "Superseded"}
           /\ t \in {"Approved", "Signature Requested", "Executed"} =>
                 \/ s \in {"Approved", "Signature Requested", "Executed"}
                 \/ s = "Under Review" /\ t = "Approved"
           /\ s = "Executed" => t = "Executed"
<1>1. s = t \/ <<s, t>> \in TransitionPairs
  BY TableAgreesWithMap DEF CanTransition, VERSION_TRANSITIONS
<1> QED
  BY <1>1 DEF TransitionPairs
=============================================================================
