-------------------------- MODULE SigningProtocol --------------------------
(***************************************************************************)
(* The signature of a contract's versions as the books show it, if every   *)
(* request ran alone: the status column of the versions, the signed        *)
(* documents and, of a signature request, its status, version and          *)
(* envelope.  Signing, where requests overlap, fail half way and leave     *)
(* envelopes behind in Documenso, is shown to do nothing else.             *)
(***************************************************************************)
EXTENDS VersionWorkflow

CONSTANTS Version, Request, Envelope, None, DeskActions
VARIABLES status, request, executed

vars == <<status, request, executed>>

Init ==
    /\ status = [v \in Version |-> "Approved"]
    /\ request = [r \in Request |-> None]
    /\ executed = [v \in Version |-> None]

In(s) == {r \in Request : request[r] # None /\ request[r].status = s}

Create(r, v) ==
    /\ request[r] = None
    /\ request' = [request EXCEPT ![r] = [status |-> "Draft", version |-> v, envelope |-> None]]
    /\ UNCHANGED <<status, executed>>

\* The request closes, or goes out, and its version moves with it.
Together(r, doc, old, new) ==
    /\ status[doc.version] = old
    /\ status' = [status EXCEPT ![doc.version] = new]
    /\ request' = [request EXCEPT ![r] = doc]

\* A draft goes out in an envelope of its own, the only one out for its version.
Send(r) ==
    /\ r \in In("Draft")
    /\ \A q \in In("Pending") : request[q].version # request[r].version
    /\ \E e \in Envelope :
         /\ \A q \in Request : request[q] # None => request[q].envelope # e
         /\ Together(r, [status |-> "Pending", version |-> request[r].version, envelope |-> e],
                     "Approved", "Signature Requested")
    /\ UNCHANGED executed

\* The signed document is the first and last of its version.
Complete(r) ==
    /\ r \in In("Pending")
    /\ executed[request[r].version] = None
    /\ executed' = [executed EXCEPT ![request[r].version] = request[r].envelope]
    /\ Together(r, [request[r] EXCEPT !.status = "Completed"], "Signature Requested", "Executed")

CancelDraft(r) ==
    /\ r \in In("Draft")
    /\ request' = [request EXCEPT ![r].status = "Cancelled"]
    /\ UNCHANGED <<status, executed>>

\* Cancelling what is out for signature gives the version back.
CancelPending(r) ==
    /\ r \in In("Pending")
    /\ Together(r, [request[r] EXCEPT !.status = "Cancelled"], "Signature Requested", "Approved")
    /\ UNCHANGED executed

\* The workflow engine, which knows nothing of requests.
Desk(v, a) ==
    /\ \E row \in Outcomes(status[v], a) : status' = [status EXCEPT ![v] = row.next]
    /\ UNCHANGED <<request, executed>>

\* The last approval of a version comes in, also while it is out for signature.
LateApproval(v) ==
    /\ CanTransition(status[v], "Approved")
    /\ status' = [status EXCEPT ![v] = "Approved"]
    /\ UNCHANGED <<request, executed>>

Next ==
    \/ \E r \in Request :
         \/ \E v \in Version : Create(r, v)
         \/ Send(r) \/ Complete(r) \/ CancelDraft(r) \/ CancelPending(r)
    \/ \E v \in Version, a \in DeskActions : Desk(v, a)
    \/ \E v \in Version : LateApproval(v)

Spec == Init /\ [][Next]_vars
=============================================================================
