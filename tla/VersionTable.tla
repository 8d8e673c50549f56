---------------------------- MODULE VersionTable ----------------------------
(***************************************************************************)
(* The Contract Version rows of one contract, and what loading and saving  *)
(* such a document does to them.  Every module that moves a version builds *)
(* on this one.                                                            *)
(*                                                                         *)
(* A request runs in one database transaction.  Its plain reads see the    *)
(* snapshot taken when it begins; its locking reads, and the row versions  *)
(* its writes replace, are those committed when it saves; its writes       *)
(* become visible together when it commits.  The model therefore takes a   *)
(* request in two steps: the step that loads evaluates the plain reads and *)
(* the checks made on them, the step that saves evaluates the rest.  A     *)
(* save writes back the WHOLE document as it was loaded, which is why the  *)
(* copy a client holds is part of the state.                               *)
(***************************************************************************)
EXTENDS VersionWorkflow

CONSTANTS Version,   \* the version documents the contract may ever have
          Client,    \* web workers and browser tabs holding a document copy
          Idle       \* a client that holds nothing

VARIABLES status,    \* status[v]: the status column, "Absent" before the insert
          current,   \* the versions whose is_current column is 1
          work,      \* work[c]: the copy client c holds and what it is doing
          outdated   \* clients whose copy's `modified` is not the row's any more

Exists(v) == status[v] # "Absent"

Holders(v) == {d \in Client : work[d] # Idle /\ work[d].doc = v}

\* A client whose request ended, saved or rolled back, holds nothing.
Release(c) == work' = [work EXCEPT ![c] = Idle]

Rollback(c) == Release(c) /\ outdated' = outdated \ {c}

-----------------------------------------------------------------------------
(* ContractVersion.validate and before_save.  A definition named X_Mutant  *)
(* is X with a plausible bug; it exists to show that a property would      *)
(* notice, and no other definition uses it.                                *)

\* check_if_latest: the copy's `modified` is that of the row, read with a lock.
IsLatest(c) == c \notin outdated

StatusConsistent_Mutant(isCurrent, new) == isCurrent \in BOOLEAN /\ new \in Status

\* validate_status_consistency
StatusConsistent(isCurrent, new) == ~(isCurrent /\ new = "Superseded")

CurrentRemains_Mutant(c) == c \in Client

\* validate_current_version_exists: get_doc_before_save is the locked row, the
\* search for another current version a plain read.
CurrentRemains(c) ==
    (work[c].doc \in current /\ ~work[c].current) => work[c].seen \ {work[c].doc} # {}

OtherCurrent_Mutant(c) == work[c].seen \ {work[c].doc}

\* set_as_current_version: SELECT ... FOR UPDATE returns the committed rows.
\* (The mutant is the same query without the lock: it reads the snapshot.)
OtherCurrent(c) == current \ {work[c].doc}

\* What version.save() requires when the status becomes `new`.
MaySave(c, new) ==
    /\ IsLatest(c)
    /\ TableAllows(status[work[c].doc], new)
    /\ StatusConsistent(work[c].current, new)
    /\ CurrentRemains(c)

SetCurrent(c) ==
    current' = IF work[c].current THEN (current \ OtherCurrent(c)) \union {work[c].doc}
                                  ELSE current \ {work[c].doc}

WriteVersion_Mutant(c, new) ==
    /\ status' = [v \in Version |->
                     IF v = work[c].doc THEN new
                     ELSE IF work[c].current /\ v \in OtherCurrent(c) THEN "Superseded"
                     ELSE status[v]]
    /\ SetCurrent(c)
    /\ outdated' = (outdated \union Holders(work[c].doc)) \ {c}
    /\ Release(c)

\* Unsetting is_current of the others leaves their `modified` alone
\* (update_modified=False): only copies of the saved version become outdated.
\* (The mutant also supersedes them.)
WriteVersion(c, new) ==
    /\ status' = [status EXCEPT ![work[c].doc] = new]
    /\ SetCurrent(c)
    /\ outdated' = (outdated \union Holders(work[c].doc)) \ {c}
    /\ Release(c)

SaveVersion(c, new) == MaySave(c, new) /\ WriteVersion(c, new)
=============================================================================
