-------------------------- MODULE ContractVersions --------------------------
(***************************************************************************)
(* The versions of one contract under concurrent desk use: new versions    *)
(* prefilled by "Create Version", forms kept open in browser tabs and      *)
(* saved later, and workflow actions.  The rules at stake are those of the *)
(* ContractVersion controller: one current version, unique numbers, status *)
(* along the workflow.                                                     *)
(***************************************************************************)
EXTENDS VersionTable, Naturals

CONSTANTS MaxNumber,     \* bound of the model: largest version number
          DeskActions    \* the workflow actions applied from the desk

ASSUME MaxNumberAssumption == MaxNumber \in Nat \ {0}
ASSUME DeskActionsAssumption == DeskActions \subseteq WorkflowAction

VARIABLES number,      \* number[v]: version_number, 0 before the insert
          overtaken,   \* clients whose open request missed another's commit
          raced        \* versions last saved by an overtaken request

vars == <<status, current, work, outdated, number, overtaken, raced>>

Number == 1..MaxNumber

\* op: "new" and "form" are browser forms; "insert", "save" and "action" are
\* requests between their plain reads and their commit.
Work == [op : {"new", "form", "insert", "save", "action"},
         doc : Version,
         status : Status,            \* the status the save will write
         current : BOOLEAN,          \* the is_current the save will write
         was : BOOLEAN,              \* is_current as it was loaded
         seen : SUBSET Version,      \* current versions of the snapshot
         number : 0..MaxNumber]      \* the version_number the save will write

Init ==
    /\ status = [v \in Version |-> "Absent"]
    /\ current = {}
    /\ work = [c \in Client |-> Idle]
    /\ outdated = {}
    /\ number = [v \in Version |-> 0]
    /\ overtaken = {}
    /\ raced = {}

Busy(c, op) == work[c] # Idle /\ work[c].op = op

\* A copy of v as the database shows it now, to be saved with status `new`.
CopyOf(v, op, new, seen) ==
    [op |-> op, doc |-> v, status |-> new, current |-> v \in current,
     was |-> v \in current, seen |-> seen, number |-> number[v]]

Hold(c, w) == work' = [work EXCEPT ![c] = w]

NumberFree_Mutant(v, n) == \A w \in current : number[w] = n => w = v

\* validate_unique_version_number: a plain read, so of the snapshot.
\* (The mutant looks at the current version only.)
NumberFree(v, n) == \A w \in Version : Exists(w) /\ number[w] = n => w = v

\* _get_next_version_number: one more than the highest.
IsNextNumber(n) ==
    /\ \A w \in Version : number[w] < n
    /\ n = 1 \/ \E w \in Version : number[w] = n - 1

-----------------------------------------------------------------------------
(* Browser forms *)

\* "Create Version" on a submitted contract prefills an unsaved form.
NewForm(c, v) ==
    /\ work[c] = Idle
    /\ ~Exists(v) /\ Holders(v) = {}
    /\ \E n \in Number :
         /\ IsNextNumber(n)
         /\ Hold(c, [op |-> "new", doc |-> v, status |-> "Draft", current |-> TRUE,
                     was |-> FALSE, seen |-> {}, number |-> n])
    /\ UNCHANGED <<status, current, outdated, number, overtaken, raced>>

\* Opening a version loads every field of it into the tab.
OpenForm(c, v) ==
    /\ work[c] = Idle
    /\ Exists(v)
    /\ Hold(c, CopyOf(v, "form", status[v], {}))
    /\ UNCHANGED <<status, current, outdated, number, overtaken, raced>>

-----------------------------------------------------------------------------
(* Requests: the plain reads *)

\* The user may untick Current Version before saving the new document.
BeginInsert(c) ==
    /\ Busy(c, "new")
    /\ NumberFree(work[c].doc, work[c].number)
    /\ \E tick \in BOOLEAN :
         Hold(c, [work[c] EXCEPT !.op = "insert", !.current = tick, !.seen = current])
    /\ UNCHANGED <<status, current, outdated, number, overtaken, raced>>

\* The user may have changed the tick box and the number; the form posts the
\* whole document, so what was not changed is written back as it was loaded.
BeginSave(c) ==
    /\ Busy(c, "form")
    /\ \E tick \in BOOLEAN, n \in Number :
         /\ NumberFree(work[c].doc, n)
         /\ Hold(c, [work[c] EXCEPT !.op = "save", !.current = tick, !.number = n,
                                    !.seen = current])
    /\ UNCHANGED <<status, current, outdated, number, overtaken, raced>>

\* apply_workflow loads the document, finds the action's row and saves it with
\* the next state; that save validates the number as any other.
BeginAction(c, v, a) ==
    /\ work[c] = Idle
    /\ Exists(v)
    /\ NumberFree(v, number[v])
    /\ \E r \in Outcomes(status[v], a) :
         Hold(c, CopyOf(v, "action", r.next, current))
    /\ UNCHANGED <<status, current, outdated, number, overtaken, raced>>

-----------------------------------------------------------------------------
(* Requests: the locking reads, the writes and the commit *)

\* Bookkeeping of the model: who wrote a number while another number-writing
\* request was between its check and its commit.
NoteNumberWritten(c) ==
    /\ overtaken' = (overtaken \union {d \in Client : Busy(d, "insert") \/ Busy(d, "save")}) \ {c}
    /\ raced' = IF c \in overtaken THEN raced \union {work[c].doc}
                                   ELSE raced \ {work[c].doc}

WriteNumber(c) ==
    /\ number' = [number EXCEPT ![work[c].doc] = work[c].number]
    /\ NoteNumberWritten(c)

\* A new document has no earlier self to compare with: it starts as a Draft.
CommitInsert(c) ==
    /\ Busy(c, "insert")
    /\ WriteVersion(c, work[c].status)
    /\ WriteNumber(c)

CommitSave(c) ==
    /\ Busy(c, "save")
    /\ SaveVersion(c, work[c].status)
    /\ WriteNumber(c)

CommitAction(c) ==
    /\ Busy(c, "action")
    /\ SaveVersion(c, work[c].status)
    /\ overtaken' = overtaken \ {c}
    /\ UNCHANGED <<number, raced>>

\* A closed tab, or a request that throws, deadlocks, times out or dies: the
\* transaction rolls back.  It may happen to any request.
Abandon(c) ==
    /\ work[c] # Idle
    /\ Rollback(c)
    /\ overtaken' = overtaken \ {c}
    /\ UNCHANGED <<status, current, number, raced>>

Next ==
    \E c \in Client :
        \/ \E v \in Version : NewForm(c, v) \/ OpenForm(c, v)
        \/ BeginInsert(c) \/ BeginSave(c)
        \/ \E v \in Version, a \in DeskActions : BeginAction(c, v, a)
        \/ CommitInsert(c) \/ CommitSave(c) \/ CommitAction(c)
        \/ Abandon(c)

Spec == Init /\ [][Next]_vars

-----------------------------------------------------------------------------
(* Properties *)

\* Every variable has its type.
TypeOK ==
    /\ status \in [Version -> Status \union {"Absent"}]
    /\ current \subseteq Version
    /\ work \in [Client -> Work \union {Idle}]
    /\ outdated \subseteq Client
    /\ number \in [Version -> 0..MaxNumber]
    /\ overtaken \subseteq Client
    /\ raced \subseteq Version

\* No interleaving of inserts, form saves and workflow actions leaves two
\* versions flagged current (set_as_current_version's row lock).
AtMostOneCurrent == \A v, w \in current : v = w

\* Once the contract has a current version no request leaves it without one
\* (validate_current_version_exists), also when the flag is taken away from
\* a version while another request is unticking or moving it.
CurrentSurvives == [][current # {} => current' # {}]_vars

\* The current version is never Superseded, whichever of the flag and the
\* status is written last and by whom (validate_status_consistency).
CurrentNotSuperseded == \A v \in current : Exists(v) /\ status[v] # "Superseded"

\* Two versions share a number only if one of them was last saved by a request
\* that overlapped another save: validate_unique_version_number is sound for
\* requests that run one after the other, however old their forms are.
UniqueUnlessRaced ==
    \A v, w \in Version : Exists(v) /\ Exists(w) /\ number[v] = number[w]
                          => v = w \/ v \in raced \/ w \in raced

\* A version becomes current, or stops being it, only when the user who saved
\* changed the tick box (or inserted a version with it ticked): "New versions
\* supersede the previous current version", and an old tab does not undo that.
CurrentMovesOnRequest ==
    [][current' # current =>
         \E c \in Client : /\ work[c] # Idle /\ work'[c] = Idle
                           /\ work[c].current # work[c].was]_vars

\* Saving a form never changes the status of a version, although it writes the
\* status as it was when the form was loaded: only a workflow action does.
OnlyActionsMoveStatus ==
    [][\A v \in Version : Exists(v) /\ status'[v] # status[v] =>
         \E c \in Client : Busy(c, "action") /\ work[c].doc = v /\ work'[c] = Idle]_vars

\* What the status column does, seen from outside.
Lifecycle == INSTANCE Lifecycle WITH stage <- status

\* Every version starts as a Draft and its status moves along VERSION_TRANSITIONS
\* only, whatever is saved when: the workflow fixture, which the framework
\* enforces, allows nothing the Python map forbids.
FollowsLifecycle == Lifecycle!Spec
=============================================================================
