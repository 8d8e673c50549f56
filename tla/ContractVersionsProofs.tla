----------------------- MODULE ContractVersionsProofs -----------------------
(***************************************************************************)
(* Proofs of the properties of ContractVersions, for any set of versions   *)
(* and of clients.                                                         *)
(***************************************************************************)
EXTENDS ContractVersions, VersionWorkflowProofs

\* A client that is creating a version is the only one to hold it, and it is
\* not in the table yet; every other copy is of an inserted version.
HoldsOK(c) ==
    IF work[c].op \in {"new", "insert"}
    THEN /\ work[c].status = "Draft"
         /\ ~Exists(work[c].doc)
         /\ \A d \in Holders(work[c].doc) : d = c
    ELSE Exists(work[c].doc)

\* A copy whose timestamp is good shows the status the row has ...
CopyOK(c) ==
    (c \notin outdated /\ work[c].op \in {"form", "save"}) => work[c].status = status[work[c].doc]

\* ... and its snapshot shows the version as current if it is; no snapshot
\* shows two current versions.
SnapshotOK(c) ==
    /\ \A v, w \in work[c].seen : v = w
    /\ (c \notin outdated /\ work[c].op \in {"save", "action"} /\ work[c].doc \in current)
          => work[c].doc \in work[c].seen

\* The number a request is about to write is free unless it was overtaken.
NumberOK(c) ==
    (c \notin overtaken /\ work[c].op \in {"insert", "save"}) =>
        \A w \in Version : Exists(w) /\ number[w] = work[c].number => w = work[c].doc

WorkInv == \A c \in Client : work[c] # Idle =>
               HoldsOK(c) /\ CopyOK(c) /\ SnapshotOK(c) /\ NumberOK(c)

IInv == TypeOK /\ AtMostOneCurrent /\ CurrentNotSuperseded /\ UniqueUnlessRaced /\ WorkInv

-----------------------------------------------------------------------------
(* Types *)

LEMMA InitType == Init => TypeOK
BY MaxNumberAssumption DEF Init, TypeOK

LEMMA StatusStrings == "Draft" \in Status /\ "Absent" \notin Status
BY DEF Status

\* What a save leaves behind, whichever request it ends.
LEMMA WriteVersionType ==
    ASSUME TypeOK, NEW c \in Client, work[c] # Idle, WriteVersion(c, work[c].status)
    PROVE  /\ status' \in [Version -> Status \union {"Absent"}]
           /\ current' \subseteq Version
           /\ work' \in [Client -> Work \union {Idle}]
           /\ outdated' \subseteq Client
<1>1. work[c] \in Work
  BY DEF TypeOK
<1>2. work[c].doc \in Version /\ work[c].status \in Status
  BY <1>1 DEF Work
<1> QED
  BY <1>2 DEF TypeOK, WriteVersion, SetCurrent, OtherCurrent, Release, Holders

LEMMA NextType == TypeOK /\ [Next]_vars => TypeOK'
<1> SUFFICES ASSUME TypeOK, [Next]_vars
             PROVE  TypeOK'
  OBVIOUS
<1> USE StatusStrings
<1>1. ASSUME NEW c \in Client, NEW v \in Version, NewForm(c, v)
      PROVE  TypeOK'
  <2>1. PICK n \in Number :
          Hold(c, [op |-> "new", doc |-> v, status |-> "Draft", current |-> TRUE,
                   was |-> FALSE, seen |-> {}, number |-> n])
    BY <1>1 DEF NewForm
  <2>2. [op |-> "new", doc |-> v, status |-> "Draft", current |-> TRUE,
         was |-> FALSE, seen |-> {}, number |-> n] \in Work
    BY DEF Work, Number
  <2>3. work' \in [Client -> Work \union {Idle}]
    BY <2>1, <2>2 DEF TypeOK, Hold
  <2> QED
    BY <1>1, <2>3 DEF TypeOK, NewForm
<1>2. ASSUME NEW c \in Client, NEW v \in Version, OpenForm(c, v)
      PROVE  TypeOK'
  <2>1. CopyOf(v, "form", status[v], {}) \in Work
    BY <1>2 DEF OpenForm, CopyOf, Work, TypeOK, Exists
  <2> QED
    BY <1>2, <2>1 DEF TypeOK, OpenForm, Hold
<1>3. ASSUME NEW c \in Client, BeginInsert(c)
      PROVE  TypeOK'
  <2>1. work[c] \in Work
    BY <1>3 DEF BeginInsert, Busy, TypeOK
  <2>2. PICK tick \in BOOLEAN :
          Hold(c, [work[c] EXCEPT !.op = "insert", !.current = tick, !.seen = current])
    BY <1>3 DEF BeginInsert
  <2>3. [work[c] EXCEPT !.op = "insert", !.current = tick, !.seen = current] \in Work
    BY <2>1 DEF Work, TypeOK
  <2> QED
    BY <1>3, <2>2, <2>3 DEF TypeOK, BeginInsert, Hold
<1>4. ASSUME NEW c \in Client, BeginSave(c)
      PROVE  TypeOK'
  <2>1. work[c] \in Work
    BY <1>4 DEF BeginSave, Busy, TypeOK
  <2>2. PICK tick \in BOOLEAN, n \in Number :
          Hold(c, [work[c] EXCEPT !.op = "save", !.current = tick, !.number = n,
                                  !.seen = current])
    BY <1>4 DEF BeginSave
  <2>3. [work[c] EXCEPT !.op = "save", !.current = tick, !.number = n, !.seen = current]
          \in Work
    <3>1. n \in 0..MaxNumber
      BY DEF Number
    <3> QED
      BY <2>1, <3>1 DEF Work, TypeOK
  <2> QED
    BY <1>4, <2>2, <2>3 DEF TypeOK, BeginSave, Hold
<1>5. ASSUME NEW c \in Client, NEW v \in Version, NEW a \in DeskActions, BeginAction(c, v, a)
      PROVE  TypeOK'
  <2>1. PICK r \in Outcomes(status[v], a) :
          Hold(c, CopyOf(v, "action", r.next, current))
    BY <1>5 DEF BeginAction
  <2>2. status[v] \in Status /\ number[v] \in 0..MaxNumber
    BY <1>5 DEF BeginAction, Exists, TypeOK
  <2>3. r.next \in Status
    BY <2>1, <2>2, OutcomeIsTransition
  <2>4. CopyOf(v, "action", r.next, current) \in Work
    BY <2>2, <2>3 DEF CopyOf, Work, TypeOK
  <2> QED
    BY <1>5, <2>1, <2>4 DEF TypeOK, BeginAction, Hold
<1>6. ASSUME NEW c \in Client, CommitInsert(c) \/ CommitSave(c)
      PROVE  TypeOK'
  <2>1. work[c] # Idle /\ WriteVersion(c, work[c].status) /\ WriteNumber(c)
    BY <1>6 DEF CommitInsert, CommitSave, Busy, SaveVersion
  <2>2. work[c].doc \in Version /\ work[c].number \in 0..MaxNumber
    BY <2>1 DEF TypeOK, Work
  <2> QED
    BY <2>1, <2>2, WriteVersionType
       DEF TypeOK, WriteNumber, NoteNumberWritten, Busy, Number
<1>7. ASSUME NEW c \in Client, CommitAction(c)
      PROVE  TypeOK'
  <2>1. work[c] # Idle /\ WriteVersion(c, work[c].status)
    BY <1>7 DEF CommitAction, Busy, SaveVersion
  <2> QED
    BY <1>7, <2>1, WriteVersionType DEF TypeOK, CommitAction
<1>8. ASSUME NEW c \in Client, Abandon(c)
      PROVE  TypeOK'
  BY <1>8 DEF TypeOK, Abandon, Rollback, Release
<1>9. CASE UNCHANGED vars
  BY <1>9 DEF TypeOK, vars
<1> QED
  BY <1>1, <1>2, <1>3, <1>4, <1>5, <1>6, <1>7, <1>8, <1>9 DEF Next

\* Type correctness: every reachable state has the types of TypeOK.
THEOREM TypeCorrect == Spec => []TypeOK
BY InitType, NextType, PTL DEF Spec

-----------------------------------------------------------------------------
(* The inductive invariant *)

LEMMA InitInv == Init => IInv
<1> SUFFICES ASSUME Init PROVE IInv
  OBVIOUS
<1>1. TypeOK
  BY InitType
<1> QED
  BY <1>1 DEF Init, IInv, AtMostOneCurrent, CurrentNotSuperseded, UniqueUnlessRaced, WorkInv,
              Exists

\* A step that only takes or changes the copy of one client.
LEMMA HoldStep ==
    ASSUME IInv, NEW c \in Client, NEW w \in Work, Hold(c, w),
           UNCHANGED <<status, current, outdated, number, overtaken, raced>>,
           w.op \in {"new", "insert"} =>
               /\ w.status = "Draft"
               /\ ~Exists(w.doc)
               /\ \A d \in Holders(w.doc) : d = c,
           w.op \notin {"new", "insert"} => Exists(w.doc),
           (c \notin outdated /\ w.op \in {"form", "save"}) => w.status = status[w.doc],
           \A x, y \in w.seen : x = y,
           (c \notin outdated /\ w.op \in {"save", "action"} /\ w.doc \in current)
               => w.doc \in w.seen,
           w.op \in {"insert", "save"} => NumberFree(w.doc, w.number),
           TypeOK'
    PROVE  IInv'
<1>1. work'[c] = w /\ \A d \in Client \ {c} : work'[d] = work[d]
  BY DEF Hold, IInv, TypeOK
<1>2. \A v \in Version : Exists(v)' <=> Exists(v)
  BY DEF Exists
<1>3. \A v \in Version : Holders(v)' \subseteq Holders(v) \union {c}
  BY <1>1 DEF Holders
<1>4. ASSUME NEW d \in Client, d # c, work'[d] # Idle
      PROVE  HoldsOK(d)' /\ CopyOK(d)' /\ SnapshotOK(d)' /\ NumberOK(d)'
  <2>1. work[d] \in Work /\ work'[d] = work[d]
    BY <1>1, <1>4 DEF IInv, TypeOK
  <2>2. work[d].doc \in Version /\ w.doc \in Version
    BY <2>1 DEF Work
  <2>3. HoldsOK(d) /\ CopyOK(d) /\ SnapshotOK(d) /\ NumberOK(d)
    BY <1>4, <2>1 DEF IInv, WorkInv
  <2>4. HoldsOK(d)'
    <3>1. CASE work[d].op \in {"new", "insert"}
      <4>1. d \in Holders(work[d].doc)
        BY <2>1, <1>4 DEF Holders
      <4>2. w.doc # work[d].doc
        BY <3>1, <4>1, <2>3, <1>4 DEF HoldsOK
      <4>3. c \notin Holders(work[d].doc)'
        BY <4>2, <1>1, <2>1 DEF Holders
      <4>4. \A e \in Holders(work[d].doc)' : e = d
        BY <4>3, <1>1, <2>1, <2>3, <3>1 DEF HoldsOK, Holders
      <4> QED
        BY <3>1, <2>1, <2>2, <2>3, <4>4, <1>2 DEF HoldsOK
    <3>2. CASE work[d].op \notin {"new", "insert"}
      BY <3>2, <2>1, <2>2, <2>3, <1>2 DEF HoldsOK
    <3> QED
      BY <3>1, <3>2
  <2>5. CopyOK(d)' /\ SnapshotOK(d)'
    BY <2>1, <2>3 DEF CopyOK, SnapshotOK
  <2>6. NumberOK(d)'
    BY <2>1, <2>3, <1>2 DEF NumberOK
  <2> QED
    BY <2>4, <2>5, <2>6
<1>5. HoldsOK(c)' /\ CopyOK(c)' /\ SnapshotOK(c)' /\ NumberOK(c)'
  <2>1. w.doc \in Version
    BY DEF Work
  <2>2. HoldsOK(c)'
    BY <1>1, <1>2, <1>3, <2>1 DEF HoldsOK
  <2>3. CopyOK(c)' /\ SnapshotOK(c)'
    BY <1>1 DEF CopyOK, SnapshotOK
  <2>4. NumberOK(c)'
    BY <1>1, <1>2 DEF NumberOK, NumberFree
  <2> QED
    BY <2>2, <2>3, <2>4
<1>6. AtMostOneCurrent' /\ CurrentNotSuperseded' /\ UniqueUnlessRaced'
  BY <1>2 DEF IInv, AtMostOneCurrent, CurrentNotSuperseded, UniqueUnlessRaced, TypeOK
<1> QED
  BY <1>4, <1>5, <1>6 DEF IInv, WorkInv

\* A step that ends the request of one client by saving the version it holds:
\* what it does to the version table.
LEMMA SaveStep ==
    ASSUME IInv, NEW c \in Client, work[c] # Idle,
           WriteVersion(c, work[c].status),
           StatusConsistent(work[c].current, work[c].status)
    PROVE  /\ AtMostOneCurrent'
           /\ CurrentNotSuperseded'
           /\ \A d \in Client : work'[d] # Idle =>
                  d # c /\ work'[d] = work[d] /\ HoldsOK(d)' /\ CopyOK(d)' /\ SnapshotOK(d)'
           /\ \A v \in Version \ {work[c].doc} : Exists(v)' <=> Exists(v)
<1> DEFINE u == work[c].doc
<1>1. work[c] \in Work /\ u \in Version /\ work[c].status \in Status
  BY DEF IInv, TypeOK, Work
<1>2. status' = [status EXCEPT ![u] = work[c].status]
  BY DEF WriteVersion
<1>3. status'[u] # "Absent" /\ \A v \in Version \ {u} : status'[v] = status[v]
  BY <1>1, <1>2, StatusStrings DEF IInv, TypeOK
<1>4. current' = IF work[c].current THEN {u} ELSE current \ {u}
  BY DEF WriteVersion, SetCurrent, OtherCurrent
<1>5. AtMostOneCurrent'
  BY <1>4 DEF IInv, AtMostOneCurrent
<1>6. CurrentNotSuperseded'
  BY <1>1, <1>2, <1>3, <1>4
     DEF IInv, TypeOK, CurrentNotSuperseded, StatusConsistent, Exists
<1>7. \A v \in Version \ {u} : Exists(v)' <=> Exists(v)
  BY <1>3 DEF Exists
<1>8. ASSUME NEW d \in Client, work'[d] # Idle
      PROVE  d # c /\ work'[d] = work[d] /\ HoldsOK(d)' /\ CopyOK(d)' /\ SnapshotOK(d)'
  <2>1. d # c /\ work'[d] = work[d]
    BY <1>8 DEF WriteVersion, Release, IInv, TypeOK
  <2>2. work[d] \in Work /\ work[d].doc \in Version
    BY <1>8, <2>1 DEF IInv, TypeOK, Work
  <2>3. HoldsOK(d) /\ CopyOK(d) /\ SnapshotOK(d)
    BY <1>8, <2>1 DEF IInv, WorkInv
  <2>4. Holders(work[d].doc)' \subseteq Holders(work[d].doc)
    BY <2>1 DEF WriteVersion, Release, Holders, IInv, TypeOK
  <2>5. HoldsOK(d)'
    <3>1. CASE work[d].op \in {"new", "insert"}
      <4>1. work[d].doc # u
        BY <2>1, <2>3, <3>1 DEF HoldsOK, Holders
      <4> QED
        BY <2>1, <2>2, <2>3, <2>4, <3>1, <4>1, <1>7 DEF HoldsOK
    <3>2. CASE work[d].op \notin {"new", "insert"}
      BY <2>1, <2>2, <2>3, <3>2, <1>3, <1>7 DEF HoldsOK, Exists
    <3> QED
      BY <3>1, <3>2
  <2>6. d \notin outdated' => d \notin outdated /\ work[d].doc # u
    BY <1>8, <2>1 DEF WriteVersion, Holders
  <2>7. CopyOK(d)'
    BY <2>1, <2>2, <2>3, <2>6, <1>3 DEF CopyOK
  <2>8. SnapshotOK(d)'
    BY <2>1, <2>3, <2>6, <1>4 DEF SnapshotOK
  <2> QED
    BY <2>1, <2>5, <2>7, <2>8
<1> QED
  BY <1>5, <1>6, <1>7, <1>8

\* The commit of a request that also writes the version number.
LEMMA NumberStep ==
    ASSUME IInv, TypeOK', NEW c \in Client, work[c] # Idle,
           work[c].op \in {"insert", "save"},
           WriteVersion(c, work[c].status),
           StatusConsistent(work[c].current, work[c].status),
           WriteNumber(c)
    PROVE  IInv'
<1> DEFINE u == work[c].doc
<1>1. u \in Version
  BY DEF IInv, TypeOK, Work
<1>2. number'[u] = work[c].number /\ \A v \in Version \ {u} : number'[v] = number[v]
  BY <1>1 DEF WriteNumber, IInv, TypeOK
<1>3. \A v \in Version \ {u} : Exists(v)' <=> Exists(v)
  BY SaveStep
<1>4. c \notin overtaken =>
          \A w \in Version : Exists(w) /\ number[w] = work[c].number => w = u
  BY DEF IInv, WorkInv, NumberOK
<1>5. raced' = IF c \in overtaken THEN raced \union {u} ELSE raced \ {u}
  BY DEF WriteNumber, NoteNumberWritten
<1>6. UniqueUnlessRaced'
  <2> SUFFICES ASSUME NEW v \in Version, NEW w \in Version,
                      Exists(v)', Exists(w)', number'[v] = number'[w]
               PROVE  v = w \/ v \in raced' \/ w \in raced'
    BY DEF UniqueUnlessRaced
  <2>1. CASE c \in overtaken
    BY <2>1, <1>1, <1>2, <1>3, <1>5 DEF IInv, UniqueUnlessRaced
  <2>2. CASE c \notin overtaken
    BY <2>2, <1>1, <1>2, <1>3, <1>4, <1>5 DEF IInv, UniqueUnlessRaced
  <2> QED
    BY <2>1, <2>2
<1>7. ASSUME NEW d \in Client, work'[d] # Idle
      PROVE  NumberOK(d)'
  <2>1. d # c /\ work'[d] = work[d]
    BY <1>7, SaveStep
  <2>2. work[d].op \in {"insert", "save"} => d \in overtaken'
    BY <1>7, <2>1 DEF WriteNumber, NoteNumberWritten, Busy
  <2> QED
    BY <2>1, <2>2 DEF NumberOK
<1> QED
  BY <1>6, <1>7, SaveStep DEF IInv, WorkInv

LEMMA NextInv == IInv /\ [Next]_vars => IInv'
<1> SUFFICES ASSUME IInv, [Next]_vars
             PROVE  IInv'
  OBVIOUS
<1>0. TypeOK /\ TypeOK'
  BY NextType DEF IInv
<1>1. ASSUME NEW c \in Client, NEW v \in Version, NewForm(c, v)
      PROVE  IInv'
  <2>1. PICK n \in Number :
          Hold(c, [op |-> "new", doc |-> v, status |-> "Draft", current |-> TRUE,
                   was |-> FALSE, seen |-> {}, number |-> n])
    BY <1>1 DEF NewForm
  <2> DEFINE w == [op |-> "new", doc |-> v, status |-> "Draft", current |-> TRUE,
                   was |-> FALSE, seen |-> {}, number |-> n]
  <2>2. w \in Work
    BY StatusStrings DEF Work, Number
  <2>3. /\ w.op = "new" /\ w.status = "Draft" /\ w.doc = v /\ w.seen = {}
        /\ ~Exists(v) /\ Holders(v) = {} /\ Hold(c, w)
        /\ UNCHANGED <<status, current, outdated, number, overtaken, raced>>
    BY <1>1, <2>1 DEF NewForm
  <2> HIDE DEF w
  <2> QED
    BY <1>0, <2>2, <2>3, HoldStep
<1>2. ASSUME NEW c \in Client, NEW v \in Version, OpenForm(c, v)
      PROVE  IInv'
  <2> DEFINE w == CopyOf(v, "form", status[v], {})
  <2>1. w \in Work
    BY <1>0, <1>2 DEF OpenForm, CopyOf, Work, TypeOK, Exists
  <2>2. /\ w.op = "form" /\ w.status = status[v] /\ w.doc = v /\ w.seen = {}
        /\ Exists(v) /\ Hold(c, w)
        /\ UNCHANGED <<status, current, outdated, number, overtaken, raced>>
    BY <1>2 DEF OpenForm, CopyOf
  <2> HIDE DEF w
  <2> QED
    BY <1>0, <2>1, <2>2, HoldStep
<1>3. ASSUME NEW c \in Client, BeginInsert(c)
      PROVE  IInv'
  <2>1. PICK tick \in BOOLEAN :
          Hold(c, [work[c] EXCEPT !.op = "insert", !.current = tick, !.seen = current])
    BY <1>3 DEF BeginInsert
  <2> DEFINE w == [work[c] EXCEPT !.op = "insert", !.current = tick, !.seen = current]
  <2>2. work[c] \in Work /\ work[c] # Idle /\ work[c].op = "new"
    BY <1>0, <1>3 DEF BeginInsert, Busy, TypeOK
  <2>3. w \in Work
    BY <1>0, <2>2 DEF Work, TypeOK
  <2>4. /\ w.op = "insert" /\ w.status = work[c].status /\ w.doc = work[c].doc
        /\ w.seen = current /\ w.number = work[c].number /\ Hold(c, w)
    BY <2>1, <2>2 DEF Work
  <2>5. HoldsOK(c) /\ (\A x, y \in current : x = y)
    BY <2>2 DEF IInv, WorkInv, AtMostOneCurrent
  <2>6. /\ NumberFree(work[c].doc, work[c].number)
        /\ UNCHANGED <<status, current, outdated, number, overtaken, raced>>
    BY <1>3 DEF BeginInsert
  <2>7. /\ w.status = "Draft" /\ ~Exists(w.doc)
        /\ \A d \in Holders(w.doc) : d = c
    BY <2>2, <2>4, <2>5 DEF HoldsOK
  <2> HIDE DEF w
  <2> QED
    BY <1>0, <2>3, <2>4, <2>5, <2>6, <2>7, HoldStep
<1>4. ASSUME NEW c \in Client, BeginSave(c)
      PROVE  IInv'
  <2>1. PICK tick \in BOOLEAN, n \in Number :
          /\ NumberFree(work[c].doc, n)
          /\ Hold(c, [work[c] EXCEPT !.op = "save", !.current = tick, !.number = n,
                                     !.seen = current])
    BY <1>4 DEF BeginSave
  <2> DEFINE w == [work[c] EXCEPT !.op = "save", !.current = tick, !.number = n,
                                  !.seen = current]
  <2>2. work[c] \in Work /\ work[c] # Idle /\ work[c].op = "form" /\ n \in 0..MaxNumber
    BY <1>0, <1>4 DEF BeginSave, Busy, TypeOK, Number
  <2>3. w \in Work
    BY <1>0, <2>2 DEF Work, TypeOK
  <2>4. /\ w.op = "save" /\ w.status = work[c].status /\ w.doc = work[c].doc
        /\ w.seen = current /\ w.number = n /\ Hold(c, w)
    BY <2>1, <2>2 DEF Work
  <2>5. HoldsOK(c) /\ CopyOK(c) /\ (\A x, y \in current : x = y)
    BY <2>2 DEF IInv, WorkInv, AtMostOneCurrent
  <2>6. /\ NumberFree(w.doc, w.number)
        /\ UNCHANGED <<status, current, outdated, number, overtaken, raced>>
    BY <1>4, <2>1, <2>4 DEF BeginSave
  <2>7. /\ Exists(w.doc)
        /\ c \notin outdated => w.status = status[w.doc]
    BY <2>2, <2>4, <2>5 DEF HoldsOK, CopyOK
  <2> HIDE DEF w
  <2> QED
    BY <1>0, <2>3, <2>4, <2>5, <2>6, <2>7, HoldStep
<1>5. ASSUME NEW c \in Client, NEW v \in Version, NEW a \in DeskActions, BeginAction(c, v, a)
      PROVE  IInv'
  <2>1. PICK r \in Outcomes(status[v], a) :
          Hold(c, CopyOf(v, "action", r.next, current))
    BY <1>5 DEF BeginAction
  <2> DEFINE w == CopyOf(v, "action", r.next, current)
  <2>2. status[v] \in Status /\ number[v] \in 0..MaxNumber
    BY <1>0, <1>5 DEF BeginAction, Exists, TypeOK
  <2>3. w \in Work
    BY <1>0, <2>2, OutcomeIsTransition DEF CopyOf, Work, TypeOK
  <2>4. /\ w.op = "action" /\ w.doc = v /\ w.seen = current
        /\ Exists(v) /\ Hold(c, w)
        /\ UNCHANGED <<status, current, outdated, number, overtaken, raced>>
    BY <1>5, <2>1 DEF BeginAction, CopyOf
  <2>5. \A x, y \in current : x = y
    BY DEF IInv, AtMostOneCurrent
  <2> HIDE DEF w
  <2> QED
    BY <1>0, <2>3, <2>4, <2>5, HoldStep
<1>6. ASSUME NEW c \in Client, CommitInsert(c)
      PROVE  IInv'
  <2>1. /\ work[c] # Idle /\ work[c].op = "insert"
        /\ WriteVersion(c, work[c].status) /\ WriteNumber(c)
    BY <1>6 DEF CommitInsert, Busy
  <2>2. work[c].status = "Draft"
    BY <2>1 DEF IInv, WorkInv, HoldsOK
  <2>3. StatusConsistent(work[c].current, work[c].status)
    BY <2>2 DEF StatusConsistent
  <2> QED
    BY <1>0, <2>1, <2>3, NumberStep
<1>7. ASSUME NEW c \in Client, CommitSave(c)
      PROVE  IInv'
  <2>1. /\ work[c] # Idle /\ work[c].op = "save"
        /\ WriteVersion(c, work[c].status) /\ WriteNumber(c)
        /\ StatusConsistent(work[c].current, work[c].status)
    BY <1>7 DEF CommitSave, Busy, SaveVersion, MaySave
  <2> QED
    BY <1>0, <2>1, NumberStep
<1>8. ASSUME NEW c \in Client, CommitAction(c)
      PROVE  IInv'
  <2>1. /\ work[c] # Idle /\ work[c].op = "action"
        /\ WriteVersion(c, work[c].status)
        /\ StatusConsistent(work[c].current, work[c].status)
        /\ overtaken' = overtaken \ {c} /\ number' = number /\ raced' = raced
    BY <1>8 DEF CommitAction, Busy, SaveVersion, MaySave
  <2>2. work[c].doc \in Version /\ HoldsOK(c)
    BY <1>0, <2>1 DEF TypeOK, Work, IInv, WorkInv
  <2>3. \A v \in Version : Exists(v)' <=> Exists(v)
    <3>1. Exists(work[c].doc)
      BY <2>1, <2>2 DEF HoldsOK
    <3>2. status'[work[c].doc] # "Absent"
      BY <1>0, <2>1, <2>2, StatusStrings DEF WriteVersion, TypeOK, Work
    <3>3. \A v \in Version \ {work[c].doc} : Exists(v)' <=> Exists(v)
      BY <2>1, SaveStep
    <3> QED
      BY <3>1, <3>2, <3>3 DEF Exists
  <2>4. UniqueUnlessRaced'
    BY <2>1, <2>3 DEF IInv, UniqueUnlessRaced
  <2>5. ASSUME NEW d \in Client, work'[d] # Idle
        PROVE  NumberOK(d)'
    <3>1. d # c /\ work'[d] = work[d]
      BY <2>1, <2>5, SaveStep
    <3>2. NumberOK(d)
      BY <2>5, <3>1 DEF IInv, WorkInv
    <3> QED
      BY <2>1, <2>3, <3>1, <3>2 DEF NumberOK
  <2> QED
    BY <1>0, <2>1, <2>4, <2>5, SaveStep DEF IInv, WorkInv
<1>9. ASSUME NEW c \in Client, Abandon(c)
      PROVE  IInv'
  <2>1. /\ work'[c] = Idle /\ \A d \in Client \ {c} : work'[d] = work[d]
        /\ outdated' = outdated \ {c} /\ overtaken' = overtaken \ {c}
        /\ UNCHANGED <<status, current, number, raced>>
    BY <1>0, <1>9 DEF Abandon, Rollback, Release, TypeOK
  <2>2. ASSUME NEW d \in Client, work'[d] # Idle
        PROVE  HoldsOK(d)' /\ CopyOK(d)' /\ SnapshotOK(d)' /\ NumberOK(d)'
    <3>1. d # c /\ work'[d] = work[d]
      BY <2>1, <2>2
    <3>2. HoldsOK(d) /\ CopyOK(d) /\ SnapshotOK(d) /\ NumberOK(d)
      BY <2>2, <3>1 DEF IInv, WorkInv
    <3>3. Holders(work[d].doc)' \subseteq Holders(work[d].doc)
      BY <2>1, <3>1 DEF Holders
    <3>4. HoldsOK(d)'
      BY <2>1, <3>1, <3>2, <3>3 DEF HoldsOK, Exists
    <3>5. CopyOK(d)' /\ SnapshotOK(d)' /\ NumberOK(d)'
      BY <2>1, <3>1, <3>2 DEF CopyOK, SnapshotOK, NumberOK, Exists
    <3> QED
      BY <3>4, <3>5
  <2>3. AtMostOneCurrent' /\ CurrentNotSuperseded' /\ UniqueUnlessRaced'
    BY <2>1 DEF IInv, AtMostOneCurrent, CurrentNotSuperseded, UniqueUnlessRaced, Exists
  <2> QED
    BY <1>0, <2>2, <2>3 DEF IInv, WorkInv
<1>10. CASE UNCHANGED vars
  <2>1. ASSUME NEW d \in Client, work'[d] # Idle
        PROVE  HoldsOK(d)' /\ CopyOK(d)' /\ SnapshotOK(d)' /\ NumberOK(d)'
    <3>1. HoldsOK(d) /\ CopyOK(d) /\ SnapshotOK(d) /\ NumberOK(d)
      BY <1>10, <2>1 DEF vars, IInv, WorkInv
    <3> QED
      BY <1>10, <3>1 DEF vars, HoldsOK, Holders, CopyOK, SnapshotOK, NumberOK, Exists
  <2> QED
    BY <1>0, <1>10, <2>1
       DEF vars, IInv, WorkInv, AtMostOneCurrent, CurrentNotSuperseded, UniqueUnlessRaced, Exists
<1> QED
  BY <1>1, <1>2, <1>3, <1>4, <1>5, <1>6, <1>7, <1>8, <1>9, <1>10 DEF Next

-----------------------------------------------------------------------------
(* The theorems *)

\* IInv holds in every reachable state.
THEOREM Invariance == Spec => []IInv
BY InitInv, NextInv, PTL DEF Spec

\* set_as_current_version: whatever requests interleave, at most one version
\* of the contract is flagged current.
THEOREM OneCurrent == Spec => []AtMostOneCurrent
<1>1. IInv => AtMostOneCurrent
  BY DEF IInv
<1> QED
  BY <1>1, Invariance, PTL

\* validate_status_consistency: the current version is never Superseded.
THEOREM CurrentIsLive == Spec => []CurrentNotSuperseded
<1>1. IInv => CurrentNotSuperseded
  BY DEF IInv
<1> QED
  BY <1>1, Invariance, PTL

\* validate_unique_version_number: a number is duplicated only by a request
\* that overlapped another one.
THEOREM NumbersUniqueUnlessRaced == Spec => []UniqueUnlessRaced
<1>1. IInv => UniqueUnlessRaced
  BY DEF IInv
<1> QED
  BY <1>1, Invariance, PTL

\* validate_current_version_exists: no step leaves a contract that has a
\* current version without one.
THEOREM CurrentKept == Spec => CurrentSurvives
<1>1. ASSUME IInv, [Next]_vars
      PROVE  [current # {} => current' # {}]_vars
  <2>1. ASSUME NEW c \in Client, CommitInsert(c) \/ CommitSave(c) \/ CommitAction(c),
               current # {}
        PROVE  current' # {}
    <3> DEFINE u == work[c].doc
    <3>1. work[c] # Idle /\ WriteVersion(c, work[c].status)
      BY <2>1 DEF CommitInsert, CommitSave, CommitAction, Busy, SaveVersion
    <3>2. current' = IF work[c].current THEN {u} ELSE current \ {u}
      BY <3>1 DEF WriteVersion, SetCurrent, OtherCurrent
    <3>3. CASE work[c].current
      BY <3>2, <3>3
    <3>4. CASE u \notin current
      BY <2>1, <3>2, <3>4
    <3>5. CASE ~work[c].current /\ u \in current
      <4>1. work[c].op \in {"save", "action"}
        BY <1>1, <2>1, <3>1, <3>5 DEF CommitInsert, CommitSave, CommitAction, Busy, IInv, WorkInv,
           HoldsOK, CurrentNotSuperseded
      <4>2. c \notin outdated /\ work[c].seen \ {u} # {}
        BY <2>1, <3>5, <4>1
           DEF CommitInsert, CommitSave, CommitAction, Busy, SaveVersion, MaySave, IsLatest,
               CurrentRemains
      <4>3. SnapshotOK(c)
        BY <1>1, <3>1 DEF IInv, WorkInv
      <4> QED
        BY <3>5, <4>1, <4>2, <4>3 DEF SnapshotOK
    <3> QED
      BY <3>3, <3>4, <3>5
  <2> QED
    BY <1>1, <2>1 DEF Next, vars, NewForm, OpenForm, BeginInsert, BeginSave, BeginAction, Abandon
<1> QED
  BY <1>1, Invariance, PTL DEF Spec, CurrentSurvives

\* Only a workflow action moves the status of an inserted version.
THEOREM StatusMovesByAction == Spec => OnlyActionsMoveStatus
<1>1. ASSUME IInv, [Next]_vars
      PROVE  [\A v \in Version : Exists(v) /\ status'[v] # status[v] =>
                \E c \in Client : Busy(c, "action") /\ work[c].doc = v /\ work'[c] = Idle]_vars
  <2> SUFFICES ASSUME NEW v \in Version, Exists(v), status'[v] # status[v]
               PROVE  \E c \in Client : Busy(c, "action") /\ work[c].doc = v /\ work'[c] = Idle
    OBVIOUS
  <2>1. PICK c \in Client : CommitInsert(c) \/ CommitSave(c) \/ CommitAction(c)
    BY <1>1 DEF Next, vars, NewForm, OpenForm, BeginInsert, BeginSave, BeginAction, Abandon
  <2>2. /\ work[c] # Idle /\ work'[c] = Idle
        /\ status' = [status EXCEPT ![work[c].doc] = work[c].status]
    BY <1>1, <2>1 DEF CommitInsert, CommitSave, CommitAction, Busy, SaveVersion, WriteVersion,
       Release, IInv, TypeOK
  <2>3. work[c].doc = v /\ work[c].status # status[v]
    BY <1>1, <2>2 DEF IInv, TypeOK
  <2>4. ~CommitInsert(c)
    BY <1>1, <2>2, <2>3 DEF CommitInsert, Busy, IInv, WorkInv, HoldsOK
  <2>5. ~CommitSave(c)
    BY <1>1, <2>2, <2>3
       DEF CommitSave, Busy, SaveVersion, MaySave, IsLatest, IInv, WorkInv, CopyOK
  <2> QED
    BY <2>1, <2>2, <2>3, <2>4, <2>5 DEF CommitAction
<1> QED
  BY <1>1, Invariance, PTL DEF Spec, OnlyActionsMoveStatus

\* The version table implements the documented life cycle: a step of the
\* requests is an insert as Draft, one legal transition, or a stutter.
THEOREM Refinement == Spec => FollowsLifecycle
<1>1. Init => Lifecycle!Init
  BY DEF Init, Lifecycle!Init
<1>2. ASSUME IInv, [Next]_vars
      PROVE  [Lifecycle!Next]_status
  <2> SUFFICES ASSUME status' # status
               PROVE  Lifecycle!Next
    OBVIOUS
  <2>1. PICK c \in Client : CommitInsert(c) \/ CommitSave(c) \/ CommitAction(c)
    BY <1>2 DEF Next, vars, NewForm, OpenForm, BeginInsert, BeginSave, BeginAction, Abandon
  <2> DEFINE u == work[c].doc
  <2>2. /\ work[c] # Idle /\ HoldsOK(c) /\ u \in Version /\ work[c].status \in Status
        /\ status' = [status EXCEPT ![u] = work[c].status]
    BY <1>2, <2>1 DEF CommitInsert, CommitSave, CommitAction, Busy, SaveVersion, WriteVersion,
       IInv, TypeOK, WorkInv, Work
  <2>3. CASE CommitInsert(c)
    <3>1. status[u] = "Absent" /\ work[c].status = "Draft"
      BY <2>2, <2>3 DEF CommitInsert, Busy, HoldsOK, Exists
    <3> QED
      BY <2>2, <3>1 DEF Lifecycle!Next, Lifecycle!Insert
  <2>4. CASE CommitSave(c) \/ CommitAction(c)
    <3>1. Exists(u) /\ TableAllows(status[u], work[c].status)
      BY <2>2, <2>4 DEF CommitSave, CommitAction, Busy, SaveVersion, MaySave, HoldsOK
    <3>2. status[u] \in Status
      BY <1>2, <2>2, <3>1 DEF IInv, TypeOK, Exists
    <3>3. status[u] # work[c].status
      BY <1>2, <2>2 DEF IInv, TypeOK
    <3>4. CanTransition(status[u], work[c].status)
      BY <2>2, <3>1, <3>2, <3>3, TableAgreesWithMap
    <3> QED
      BY <2>2, <3>4 DEF Lifecycle!Next, Lifecycle!Move, Lifecycle!CanTransition, CanTransition,
         Lifecycle!VERSION_TRANSITIONS, VERSION_TRANSITIONS, Lifecycle!Status, Status,
         Lifecycle!TransitionPairs, TransitionPairs
  <2> QED
    BY <2>1, <2>3, <2>4
<1> QED
  BY <1>1, <1>2, Invariance, PTL DEF Spec, FollowsLifecycle, Lifecycle!Spec
=============================================================================
