# Contract management: TLA+ models, model checking and proofs

This directory holds TLA+ specifications of the contract management application
(`src/frappe-bench/apps/contract_management`) and of the part of the Documenso
integration (`src/frappe-bench/apps/docusign_integration`) it relies on. The
specifications are translated from the Python, JavaScript and JSON sources;
`PROJECT.json` maps every definition to its lines. TLC checks them on small
instances; TLAPS proves every safety property of the passing runs, and that each
refinement holds, for any values of the constants (section 4).

Paths below are relative to
`src/frappe-bench/apps/contract_management/contract_management/contract_management/`
unless they begin with `docs/` (`src/docs/`) or `docusign_integration/`.

## 1. Inventory

| Component | State | Operations | Hard behaviour | What makes it correct |
|---|---|---|---|---|
| Version workflow (`constants/`, `fixtures/workflow.json`, `services/workflow.py`) | two tables of transitions | `can_transition`, `apply_action`, `apply_system_action` | the two tables must agree; the framework enforces one, services consult the other | both allow the same moves; every status change follows them |
| Contract Version (`doctype/contract_version`, `services/contract.py`) | `status`, `version_number`, `is_current` per version | Create Version, insert, form save, workflow actions | old tabs, overlapping saves | one current version, never lost, never Superseded; unique numbers; a form never moves the status |
| Contract and collaborators (`doctype/contract`, `doctype/collaborator`) | `review_status` per collaborator | desk save, update by a decision | the whole table is written back | no decision is lost |
| Approvals (`services/approval.py`, `services/contract_version.py`, `doctype/approval`) | `Approval` rows per version and approver | submit for review, approve, reject | simultaneous decisions, double clicks, several rounds | the last approval always moves the version; decisions are final; one pending approval per approver |
| Signature requests (`services/signature.py`, `doctype/signature_request`) | request status, envelope ID, recipients, executed document | create, edit recipients, send, webhook completion, mark signed, cancel | three external calls inside a transaction; duplicated, late and failing webhooks; retries; cancellation racing completion | completion is all or nothing; closed requests stay closed; one request out per version; a completed envelope is eventually recorded |
| Webhook endpoint (`api/documenso_webhook.py`, `services/webhook*.py`) | the configured secret | authenticate, dispatch | duplicate and late delivery, lost answers, rotation of the secret | an event is acknowledged only when nothing is left to do for it; a failure answers with an error, so that Documenso delivers again |
| Documenso provider and HTTP client (`docusign_integration/`) | envelopes at Documenso | create, distribute, get, download | time-outs after the work was done, unexpected bodies | no failure passes for success |
| Notifications (`services/notification.py`) | none | seven notifications | must never undo the work | failures are swallowed |
| Portal API (`portal_api.py`) | the session user | dashboard, detail, download, `review_contract` | elevation to Administrator, choice of version and approval at request time, remark written before the decision | decides only the caller's pending approval, whole or not at all; offers the review exactly while it is awaited; never another recipient's link |
| Portal page (`public/portal/portal.js`) | the payload last loaded | load, refresh on focus, approve, reject | the page is older than the database | a decision lands on the version shown, or the answer says otherwise |
| Portal login, Reports, Counterparty, `hooks.py` | browser session, none, one form, none | read-only queries, field checks, declarations | - | - |

How they interact: the desk and the portal call whitelisted methods of the
documents, which call the services; services call each other
(`ContractVersionService` → `WorkflowService`, `ApprovalService`;
`SignatureService` → `WorkflowService`, provider, `NotificationService`); Documenso calls
the webhook endpoint. They share the database rows, and browser tabs keep copies
of documents and save them whole later. `PROJECT.json` lists the components with
what is and is not modelled, and the hazards at the lines where they bite.

### Transactions and document copies

Every Frappe request is one MariaDB transaction (REPEATABLE READ). The models
take it in two steps:

* the *begin* step evaluates the plain reads (`get_doc`, `get_all`, `exists`,
  `get_value`) on the snapshot, with the checks made on them, and keeps the
  loaded copy in `work[c]`;
* the *commit* step evaluates the locking reads (`SELECT ... FOR UPDATE`,
  `check_if_latest` and the reload of `get_doc_before_save` during a save), then performs all
  the writes. They become visible together.

A request may fail or be killed at any moment between (`Abandon`). What it did at
Documenso stays, what it did in the database does not. Calls to Documenso are
steps of their own. A save compares the `modified` of the copy with that of the
row; `frappe.db.set_value` writes without that check, and moves `modified` unless
`update_modified=False`. The models keep, instead of timestamps, the set of clients
whose copy is no longer the latest (`outdated` for versions, `stale` for the
contract, `lapsed` for signature requests).

The continuous integration uses MariaDB 11.8, which by default also aborts a
transaction that locks a row changed since its snapshot
(`innodb_snapshot_isolation`). That only removes behaviours (they become
`Abandon`), so what is shown safe here is safe there. None of the violations
below needs an overlap of requests.

The version form hides the workflow menu (`contract_version.js`:
`show_actions = () => {}`). A *desk action* in the models is the same action
applied from the list view's Actions menu or through the API
(`frappe.model.workflow.apply_workflow`), by a user with the roles of the row and
write permission. `Revise` has no other way in.

## 2. Modules

| Module | Stands for |
|---|---|
| `VersionWorkflow` | the statuses, `VERSION_TRANSITIONS`, the rows of the workflow fixture |
| `VersionWorkflowProofs` | lemmas about the two tables of transitions, used by the proofs below |
| `VersionTable` | the Contract Version rows and what saving one does: `validate`, `before_save`, `check_if_latest`; used by `ContractVersions`, `Approvals` and `Signing` |
| `Lifecycle` | abstract: a version starts as Draft and moves along the map, one version at a time |
| `ContractVersions` | the versions of one contract under tabs, inserts, saves and workflow actions |
| `ContractVersionsProofs` | its theorems and proofs |
| `ReviewProtocol` | abstract: submit, approve, reject, workflow actions as indivisible steps |
| `Approvals` | the review as overlapping requests |
| `ApprovalsProofs` | its theorems and proofs |
| `Portal` | the portal page and `review_contract`, on top of `Approvals`, over two versions |
| `PortalProofs` | its theorems and proofs, on top of `ApprovalsProofs` |
| `SigningProtocol` | abstract: create, send, complete, cancel, workflow actions and late approvals as indivisible steps on the books |
| `Signing` | signature requests, Documenso envelopes, completion |
| `SigningProofs` | its theorems and proofs |
| `SigningProtocolProofs` | the proof that `Signing` implements `SigningProtocol`, on top of `SigningProofs` |
| `Webhook` | the endpoint: secret, dispatch, acknowledgement, redelivery, on top of `Signing` |
| `WebhookProofs` | its theorems and proofs, on top of `SigningProtocolProofs` |
| `DocumensoClient` | what the HTTP client makes of an answer: a value or an exception |
| `Recipients` | the recipients of one request: validators, linking, signing URL, portal link; uses `DocumensoClient` |
| `RecipientsProofs` | its theorems and proofs |
| `MCContractVersions`, `MCApprovals`, `MCPortal`, `MCSigning`, `MCWebhook`, `MCRecipients` | symmetry sets and entry points for TLC |

A definition `X_Word` beside a definition `X` (`Send_Mutant`, `Link_ByPosition`) is `X` with a plausible bug. It is used by nothing; it
documents which slip in the code the property listed for it in `PROJECT.json`
would catch.

**ContractVersions.** `status`, `number` and `current` are columns of the table.
`NewForm` is the prefilled form of Create Version, `OpenForm` any other form;
`BeginInsert`/`CommitInsert`, `BeginSave`/`CommitSave` and
`BeginAction`/`CommitAction` are the three kinds of request. The user may change
the tick box and the number; the status is read-only in the form and written back
as loaded. `overtaken` and `raced` are bookkeeping of the model: they record which
versions were last written by a request that overlapped another number-writing
request, so that `UniqueUnlessRaced` can say that nothing else breaks uniqueness.

**Approvals.** `rows[v][u]` is the sequence of u's approvals of v (one per round),
`review[u]` the `review_status` in the roster. A decision loads the version and the
contract (`BeginApprove`, `BeginReject`) and then blindly writes the approval row
and saves the contract (`CommitDecide`), or also saves the version
(`CommitConclude`). `OpenContract`/`CommitContract` is somebody editing the contract
itself. The set `User` is the part of the roster whose role is in
`APPROVAL_ROLES`. `waived` is a history variable: the versions that the desk's
Approve action has approved without their approvals; `ApprovedByAll` speaks of
all others, so that it says what every other way to Approved needs.

**Portal.** `page` is the payload of the page's last `get_contract_detail`, computed
by `Detail` from the current version, the newest approval of anyone (`LatestApproval`) and
the user's own (`UserApproval`). `BeginReview` is `review_contract` up to the
service's reads: it needs the panel (`Panel`), and picks version and approval
anew. `CommitReview` commits the remark with the decision, `FailReview` is the
rollback. `Answer` is the payload returned: read inside the transaction, so with
the other tables as of its beginning. `Desk` is everybody else: the requests of
`Approvals`, and version forms opened at any time and saved later with the Current
Version box ticked or not (`OpenForm`).
`can_review`, the panel and the answer are operators, so that the
properties can ask what a page *would* show. The elevation to Administrator and
back, an object of the one request's session, is left out; what could go wrong with it
is a hazard no property covers. So is `get_dashboard`, which lists a contract once per
version flagged current: that there is exactly one is a matter of `ContractVersions`.

**Signing.** `request[r]` is the Signature Request row. A send is `BeginSend`
(checks), `CreateEnvelope`, `Distribute` and `CommitSend`. Whether another request of
the version is active is validated by the first save only, after the envelope was
created, so a send the validator refuses leaves a draft envelope behind
(`RefuseSend`). A form is opened (`OpenRequest`), validated on the snapshot its save
begins with (`BeginForm`) and committed (`CommitForm`). A completion is
`BeginWebhook` or `BeginMark` (the last recipient marked by hand) and
`CommitComplete`. `Sign` is the environment. `cancel_signature_request`,
`mark_recipient_signed` and `complete_signature_request` have no caller in the
repository; they are modelled as the public operations they are. A webhook for
a version already `Executed` ends in the phase `resave`, which can only be
abandoned: the code's own `set_value` has outdated the copy it then saves.
`undecided` are versions that the desk's Approve action has approved while approvals of
them were Pending. The last of those approvals may still be given, at the desk or in
the portal: `_approve_version` asks only whether the map leads to Approved, and from
Signature Requested it does (`BeginLateApproval`, `CommitLateApproval`).
`bypassed` is a history variable: the versions that a desk action or a late approval
has moved to or from Signature Requested, past `SignatureService`.
`PendingMatchesVersion` speaks of all others.

**SigningProtocol.** What the books show of all this: the statuses of the versions,
the signed documents and, of a request, its status, version and envelope
(`Booked`; its recipients are left out). A send is one step that files a new
envelope and moves the version, a completion one step that stores the document
and moves both, a cancellation likewise. `FollowsProtocol` says that `Signing` does
nothing else: creating and distributing an envelope, marking a recipient, a
failure or a delivery that comes to nothing are stutters, and every commit that is not is
one of these steps *on the books as they are at that moment*, not as the request
found them when it began. That a send takes a version only from Approved and only
if no other request of it is out, that a completion closes a version that waits
for it and has no document yet, and that an envelope is on record for one
request only, is part of those steps.

**Webhook.** `acked` is what Documenso believes: the envelopes whose completion was
answered with a success that arrived. A delivery is either settled at once
(`DeliverSettled`: nothing to do, the early returns of
`process_document_completed`), or a request of `Signing` with the envelope it
answers for in `reply` (`Deliver`, then `CommitDelivery` or `FailDelivery`).
`expected` and `sent` are the webhook secret here and at Documenso, changed in
either order. A delivery refused by the authenticator changes nothing, and is
therefore no step of its own: it is due again until the secrets agree. Events other than
`DOCUMENT_COMPLETED` only write a log line (`Acts`).

**Recipients.** One request, in detail: the table typed into the form (every
spelling of an address, every order, right or wrong), the three validators, the
two calls to Documenso with every combination of HTTP code and body, the
linking of rows with the answer by address, the one `signing_url`, and the
completion. Documenso may keep addresses as typed or folded to lower case, and
may answer with its recipients in any order or with none. A failed sending ends
back at `idle` in the state Draft: the transaction is rolled back while the
envelope lives on (the subject of `signing_orphan`).

## 3. Runs

Passing runs check deadlock, except those of `Signing`, `Webhook` and `Recipients`: an
`Executed` version with no open request, or a completed request, has nothing left to
do, and the system may stop.

| Run | Instance | Shows |
|---|---|---|
| `versions` | 2 versions, 2 clients, numbers 1..2, all 8 workflow actions | `AtMostOneCurrent`, `CurrentSurvives`, `CurrentNotSuperseded`, `UniqueUnlessRaced`, `OnlyActionsMoveStatus`, refinement of `Lifecycle` |
| `approvals` | 1 version, 2 approvers, 2 rounds, 3 clients, all actions | `NoLostCompletion`, `OnePendingPerApprover`, `ApprovedByAll`, `DecisionsAreFinal`, refinement of `ReviewProtocol` |
| `signing` | 1 version, decided or not, 2 requests, 2 envelopes, 2 signers, 2 clients, Complete Signing and Cancel Signature | `OnePendingPerVersion`, `CompletionIsWhole`, `PendingIsDistributed`, `PendingMatchesVersion`, `ClosedIsClosed` |
| `portal` | 2 versions, 2 approvers (one in the portal), 2 clients, 2 submissions, version forms, Revise | `RemarksAreDecided`, `PendingIsOffered`, `AnswerShowsDecision`, `DecidesShownVersion` |
| `webhook` | 1 version, decided or not, 1 request, 2 envelopes, 1 signer, 2 clients, Complete Signing and Cancel Signature, with fairness | `AcknowledgedIsSettled`, `CompletionArrives`, refinement of `SigningProtocol` |
| `recipients` | up to 2 recipients, 2 mailboxes in 2 spellings, orders 0..3, 5 codes and 5 bodies | `SigningOrderIsTotal`, `OneRecipientPerMailbox`, `LinkedIsOwn`, `PendingIsOut`, `CompletedMarksLinked` |

Why the bounds are enough to meet the interesting cases: every hazard listed here
is between two requests, or between a request and a tab opened before it. Two
clients give all their interleavings, and the third client of `approvals` adds
an open contract form to two racing decisions. Two versions are needed for the
current flag and for numbers, and with two numbers the second Create Version
can collide with the first. Two rounds are the least in which a rejected
approval or a leftover one can matter. Two requests and two envelopes give
duplicate drafts, a resend after a failure and a late webhook of an envelope that
is no longer the one on record. In `portal` one version has two rounds, or each has
one (`MaxSubmitted` = 2), one request of the desk or one form overlaps a decision of
the portal, and the page may be older than both; the contract's own form is left out
there (it can only make a decision fail), and so are the desk's other actions, which
`approvals` has. In `webhook` a second request would only add what `signing` checks: the
endpoint sees requests through their envelope IDs, and the two envelopes give a resend
whose first envelope is still signed. In `signing` and `webhook` the only version is
current for good, which rules Supersede out; Complete Signing and Cancel Signature are
the desk actions that take a version away from its request, and a late approval
does the same. A version moved to Signature Requested by hand, versions that lose the
current flag, and the other actions are covered by the theorems of section 4, which are for
any number of versions and any `DeskActions`. The refinement of `SigningProtocol` is
checked in `webhook`, between two overlapping requests of the users and the endpoint
about one signature request and its two envelopes; on the instance of `signing`, with two signature
requests, it holds as well, but takes too long to be repeated with every check, and
`SigningRefinement` covers it. Two recipients are the least that can be listed in the wrong
order, share a mailbox or overwrite each other's link; a third multiplies the
tables without a new relation between two of them. `MaxNumber`, `MaxRounds`,
`MaxSubmitted`, `MaxRows` and the finite sets `Envelope` and `Request` are bounds
of the model, not of the code.

Six runs expect a violation: a sentence of the documentation or of a comment that
the code does not keep. `PROJECT.json` quotes each.

| Run | Sentence | What happens |
|---|---|---|
| `versions_old_tab` | "New versions supersede the previous current version." | saving an old tab, its tick box untouched, takes the flag back |
| `approvals_stuck` | "Under Review - awaiting collaborator approvals." | after reject, revise, resubmit, approve nobody is awaited and the version cannot be approved |
| `signing_orphan` | "Persist Documenso envelope and recipient IDs to the database." | a failure after distribution rolls the envelope ID back |
| `signing_desk` | "Already executed ... Persist the executed document field" | the branch always fails its own timestamp check |
| `portal_panel` | "Under Review + pending approval -> ApprovalCard" | once the roster's last approver has decided, the page hides the panel from a portal user whose approval is awaited |
| `recipients_link` | "Never expose another recipient's URL." | the request keeps the link of its last recipient and the portal offers it to the counterparty |

Two more such consequences have no run, because what they come to is already in the
statements that hold. `UniqueUnlessRaced` names the exception: two overlapping saves
can write the same version number. And an approval left Pending by a rejected round
blocks the next submission, or is taken later (`OnePendingPerApprover` and
`ApprovedByAll` hold because it does).

`PendingMatchesVersion` and `CompletionArrives` leave out the versions in `bypassed`: the
code breaks both statements for a version that was moved past `SignatureService`. There
are two ways. One is a workflow action applied by hand (Request Signature, Complete Signing,
Cancel Signature), the administrator's own doing. The other is a **late approval**
(`services/approval.py:206-217`, at the desk or through `portal_api.review_contract`), which
needs no workflow action at that moment: the desk applies Approve while approvals are
Pending, the version is sent for signature, and then the last approver approves. The version
goes back to Approved under its Pending request. From then on every delivery of the webhook
throws (`services/signature.py:420`), the request can be neither completed nor cancelled,
and, being active, it keeps a new one from being created; of the workflow's actions only
Request Signature, applied by hand, leads out. Both properties fail if late approvals are not excepted. No document or
comment of the repository says anything of this case, so there is no run that expects a
violation.

### Fairness

`WebhookSpec` assumes (`Redelivery`)

* that every request and every open tab ends: weak fairness of commit-or-abandon per
  client (a web worker answers, fails or is killed by its time-out);
* that Documenso delivers again what is due: strong fairness of `Deliver` per envelope;
* that not every delivery that could commit fails for a reason of its own: strong
  fairness of `CommitDelivery` per client;
* that an administrator who changes the secret does so on both sides: weak fairness of
  `RotateHere` and `RotateThere`.

The second and third are what `_store_executed_document` counts on: "Any failure
raises `DocumensoError` so the surrounding webhook transaction rolls back and can
be retried", and `handle_webhook` re-raises so that the sender sees the failure.
Strong fairness is needed because a free client and a completable request are
enabled again and again, not continuously. Nothing is assumed of users: nobody has
to sign, approve, send or cancel, and an answer may be lost every time. The last
assumption is the only one about people; without it the secrets may differ for
ever and no completion can arrive.

`LiveSpec` of `Signing` makes the first three assumptions of the same requests
without the endpoint; `signing_desk` uses it.

## 4. Theorems

Every theorem is for any values of the constants: any finite or infinite sets of
versions, clients, approvers, requests, envelopes and mailboxes, any bounds, any set of
workflow actions. Each invariant below was checked by TLC on the instance of its run
before it was proved. The theorems without a property of their own are the
inductive invariants and what they are built on.

| Module | Theorem | States |
|---|---|---|
| `VersionWorkflowProofs` | `TableAgreesWithMap` | the fixture and `VERSION_TRANSITIONS` allow the same moves |
| `ContractVersionsProofs` | `Invariance`, `TypeCorrect` | `IInv`, `TypeOK` |
| | `OneCurrent`, `CurrentIsLive`, `NumbersUniqueUnlessRaced` | `AtMostOneCurrent`, `CurrentNotSuperseded`, `UniqueUnlessRaced` |
| | `CurrentKept`, `StatusMovesByAction` | `CurrentSurvives`, `OnlyActionsMoveStatus` |
| | `Refinement` | `Spec` implements `Lifecycle` with `stage <- status` |
| `ApprovalsProofs` | `ReviewInvariance`, `ReviewTypeCorrect` | `IInv`, `TypeOK` |
| | `CompletionNotLost`, `OnePending`, `ApprovalNeedsAll` | `NoLostCompletion`, `OnePendingPerApprover`, `ApprovedByAll` |
| | `DecidedOnce` | `DecisionsAreFinal` |
| | `ReviewRefinement` | `Spec` implements `ReviewProtocol` |
| `PortalProofs` | `PortalInvariance`, `PortalTypeCorrect` | `PortalIInv`, `PortalTypeOK` |
| | `RemarksNeedDecisions`, `OfferIsExact` | `RemarksAreDecided`, `PendingIsOffered` |
| | `AnswerIsRight`, `ShownOrReplaced` | `AnswerShowsDecision`, `DecidesShownVersion` |
| | `PortalKeepsReview`, `PortalDecidesOnce` | the properties of `Approvals` hold with the portal |
| | `PortalImplementsReview` | `PortalSpec` implements `ReviewProtocol` |
| `SigningProofs` | `SigningInvariance`, `SigningTypeCorrect` | `IInv`, `TypeOK` |
| | `OneOutForSignature`, `CompletionCommitsAll` | `OnePendingPerVersion`, `CompletionIsWhole` |
| | `PendingIsSent`, `VersionFollowsRequest` | `PendingIsDistributed`, `PendingMatchesVersion` |
| | `ClosedForGood` | `ClosedIsClosed` |
| `SigningProtocolProofs` | `SigningRefinement` | `Spec` implements `SigningProtocol` |
| `WebhookProofs` | `WebhookInvariance`, `WebhookTypeCorrect` | `WebhookIInv`, `WebhookTypeOK` |
| | `NoEarlyAcknowledgement` | `AcknowledgedIsSettled` |
| | `EndpointImplementsSigning` | `WebhookSpec => Spec` of `Signing` |
| | `EndpointFollowsProtocol` | `WebhookSpec` implements `SigningProtocol` |
| `RecipientsProofs` | `RecipientsInvariance`, `RecipientsTypeCorrect` | `IInv`, `TypeOK` |
| | `OrderIsTotal`, `NobodyAskedTwice` | `SigningOrderIsTotal`, `OneRecipientPerMailbox` |
| | `LinkIsOwn`, `PendingHasGoneOut`, `CompletionMarksLinked` | `LinkedIsOwn`, `PendingIsOut`, `CompletedMarksLinked` |

### Assumptions

* The bounds `MaxNumber` and `MaxRounds` are positive natural numbers, `MaxSubmitted`
  and `MaxRows` natural numbers.
* `DeskActions` is a set of actions of the workflow.
* `PortalUser` and `LastApprover` are approvers, `Counterparty` is a mailbox.
* "Nothing" is no value: `None` is no approval status, envelope, mailbox or row of a
  signature request, with its recipients or without (`PortalAssumption`,
  `SigningAssumption`, `NoRequestAssumption`, `NoBookingAssumption`,
  `RecipientsAssumption`), and a client at rest (`Idle`) is none at work
  (`IdleAssumption` of `Portal` and of `Webhook`). These say only that NULL and
  the absence of a request are told apart from values.

### Contract versions

The safety invariants are not inductive: whether a save may clear the flag, and
which status and number it writes, depends on what the client loaded earlier.
`IInv` therefore adds, for every client that holds something:

* `HoldsOK` - a version being created is a Draft, not yet in the table, and held
  by nobody else; any other copy is of a version in the table;
* `CopyOK` - a form or save that is not `outdated` carries the status the row has;
* `SnapshotOK` - no snapshot shows two current versions, and if the copy of a save
  or action is the latest and its version is current, the snapshot shows it
  as current;
* `NumberOK` - the number a request is about to write is free unless the request
  has been overtaken.

`SnapshotOK` is why `CurrentKept` holds although `validate_current_version_exists`
reads a snapshot. A version becomes current only by a save of itself, and that
outdates all its copies; so a latest copy of the current version has a snapshot in
which it was current already, hence the only one, and the check for another one fails.
That clearing the flag of the *other* versions does not outdate their copies does
no harm here (a copy that lost the flag has nothing to unset), only to
`CurrentMovesOnRequest`, which is violated. `CopyOK` gives `StatusMovesByAction`. `Refinement`
combines the framework's check of every save (`TableAllows`) with
`TableAgreesWithMap`: a commit is a move of `Lifecycle`, an insert or a stutter.

### Approvals and the portal

A decision is taken on plain reads and written blindly. What makes it safe is that
the *contract* is saved with it: the roster's timestamp serialises the decisions on
all versions of the contract. `IInv` says so, for the copy of every client:

* `DecisionOK` - as long as the contract is as it was loaded (`c \notin stale`), the
  approval to be decided is still open, the roster is what the copy says, and a
  decision that does not move the version is an approval that is not the last one;
* `ConcludeOK` - as long as the version is as it was loaded, the move is allowed;
  and if the contract is too, all the others have approved;
* `SubmitOK` - as long as the version is as it was loaded, it is a Draft, nobody has
  an open approval of it and the bound is not reached: a decision does not create
  open approvals, and a submission saves the version;
* `ContractOK`, `FlagOK` - an open contract form that is the latest has the roster of
  the row; and no copy's version has become current behind its back: a latest copy
  of the current version is ticked, or has it as the only current one in its
  snapshot, so that unticking it is refused.

Of the rows it says that an open approval is its approver's last (`PendingIsLast`,
which gives `OnePendingPerApprover`), and that a version all have approved is past the
review (`UnanimousIsPast`, which gives `NoLostCompletion`): no workflow action leads
back from there to Draft or Under Review (`AllowedMoves`, from the fixture). `ReviewRefinement` reads
`DecisionOK` and `ConcludeOK` at the commit, where both copies must be the latest:
what was decided on then is what the rows say now, so the commit is the one
indivisible step of `ReviewProtocol`. `ActionInv` says the same of the desk's
workflow actions.

`PortalIInv` adds that the version a portal request decides was the only current one
in its snapshot (`ReviewInv`) and that remarks are on decided approvals
(`RemarkInv`). A step of the portal is a step of `Approvals` or opens a version form
(`StepIsReview`), so the invariant and the refinement of the
review carry over; `DecidedStep` keeps a remark on a decided approval. `OfferIsExact`
rests on `PendingIsLast`: the newest approval is the pending one if any is.

### Signing and the endpoint

`RequestInv` is the four state invariants with two more: drafts have no envelope on
record (`DraftsAreUnsent`), and what Documenso holds was created for a request in
the table (`EnvelopesAreFiled`). `WorkInv` is about the copies:

* `HoldsOK` - what a client holds, also when it is not the latest any more: before the
  envelope is created the copy is an unsent draft; after that its envelope is its own
  and as far at Documenso as the client's step says; a request being completed holds
  the executed document of its own completed envelope;
* `LatestOK` - as long as the request is as it was loaded (`c \notin lapsed`), the row has
  the copy's status and version;
* `VersionOK` - while somebody is sending and the version is as it was loaded, no request of
  the version is Pending. This is why two drafts sent at once cannot both be
  committed: the first outdates the version under the second;
* `Alone` - no two clients insert the same request or distribute the same envelope.

`CompletionIsWhole` needs `HoldsOK`, `PendingMatchesVersion` needs `LatestOK` and
`VersionOK`, `ClosedIsClosed` is `LatestOK` at every commit.

`SigningRefinement` asks at each commit whether what is written is right for the books
of that moment. Two invariants beside `IInv` answer it, each preserved by every step
given `IInv` (`NextLoaded`, `NextOwn`):

* `LoadedInv` - as long as the version is as it was loaded, it still is in the status a
  send, a cancellation, a desk action or a late approval leaves it from; as long as the request
  is, it still has the envelope of the copy;
* `EnvelopesAreOwn` - the envelope on a request's record was created for that
  request and has been sent, so no other request can have it, and the one a
  send is about to record is new to the books.

`CommitSaves` and `SaveBooks` reduce a commit to the one row it writes, and there is one
lemma for each operation: `SendIsStep`, `CompleteIsStep`, `CancelIsStep`,
`LateApprovalIsStep` and so on.

`WebhookIInv` adds that a client that answers a delivery is completing the request its
envelope was created for (`Answering`), and that what was acknowledged is completed. An
acknowledged request is closed because the delivery is answered in the transaction
that closes it, or finds it closed, and `ClosedIsClosed` keeps it so. `EndpointImplementsSigning`
gives every safety theorem of `SigningProofs` to the endpoint, and the refinement too
(`EndpointFollowsProtocol`).

### Recipients

The properties speak of Documenso's recipients (`known`), the validators of the rows.
`IInv` keeps the table valid for good (`RowsAreValid`) and says that only drafts are
sent (`OnlyDraftsAreSent`), that a draft's rows are unlinked and only a
completed request has signed rows (`RowsFollowState`) - hence a second envelope
cannot leave a link to the first - that links lead to recipients of the envelope
(`LinksExist`) and that all have signed a completed envelope (`CompletedIsSigned`).
`OrdersAreTotal` (unique and sequential orders are a bijection), `FoldedIsMailbox`
(folding tells mailboxes apart and nothing else), `SuccessIs200` (the
client returns a value only for a success) and `LinkMatches` are the lemmas about
the code's functions.

### Only model-checked

The liveness property `CompletionArrives`: fairness and ENABLED are outside the
prover's reach. The violations of section 3 are counterexamples and need no proof.

## 5. Not modelled

* Roles and permissions (a guard on who may act, not on what the action does).
* Deleting documents; amending or cancelling a contract; inserting a version
  through the API with a status other than Draft.
* Roster edits: a submitted contract's roster cannot be edited (only
  `review_status` is allowed on submit); for a draft contract this is a listed
  hazard.
* Approval rows created by hand and Signature Request fields edited by hand in the
  form (its status is an editable select). Recipients are edited only while the
  request is a Draft.
* A signer listed twice (only mailboxes and orders are validated):
  `mark_recipient_signed` then takes the signer's first row. `Signing` has at most one
  row per signer.
* Events other than a completion: their handlers write a log line and are acknowledged
  (a rejection by a signer among them).
* Notifications: they change nothing but the notification log, and their failures
  are swallowed. Reports and the portal's read-only parts (timeline, download,
  session): they keep no state, and nothing else depends on what they return.
* Answers of page loads that overtake each other in the browser.
* Data that no property tells apart: PDF contents, placeholders, names, e-mail
  texts, dates. A form whose save failed goes away instead of staying open: opening
  it again is another `OpenForm`.
* The row lock that `run_doc_method` takes at the beginning of a desk call is left
  out: the models allow more overlap than there is.

## 6. Plan

1. *(done)* Version table and lifecycle, with proofs; approvals; signing.
2. *(done)* Composition: `Portal` on `Approvals` with two versions, `Webhook` on
   `Signing`; the client's errors, the validators and the linking of recipients.
3. *(done)* Proofs about `Approvals` and `Portal`: the invariants, the action
   properties and the refinement of `ReviewProtocol` by both.
4. *(done)* Proofs about `Signing`, `Webhook` and `Recipients`: the invariants, the
   finality of closed requests, the endpoint as an implementation of `Signing`.
5. *(done)* `SigningProtocol` and the proof that `Signing`, and with it the endpoint,
   implements it. With `ReviewProtocol` for the approvals and `Lifecycle` for the table,
   each concurrent component now has an abstract specification it is proved to
   implement.
6. Left for an extension: roster edits of a draft contract, rejections by a signer and
   the portal's session while it is elevated, the three hazards without a property.
