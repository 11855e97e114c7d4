# Formal model of sign_app

sign_app is a Django application on PostgreSQL for documents that several people
sign: by a code sent to their phone (SMS), with an electronic key checked by a
verifier service (ECP), or in the eGov Mobile application. Around it stand an
admissions API that creates and renders contracts in the background, a hash-chained
audit log, object storage, evidence bundles, an external ledger and an MSSQL mirror.

The code has no request-wide transactions (`ATOMIC_REQUESTS` is off). A view reads
rows into memory, talks to files or to other services, and saves single rows from
those copies; only some services use `transaction.atomic` and `select_for_update`.
What can go wrong is therefore seldom inside one handler. It is what happens between
two statements of it, while other requests, workers and crashes take their steps.
The models keep exactly that: every database statement that another process can see
is a step of its own, and what a handler carries from one statement to the next is a
copy in its request slot.

## Inventory

| Component | State it keeps | Operations | Hard behaviour | What makes it correct |
|---|---|---|---|---|
| Documents (`documents/models.py`, `views.py`) | status, content, content hash, lock time | fill, OnlyOffice callback, rendering, `lock_for_signing` | check and save apart, saves from old copies, trigger on signed rows | signed documents never change; content stays what was signed |
| Signing (`signing/`) | signers, sessions, signatures, tokens | access link, page visit, choice of method, SMS, ECP and eGov completion | three providers with three transaction styles, crashes between saves, signers added late | nobody is signed without a signature; signed means complete; no completion is lost |
| Audit log (`signing/models.py`, `audit_chain_service.py`) | hash-chained entries of a document | append, verify | appends overlap | every entry follows the one before it |
| Render queue (`admissions/services/render_queue_service.py`) | one job per contract: status, attempts, lock time | enqueue, acquire, finish, fail, recover | several workers, crashes, stale copies of the job | one worker per job; a finished job shows the latest payload; every job ends |
| Admissions (`admissions/views.py`, `contract_builder.py`) | contract, its documents and signers | create, update, render, applicant's and vice rector's signature, delete | update against signature, deletion against signature | a signed contract is not changed |
| SMS codes (`sms_signing_service.py`) | sessions: status, code, expiry, cooldown, attempts | `create_session`, `complete_session` with `verify_otp` | saves around the gateway's answer, bookkeeping inside a transaction that is rolled back | codes keep their distance; a signature stays marked; nobody is locked out; a code cannot be tried without limit |
| Access links (`access_token_service.py`) | token hashes, validity | create, revoke, resolve | lock committed before the storage may fail | a link leads to the stored, final document |
| Object storage, evidence bundles | stored objects, their rows, retention, bundles | store, verify, `build_bundle` | two systems, partial failure; a bundle is put together from several queries | what a link offers is stored; a bundle agrees with itself |
| Ledger (`document_ledger_service.py`, `ledger_client.py`) | one record per document, a stored PDF | submit after a completion, verify | lost replies, two submitters, no retry | submitted means accepted, for the stored PDF, and once |
| LawVision (`lawvision_service.py`) | one report per content hash and options | `ensure_content_hash`, `get_or_analyze_document` | crash in PROCESSING, forced runs, edits meanwhile | a report belongs to the content it was made for; a finished one is kept |
| MSSQL mirror (`mssql_mirror_service.py`, `signals.py`) | one record per contract | upsert, delete | a second database, written after every save from a copy | the mirror is as the contract is |
| Organizations, accounts, API tokens | memberships, tokens | read per request | none | access checks |
| Templates (`template_service.py`, `template_party_service.py`, `views.py`) | file, field schema, variables, cached preview, parties | OnlyOffice callback, editor's save, preview, parties, document from template | callbacks that overlap delete each other's files; several handlers save one row | the row names a stored file; variables cover text and schema |
| ECP verifier (`EcpVerifierServer.java`, `ecp_validation_client.py`) | none | chain walk, OCSP, flags, what `complete_signing` stores | a search that follows one of several issuers, a bounded depth, two programs that name checks, a path that skips them | a checked signature is valid only where a chain of certificates in date leads to a trusted one; a rejected one says why; an unchecked one is an admission contract's and marked so |
| Admission data (`payload_mapper.py`, `contract_builder.py`) | API values, the applicant's edits, the documents' fields | normalise, update, edit, render | an update beside an edit beside a render | documents, row and signer agree; edits survive updates |
| Money in words (`money_amount_service.py`) | none | amount to Russian and Kazakh words | boundaries of groups, teens, genders | the words, read aloud, are the amount |
| Other conversions (DOCX, HTML, PDF) | none | pure functions | none | agree with their format |

Requests reach signing, documents and admissions over HTTP. Admissions calls signing
(the applicant signs through `EcpSigningService`), the render worker calls the contract
builder, signing and documents call the audit log, access links call object storage, and
a completed signature may submit the document to the ledger after its commit. All of
them share the rows of the database, and nothing else.

## Modules

| Module | Models |
|---|---|
| `Signing` | one document, its signers and signatures, and the requests of the three providers, of links, pages and edits |
| `SignedContract` | what signing promises, without requests, copies, locks or providers |
| `RenderQueue` | admission contracts, their jobs, the workers and the requests beside them |
| `AuditChain` | the audit log of one document |
| `SmsOtp` | the SMS sessions of one signer |
| `Ledger` | one document's record and its submissions to the ledger |
| `LawVision` | the content hash of one document and the reports kept under it |
| `Evidence` | the final files of one document, its links, signatures and evidence bundles |
| `Admissions` | one rendered contract: updates, both signatures, deletion and the MSSQL mirror |
| `AdmissionContract` | what such a contract promises, without requests, copies, locks or the mirror |
| `AdmissionData` | the values of one contract in its row, its documents and its signer |
| `Templates` | one template: file, schema, parties, preview, and a document made of it |
| `EcpVerifier` | the verification of one CMS signature and what is stored of it |
| `MoneyWords` | the two loops that put an amount into words |
| `MCSigning`, `MCRenderQueue`, `MCAuditChain`, `MCDocumentServices` | instances for TLC |
| `Signing_proofs`, `RenderQueue_proofs`, `AuditChain_proofs`, `SmsOtp_proofs`, `Evidence_proofs`, `Admissions_proofs`, `DocumentServices_proofs`, `MCDocumentServices_proofs` | theorems |

`Signing` is the centre; the other modules begin where it stops. Where two of them meet, the
state that crosses the border is an input of the other: `SmsOtp` has the codes and leaves the
document to `Signing`; `Evidence` takes a completed signature as one step, because `Signing`
has its inside; `Admissions` begins with a rendered contract, which `RenderQueue` produces.

### Signing

The tables are `document` (status, content, hash, locked), `signer` (status and method; a
row that does not exist has status `absent`), `signature` (`None` or a row), `linked`
(signers with a valid access token) and `sessions`. `request` holds, for every request
in flight, the program counter and the copies the code made. `docLock` and
`signerLock` are PostgreSQL row locks: the `SELECT ... FOR UPDATE` of the SMS completion,
which covers the joined signer and document, and the row lock of the uncommitted
`UPDATE` in the ECP completion. An action stands for the code from one visible
statement to the next:

* `CreateAccessLink`, `FixContentHash`, `LockForSigning`, `IssueLink` are
  `SignerAccessTokenService.create_token`; hash and lock are committed before the final
  files are stored, and `IssueLink` may fail.
* `OpenPage`, `SaveOpened`, `ChooseMethod`, `SaveMethod` are the signer's page. A status
  read earlier is written back later.
* `StartSms`, `SaveSmsMethod` (which writes only where the loaded method differs), `FixContentHash`, `LockForSigning`, `DispatchCode`,
  `CodeSent` start an SMS session; `CompleteSms` and `CommitSms` are `complete_session`,
  one transaction under row locks.
* `CompleteEcp`, `EcpInvalid`, `EcpValid`, `CommitEcp` are the ECP completion: a
  transaction without `select_for_update` that counts signers in its own snapshot. A
  signature the verifier rejects is stored too; why it is rejected is `EcpVerifier`'s subject.
* `StartEgov`, `SaveEgovMethod`, `CreateEgovSession`, `SaveEgovStatus`, `CompleteEgov` ...
  `SaveEgovDocument` are eGov Mobile, where every save commits.
  `mock_complete_egov_signing` runs the same service and adds a check only.
* `OnlyOfficeCallback`, `SaveCallback`, `Fill`, `FillSigners`, `SaveFillStatus`,
  `RenderDocx`, `AddSigner`, `InsertSigner` are the edits: the check, then the save.
  `FillSigners` is one transaction that creates or updates the signers of any number of
  parties, or of none when one of them is refused.
* `RefusedSave`, `RefusedCompletion`, `DuplicateSignature` are the errors of
  `Document.save`, of the trigger on signed documents and of the unique signer of a
  signature; `Crash` ends a request anywhere and rolls back what is not committed.

Content is a version number. A content hash is the version it was computed from, 0 the
empty hash. The modelled document has a rendered file, which is what the program hashes
first. The statuses `canceled` and `expired` are stored by no code path and are left out.
`late` is a history variable: the signers that were inserted when a signature existed or
was being counted. The edit check is there to rule them out and cannot, because it comes
before the insert; the promise of completeness is stated for everyone else.

### RenderQueue

`contract` joins the contract row, its document and its applicant's signer: the payload
(a version number), the version the rendered file shows (0 for none) and the signature.
`job` is the render job: status, attempts, the age of `locked_at` and whether
`next_attempt_at` has passed. A worker runs `RequeueStale`, `AcquireNextJob`,
`ReadPayload`, `RenderContract`, `MarkDone`, or on an exception `MarkFailedAttempt` and
`SaveFailedContract`; a request creates or updates a contract and enqueues it
(`CreateJob`, `DecideRequeue`, `SaveRequeue`, `KeepJob`), opens the applicant's page or
signs. `Tick` is time: the retry delay of a minute and the stale limit of 20 minutes.
`stolen` and `owed` are history variables for two promises that hold with an exception:
jobs that were put back while a worker was busy with them, and updates after which no job
was queued. Contracts here have a vice rector who has not signed yet. The applicant's
own edits, the vice rector, the mirror and the synchronous rendering mode are left out.

### AuditChain

`log` holds the committed entries: id, previous hash and hash. SHA-256 is taken to be
injective, so a hash is the sequence of events it chains and the empty sequence is the
empty `previous_hash`. `request` is a transaction that appends one or more entries:
`ReadHead` takes the last entry of the statement's snapshot, `LockHead` waits for its row
lock (READ COMMITTED does not choose the row again after the wait), `TakeId` and
`StoreEntry` insert under the unique index on `entry_hash`, then `Commit` or `RollBack`.
The wait of an insert for a document row that an SMS completion holds is left out: it
comes after the head was read and only removes behaviours.

### SmsOtp

`smsSession` are the `signing_session` rows of one signer, `smsNow` the clock in units of the
cooldown. `create_session` is a sequence of autocommitted statements around the gateway's
call: the cooldown check (`can_create_session` asks the newest active session only), the
insert, the hash of the code, the gateway's answer and the saves after it. `complete_session`
is one transaction under row locks, hence one action; an exception raised in it undoes the
count of a wrong code, the EXPIRED and FAILED marks and the audit entries beside them.
`smsOverlapped` and `seen` are history: a code that was being requested when the signature
came, and the sessions that were active when a new one was allowed.

### Ledger

Each completion registers an `on_commit` callback; the one that finds the document signed
claims the record, exports a PDF (every export is another file), stores it and posts its
hash. The answer may be lost, the post refused, the process die at every step; only another
completion tries again. `ldgContested` (two submissions ran beside each other) and
`ldgUnheard` (accepted, but the answer was not applied) are history.

### LawVision, Evidence

`LawVision`: a request loads the document, saves its computed hash where it is missing or
out of date and nobody has signed, looks the report up by hash, posts for an analysis with
retries, and saves success or failure over whatever the row holds by then. `lvOverlapped`
names the contents that an edit stored while another request was about to save a hash.

`Evidence`: `create_token` puts the file into the bucket, sets its retention, saves its row
and then creates the link, each of which may fail. A completion saves a signature, the signer
and the document (SMS in one transaction, eGov Mobile one after the other). `build_bundle`
runs in no transaction: document, files, chain head, objects, signatures and trail are
separate queries, and signing goes on between them. `evLinked` are the contents that requests
copied and then issued a link for; a link opens whatever the document holds by then.

### Admissions, AdmissionData

`Admissions`: an update and a deletion are transactions that hold the contract's row; a page
visit, the applicant's and the vice rector's signature work on copies, `complete_signing` is
a transaction of its own, and each save is mirrored to MSSQL from the copy by the `post_save`
signal. A mirror that fails is logged and forgotten. Both parties sign with
`skip_key_validation` (`admissions/views.py:814`): their signatures are stored as valid and no
verifier is asked, so neither `Admissions` nor `RenderQueue` has a rejected one. `adSerial` restricts a behaviour to
requests that do not overlap, `adUnsynced` remembers a serial request that broke off or
whose mirror failed.

`AdmissionData`: an API update rewrites payload and row under the row's lock and carries the
applicant's edits (`_manual_edits`) over; the applicant's edit saves fields, signer and row
one after the other from the contract it loaded; a render normalises the payload again and
writes fields and signer. Three values stand for the many: `applicant` for the personal data,
`tuition` for the amount, `paid` for the funding and the basis that follows from it. The edit
writes each field value in a statement of its own and then renders; `WriteFieldValues` is all of
these at once, which no property can tell: they speak of the documents only when no request
is on its way and none broke off, and otherwise of the row.

### Templates

The OnlyOffice callback downloads the text, stores it under a new name, saves file and
variables into the row and deletes the file that the row named when it was read. The editor's
save, the preview, parties and their fields work on the same row without a lock. A document
takes a field for each name of `variables`, the schema and the parties, but for the names that
say a money field's amount in words (`WordsOf`): those are computed when it is filled. It is
filled from the file its view read. A callback that fails between two steps leaves a file behind
(`tpBroken`).

### EcpVerifier, MoneyWords

`EcpVerifier`: certificates are numbers; `issuers[c]` are those whose name and key fit `c`,
several where an authority renewed its certificate. The walk follows the first issuer among the
certificates of the CMS, and the first of the trusted directory where the CMS has none, up to
`MaxDepth` links; then OCSP answers. The cryptography is the relation between certificates.
The other side is `complete_signing`. A subject that came with the request and names another IIN
is refused (`RefuseClaimedIin`), the client may time out or meet an error (`ClientGivesUp`), and
otherwise the signature is stored, valid or not, with its reasons. `Why` is how they are found:
the answer's own error stands for all of them; of an answer without one the first four flags
count as failed when they are missing, the other three only when they are there and false; and
there is a fallback text. `EcpVerifierServer` sends every flag and no error, but the address is
a setting and the client takes any JSON, so another verifier is a choice over all answers
(`StoreOtherAnswer`). The signatures of admission contracts come with `skip_key_validation`:
`StoreUnchecked` stores them as valid and asks nobody. `ValidityFollowsTheChain` therefore
speaks of a chain only where this server was asked; of every stored signature it says that it
is valid or has a reason, and of an unchecked one that it is an admission contract's and its audit
entry says "skipped". Its reasons are compared with the CMS and the certificates themselves,
not with the flags.

`MoneyWords`: each turn of the loop takes three digits and puts their words before those
found so far. The reference definition is a reader of the words (`Reading`, `Agrees`): it
adds up numbers, multiplies by the scales, and asks for the grammatical forms. It is written
with recursive functions, so that it can be proved about.

## Runs

| Run | Instance | Shows |
|---|---|---|
| `SigningEdits` | 2 signers, 2 requests, 2 contents; links, pages, callback, fill, new signers, SMS, crashes | `TypeOK`, `NoLostCompletion`, `SmsSignatureCoversContent` |
| `SigningRaces` | 2 signers, 2 requests, 2 contents; links, new signers, choice of method, ECP, eGov, crashes | `SignedSignerHasSignature`, `SignedDocumentIsImmutable`, `SignaturesAreFinal`, `KeepsTheContract` |
| `SigningSerial` | 2 signers, 1 request, 2 contents; every handler: links, pages, choice of method, SMS, ECP, eGov, edits, new signers, crashes | without overlap: `SignaturesAgree`, `NoEditAfterFirstSignature`, `NoSignerAfterFirstSignature`, `SignedSignerStaysSigned`, `LastCompletionSignsDocument` |
| `SigningEditRace` | 2 signers, 2 requests; callback, SMS | **violated** `NoEditAfterFirstSignature` |
| `RenderRequests` | 1 contract, 1 worker, 2 requests, 2 attempts, 2 payloads; everything | `TypeOK`, `LockedWhileProcessing`, `DoneShowsLatestPayload`, `DoneHasSigner` |
| `RenderLive` | 2 contracts, 2 workers, 1 request, 2 attempts, 1 payload; crashes, stalls | `OneWorkerUnlessStolen`, `QueuedJobIsSettled` |
| `RenderStranded` | 1 contract, 1 worker, 3 attempts; crashes | **violated** `PreparationEnds` |
| `RenderSignRace` | 1 contract, 1 worker, 2 requests; updates, signatures | **violated** `SignedContractIsKept` |
| `AuditFork` | 2 transactions, 2 events, 3 entries | **violated** `ChainVerifies` |
| `DocumentServices` | ten services, each by itself (below) | 22 properties of `AuditChain`, `SmsOtp`, `Ledger`, `LawVision`, `Evidence`, `Admissions`, `Templates`, `EcpVerifier`, `AdmissionData`, `MoneyWords` |
| `SmsAttempts` | 1 request, 2 codes, 1 attempt allowed | **violated** `AttemptsAreLimited` |
| `AdmissionDeletion` | 2 requests, 2 payloads | **violated** `DeletionSparesRector` |

The bounds. Every hazard between requests that was found needs two of them, one that holds
a copy and one that changes the row; two slots give every pair of handlers in every
order, and a slot is used again and again. Two signers make the difference between
the last signature and an earlier one. `SigningSerial` has one slot so that all handlers fit
together: a choice of method, an attempt with another provider, an edit or a crash comes between
any two completions. A signer is added to a document that is signed in part when an eGov Mobile
request has died before its count; with three signers it happens without a crash, and the
theorems about one slot hold for any number of them. Two contents tell the content that was
signed from another one. Two attempts make a last one and one before it. Two workers
are needed for a theft, two payloads for an update that a worker misses. Two events make
both equal and different concurrent entries.
Symmetry is used over signers, requests, workers, events and codes, whose identities no
definition depends on, and never in a run with a liveness property.
Deadlock is not checked: a signed document, an empty queue or a log at its bound may rest.

`DocumentServices` runs ten modules that share no state. `focus` chooses one of them in the
initial state and never changes, all variables of the others stay as they began: the state
space is the sum of ten, not their product, and each property is judged in the behaviours of
its own service (elsewhere its variables do not move). Its bounds:

| Service | Bounds |
|---|---|
| audit | 2 transactions of up to 2 appends, 2 events, 4 entries |
| sms | 2 requests, 2 codes, cooldown and lifetime of one unit of time, up to time 2, 3 sessions of which the third is followed until its row is inserted (`SmallSms`): a third code is where the cooldown asks the newest of two |
| ledger | 3 completions, 3 PDFs: two that compete and one that repairs |
| lawvision | 2 requests, 2 contents, 2 posts |
| evidence | 2 requests, 2 signers, 2 contents |
| admissions | 2 requests, 2 payloads, serial from all initial contracts, overlapping from a contract its applicant may sign |
| templates | 2 requests; serial up to 2 files and then a document or a preview, overlapping the files alone, up to 3 (`SmallTemplates`); one name of each kind, the party's own field of money, whose words the text may ask for |
| verifier | 3 certificates, every relation of issuers in which 3 is a root and 2 is issued by itself or 3, every set of dates and certificates at hand, depth 2; and, where no chain is, every outcome of the other checks, both verifiers, the skipped check and a claimed IIN (`NoPki`) |
| data | 2 requests, 2 applicants, 1 amount, 3 updates or edits |
| words | every triplet of digits in units and in thousands, and amounts with gaps between their groups; scales up to a million |

Fairness (`LiveSpec` of `RenderQueue` only) is weak, on each worker's loop, on each
request that was accepted, and on time: the worker's command loops for ever and sleeps
between polls, the web server finishes what it started, and clocks run. No request has to
arrive, no worker has to crash or to render successfully. `RenderLive` has crashes and stalls
but no page visits: `enqueue_contract` saves the attempts and the status it has read, so
visits at the wrong moments restart a failing job again and again, and `QueuedJobIsSettled`
does not hold with them. It has no aborted updates either, which could hold the row at
every poll of `SKIP LOCKED`. No other service promises that something happens: nothing in
the code retries a ledger submission, a mirror or a bundle.

## What the violated runs show

* `SigningEditRace`: `document_onlyoffice_callback` checks `can_be_edited`, downloads and
  saves. A signature that commits in between is over other content than the partially
  signed document then has. (The next SMS completion compares hashes and refuses; a
  document that is already signed is protected by its guard and trigger.) `add_signer` has
  the same shape, with the DNS lookup of the e-mail domain in between.
* `RenderStranded`: a crash in the last attempt leaves a job queued that no worker takes.
* `RenderSignRace`: the update's check for signatures locks the contract row, which
  signing never touches.
* `AuditFork`: two overlapping appends chain to the same entry, or to the empty log, and
  `verify_document` rejects a log that nobody touched.
* `SmsAttempts`: `verify_otp` counts a wrong code and raises; `complete_session` is atomic
  and lets the exception through, so the count is rolled back and never reaches
  `max_attempts`. (`NoSignerIsLockedOut` is the other side: an expired code does not lock
  its signer out, for the same reason.)
* `AdmissionDeletion`: `delete_contract` locks the contract's row and looks at the vice
  rector's signer, whose signature takes neither lock.

Two more divergences were met and are not runs. A comment of `create_token`
(`access_token_service.py:37`) says that a document with a link is not edited any more, while
`Document.is_locked` (`models.py:470`) looks at statuses and signatures only: `SigningEdits`
contains these edits, and `SmsSignatureCoversContent` is what still holds. And the method
choice of `signing/views.py:462` writes the status it read back, so a signer who has signed
may lose his mark, though never his signature (`SignedSignerStaysSigned` holds in
`SigningSerial`, without overlap, only). Nor does `complete_signing` of ECP lock the document
when it counts (`ecp_signing_service.py:277`): of two last signers at the same time each may miss
the other, and the document stays partially signed. `LastCompletionSignsDocument` is what holds
for completions that do not overlap; eGov Mobile is left out of it, because it counts after it
has committed the signer and may die in between. Several properties name an overlap as their exception
(`late`, `stolen`, `owed`, `ldgContested`, `smsOverlapped`, `lvOverlapped`, the serial
histories): that is where the code has no lock, and the exception is as narrow as TLC
allowed it to be.

The properties of requests that do not overlap (`SignaturesAgree`, `NoEditAfterFirstSignature`,
`NoSignerAfterFirstSignature`, `SignedSignerStaysSigned`, `LastCompletionSignsDocument`,
`LoneAppendsFollow`, `LoneRequestMirrors`, `LoneRequestsAgree`, `LoneRequestsShowTheContract`) and
those that except overlapping ones (`CodesKeepTheCooldown`, `SignatureIsMarked`) say what the code's
checks and the order of its saves are good for, crashes between them included. They do not say that
an interleaving is harmless: where a hazard in `PROJECT.json` names only such a property, its note
says what is left open, and the violated runs show the interleavings for which the
repository promises otherwise.

## Proofs

TLAPS checks the following for every value of the constants that satisfies the named
assumptions, hence for any number of signers, requests, workers, contracts and attempts.

`Signing_proofs` (`SigningAssumption`: the bound is positive, `None` is nobody, handlers
are the known ones; `NoneIsNoSignature`): `TypeCorrect`, `SignersHaveSignatures`,
`SignedMeansComplete`, `SignedStaysUnchanged`, `SignaturesStay`, `SmsCoversContent`,
`NoCompletionIsLost`, and `SigningKeepsTheContract`, the refinement of `SignedContract`. The inductive invariant
`IInv` adds to the safety properties what each request's copies say about the tables:
whoever a request acts for is a signer, a copied signer row claims no signature that does
not exist, locks protect what a completion is about to commit, an eGov request past its
first save has its signature, and the status a request counted is covered by the
signatures that exist. The properties are not inductive without it, because a request
writes from its copy. The proof is split by a frame: a step of one request changes the
tables only in ways every other request's copies tolerate (`Respects`, `StepRespects`,
`OthersKeep`), so each action is examined once for its own request.
`NoCompletionIsLost` adds `Counting`: an SMS recount that finds everybody signed by SMS says
"signed", and goes on saying so until its commit because it holds the document's row, so
no other completion can commit meanwhile; and whoever is about to be marked by eGov Mobile
has a signature that says so. Only three actions mark a signer as signed
(`ThreeActionsFinish`); the other two end the premise, since theirs is no SMS signature.
Five theorems assume `OneAtATime` (one request slot, used again and again, with any number
of signers and contents, and with crashes between the steps): `LoneSignaturesAgree`,
`LoneEditsStop`, `LoneSignersStop`, `LoneSignersStaySigned`, `LoneCompletionsSign`. Their `SerialInv` says that the
hash is fixed by the first signature and that what a request found at its check (nobody has
signed, its copy is the row) is still so when it writes. `SigningEditRace` shows that without
the assumption the second of them is false. For `LoneCompletionsSign` the invariant is
`CountIsFresh`: the status an SMS or ECP completion is about to commit was counted from the
signers as they still are, with its own signature among them, so that whoever is the last is
counted as the last.

`RenderQueue_proofs` (`QueueAssumption`): `QueueTypeCorrect`, `ProcessingIsLocked`,
`OneWorkerPerJob`, `LatestPayloadIsRendered`, `DoneMeansSigner`. Its `IInv` adds that rows
exist for whatever a worker or request acts on, that an update holds its contract's
lock, that a busy worker's job is in processing unless stolen, that a worker's payload
is current unless the contract is owed or stolen, and that a rendered contract has
its signer. One lemma per action shows that it keeps `IInv`.

`AuditChain_proofs` (`ChainAssumption`: the bounds are naturals): `ChainTypeCorrect`,
`EveryPreviousExists`, `LoneEntriesFollow` and the action property
`BrokenChainStaysBroken`. Its `ChainInv` adds that ids are handed out upwards and never twice,
that no two inserted entries share a hash, that what a transaction refers to is in its
sight, that a transaction still alone is the only one and appends to the last entry it
sees, and that whatever may still be committed comes after every entry appended alone:
without that last part a late commit could slip an entry between two others. A commit
cannot repair a broken chain, because the entry a row refers to was committed before it
(`PreviousExists`) and no other entry has its hash.

`SmsOtp_proofs` (`SmsAssumption`: the lifetime of a code is at least the cooldown):
`SmsTypeCorrect`, `CodesAreSpaced`, `SignaturesStayMarked`, `NobodyIsLockedOut`. Its `SmsInv`
says how a session's status follows from what its request has done so far, that rows are
created in order of time, that a request whose check passed saw only sessions a cooldown
old, and that a request which may still overwrite a signer's status either began before the
signature (then `smsOverlapped`) or cannot exist.

`Evidence_proofs` (`EvAssumption`): `EvidenceTypeCorrect`, `OfferedFilesAreStored`,
`BundlesAreConsistent`. Its `EvInv` orders what is committed (an object before its row before
the link; an SMS signature with its audit entry; a closed document after every signature)
and says that a bundle has read things in an order that respects it: each later query can
only see more.
The module also proves `ValidSignaturesHaveChains` about `EcpVerifier` (`EcAssumption`), for
any set of certificates and any depth. `EcInv` says that the walk stands at the end of a
chain of certificates in date as long as the walk is deep (`HasClimbed`), that it has
not left a chain that has no alternative (`FollowsOnlyChains`), that each flag of the answer is
true of the CMS and its certificate (`FlagsAreTrue`), and what is stored of which answer
(`StoredAsAnswered`); `LinesSayWhatFailed` takes the lines apart into the failed checks. That a certificate which is
its own issuer cannot lie on the way of such a chain (every later one would be itself) is an
induction along the chain, done with a least counterexample (`LeastNat`, `SetInduction`,
from the well-foundedness of `<`).

`Admissions_proofs` (`AdAssumption`): `AdmissionsTypeCorrect`, `ContractsAreSignedInOrder`.
Its `AdInv` says what a copy may claim: a party that a copy calls signed has signed, a copied
COMPLETED status is justified by signatures, and a request past its check of the applicant
holds a signed applicant, for signatures are removed only with the whole contract.
`AdmissionsKeepThePromise` is the refinement of `AdmissionContract`: a completion that commits
is a `Seal`, the commit of a deletion is `Withdraw` or, when the contract is gone already, a
stutter (`GoneIsUnsigned`), and every other step leaves signatures and vice rector as they are
(`OtherStepsRest`) and says COMPLETED, in row or mirror, only when all have signed
(`SameSignatures`). A status written from an old copy may take the word back, which
`CallComplete` allows because the code does.
Where `adSerial` holds, `SerialInv` (`LoneRequestsInvariant`) adds that the one request's copy
is the contract but for the signature it is making, that what its checks found stays so,
and from which step on it owes the mirror something. It gives `LoneRequestsAreMirrored` and
`LoneDeletionsSpareTheRector`; the latter needs that a signature is marked in the contract's
row in the same transaction, so that a deletion after a broken signature still sees it.
About `AdmissionData` (`DtAssumption`) the module proves `AdmissionDataTypeCorrect`,
`ApplicantsEditsAreKept` for requests that overlap at will, and `LoneRequestsAreShown` from
`DtSerialInv`: at each step of an update, a render or an edit, which of row, documents and
signer already have the new values and which the old.

`DocumentServices_proofs` (`LdgAssumption`, `LvAssumption`, `TpAssumption`, `MwAssumption`):
`LedgerTypeCorrect`, `SubmittedRecordsAreProven` and `DocumentsAreLedgeredOnce` about `Ledger`,
`HashesAreTold`, `ReportsAreKept`
about `LawVision`, and `TemplatesHaveFiles`, `LoneTemplatesAgree` and
`RenderedDocumentsHaveFields` about `Templates`. For the ledger, `LdgInv` adds
that without a competitor there is one submission at most, that its PDF is the newest, and which
of record, storage and ledger already know that PDF at each of its steps. For LawVision the
invariant says that a loaded content which is not the present one has been overlapped, that a key
differs from its content only then, and that only forced requests are on the way to a
report that was successful before others had looked (`ForcedOnly`). For templates, a
callback about to save its file holds one that nobody else names and nobody will delete
(`FilesApart`), and one about to delete a file holds one the row will never name again,
since file names are not used twice. Where `tpSerial` holds, `TpSerialInv` adds that row,
preview and document fit together at every step (`Agreement`), that the request's copy is
what it read, and which files are in storage and not yet or no longer named (`InHand`).

About `MoneyWords` (`MwAssumption`) it proves `AmountsAreSaid`, for every set of amounts and
any number of scale words. `MwInv` says that at each turn the amount is what is left of it, in
its power of a thousand, plus what the words so far say, the same in both languages, and that
the Russian words agree. The amount must be below the limit of the scale words: past it the
code says a group without its scale. Four steps lead there. The recursive functions
`Thousands` and `ReadAloud` exist and have their equations (`StepwiseFunction`, by induction
over a set of numbers, since the library's induction theorems cannot be instantiated). Once a
scale word has closed a group, what follows is heard as if from silence (`SayAfterwards`). The
words of three digits are heard as their number in each language (`TripletRuSays`,
`TripletKkSays`), and the last of the Russian ones asks for the form that `plural_form_ru`
finds by arithmetic (`TripletRuFits`). So a turn adds its group (`TurnSays`).

`MCDocumentServices_proofs` joins the services as the run does. A step of all of them is, for
each, a step of its own or none (`StepOfServices`), so every behaviour of `ServicesSpec` is one of
each service's specification (`ServicesBehave`), and the theorems carry over:
`ServicesTypeCorrect`, `ServicesKeepTheirInvariants` and `ServicesKeepTheirSteps` are the type
invariant, the other invariants and the action properties and refinement of the run
`DocumentServices`, for every value of the constants and without its bounds
(`SmallSms` and `SmallTemplates` only cut behaviours off).

Each module lists its invariant as a theorem of its own (`LedgerInvariant`, `SmsInvariant`,
...), and TLC checked the properties first.

Model-checked only: `QueuedJobIsSettled`. Liveness under fairness is out of the prover's reach.
`SignedDocumentIsComplete` and `SignedInOrder` are what the refinements say of
a single state; TLC checks them within `KeepsTheContract` and `KeepsThePromise`.
All other properties of passing runs are theorems, five of those about `Signing` under
`OneAtATime`.

## Not modelled, and why

* In `Signing`: consent, `signing_order` of public links (only the admission contract
  enforces an order, which `Admissions` has), duplicate signers with one IIN, the expiry and
  revocation of links, eGov's own content hash. Documents that have field values but no
  rendered file, `document_editor` and `document_render_docx` are left out: they take the
  same check and the same save as the edits that are modelled.
* In `Admissions`: the choice of template rules, dashboards, batches (a loop over single
  signatures), protected links, the synchronous rendering mode, the search for a contract
  number (one query and one insert under a unique constraint).
* In `Evidence`: verification of stored objects by hash, files of single signatures, a storage
  that is switched off (links are then issued and nothing is stored), the refusal of
  `create_token` without a rendered file (`access_token_service.py:106`), the PDF and the DOCX
  as two objects.
* In `Templates`: templates without a file, a .doc file whose conversion fails (the `ValueError`
  that `documents/views.py:301-305` swallows leaves its names out), a change of a field's type,
  which may make a name one that says an amount in words after a document was made.
* In `EcpVerifier`: parsing of CMS and certificates; an answer that is JSON but no object.
* Rendering and conversion of DOCX, HTML and PDF, the alias tables of the payload mapper, the
  inflection of names, the digits and blanks of an amount: conversions without state.
* Organizations, accounts, API tokens, administrative audit records: single reads and
  single inserts.
* Settings, scripts, translations, empty applications; the remote ledger, LawVision,
  OnlyOffice, eGov Mobile, the SMS gateway, object storage and MSSQL themselves: external, a
  choice between the answers the code distinguishes, a loss included.
