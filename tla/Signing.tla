------------------------------- MODULE Signing -------------------------------
(***************************************************************************)
(* One document, its signers and the HTTP requests that act on them.       *)
(*                                                                         *)
(* Django runs in autocommit mode, so a handler is a read of some rows     *)
(* into memory followed, later, by single-row UPDATEs from that copy; only *)
(* SMS and ECP completion run inside transaction.atomic.  A request slot   *)
(* holds the copy and the point it has reached; between two of its steps   *)
(* any other request may run.  Row locks are those PostgreSQL takes under  *)
(* READ COMMITTED: SELECT FOR UPDATE in the SMS completion, the row lock   *)
(* of an uncommitted UPDATE in the ECP completion.                         *)
(*                                                                         *)
(* Content is a version number: a document whose hash field equals its     *)
(* content version has an up-to-date content_hash.  Hash 0 is the empty    *)
(* hash.                                                                   *)
(***************************************************************************)
EXTENDS Naturals, FiniteSets

CONSTANTS
  Signers,      \* the people who may be asked to sign
  Requests,     \* slots for requests in flight at the same time
  Handlers,     \* the handlers that requests may enter
  MaxVersion,   \* bound on the number of contents the document ever has
  None          \* no signer, no request, no signature

ASSUME SigningAssumption ==
  /\ MaxVersion \in Nat \ {0}
  /\ None \notin Signers
  /\ None \notin Requests
  /\ Handlers \subseteq {"link", "page", "choose", "sms", "ecp", "egov",
                         "callback", "fill", "add", "crash"}

VARIABLES
  document,     \* the documents_document row
  signer,       \* the signing_signer rows
  signature,    \* the signing_signature rows, at most one for a signer
  linked,       \* signers that hold a valid access token
  sessions,     \* providers a signer has an open signing session with
  versions,     \* number of contents produced so far
  request,      \* what each request has read and where it stands
  docLock,      \* request that holds the document row FOR UPDATE
  signerLock,   \* request that holds each signer row
  late          \* history: signers added after or during a first signature

db == <<document, signer, signature, linked, sessions, versions, late>>
vars == <<document, signer, signature, linked, sessions, versions, late,
          request, docLock, signerLock>>

DocumentStatus == {"draft", "waiting_for_signers", "partially_signed", "signed"}
SignerStatus == {"absent", "pending", "sms_sent", "opened", "signing_started",
                 "signed", "failed"}
Method == {"egov_mobile", "sms", "ecp"}

Version == 0 .. MaxVersion
DocumentRow == [status : DocumentStatus, content : Version,
                hash : Version, locked : BOOLEAN]
SignerRow == [status : SignerStatus, method : Method]
SignatureRow == [provider : Method, valid : BOOLEAN, hash : Version]

ASSUME NoneIsNoSignature == None \notin SignatureRow

(* Where a request stands: the step it takes next. *)
Counted == {"sms_commit", "ecp_commit", "egov_document"}
Pc == {"idle", "link_fix", "link_lock", "link_store", "open", "choose",
       "sms_start", "sms_kept", "sms_fix", "sms_lock", "sms_dispatch",
       "sms_sent", "ecp_verify", "egov_start", "egov_session", "egov_status",
       "egov_signature", "egov_signer", "egov_count", "callback", "fill",
       "fill_status", "fill_render", "add"} \cup Counted

Call == [pc : Pc, who : Signers \cup {None}, doc : DocumentRow, row : SignerRow]

NoDocument == [status |-> "draft", content |-> 0, hash |-> 0, locked |-> FALSE]
NoSigner == [status |-> "absent", method |-> "egov_mobile"]
Idle == [pc |-> "idle", who |-> None, doc |-> NoDocument, row |-> NoSigner]

TypeOK ==
  /\ document \in DocumentRow
  /\ signer \in [Signers -> SignerRow]
  /\ signature \in [Signers -> SignatureRow \cup {None}]
  /\ linked \subseteq Signers
  /\ sessions \in [Signers -> SUBSET {"sms", "egov"}]
  /\ versions \in Version
  /\ request \in [Requests -> Call]
  /\ docLock \in Requests \cup {None}
  /\ signerLock \in [Signers -> Requests \cup {None}]
  /\ late \subseteq Signers

-----------------------------------------------------------------------------
Present == {s \in Signers : signer[s].status # "absent"}
Signed == {s \in Signers : signer[s].status = "signed"}
Roll == Present \ late
ValidSignature(s) == signature[s] # None /\ signature[s].valid
Sealed == {s \in Signers : ValidSignature(s)}

(* Mutant: only a completely signed document is locked. *)
CanBeEditedUntilSigned(doc) == doc.status # "signed"

(* Document.is_locked on a copy of the row; the signers are queried. *)
CanBeEdited(doc) ==
  /\ doc.status \notin {"partially_signed", "signed"}
  /\ Signed = {}

(* Mutant: the signer's status is written into the document. *)
StatusAfterEditOfSigner == IF Present # {} THEN "pending" ELSE "draft"

(* get_status_after_edit: the signers are queried when the edit is saved. *)
StatusAfterEdit == IF Present # {} THEN "waiting_for_signers" ELSE "draft"

(* Mutant: the signers are counted before the signer's row is saved. *)
RecalculatedBeforeSaving(done) ==
  IF Present # {} /\ Present \subseteq Signed THEN "signed" ELSE "partially_signed"

(* recalculate_document_status after the signers in done have signed. *)
RecalculatedStatus(done) ==
  IF Present # {} /\ Present \subseteq done THEN "signed"
  ELSE IF done # {} THEN "partially_signed"
  ELSE "waiting_for_signers"

(* Mutant: the document is complete when its last signature row exists. *)
EgovStatusFromRows ==
  IF \A s \in Present : signature[s] # None THEN "signed" ELSE "partially_signed"

(* The same recount at the end of the eGov completion: its ELSE branch has *)
(* no case for a document without signed signers.                          *)
EgovStatus ==
  IF Present # {} /\ Present \subseteq Signed THEN "signed" ELSE "partially_signed"

(* Mutant: Document.save without its guard and the table without its trigger. *)
SaveDocumentUnguarded(row) ==
  /\ docLock = None
  /\ document' = row

(* Document.save: the new row is refused when the stored one is signed, by *)
(* the guard in save() or, after a wait for the row lock, by the trigger.  *)
(* A writer waits while an SMS completion holds the row.                   *)
SaveDocument(row) ==
  /\ docLock = None
  /\ document.status # "signed"
  /\ document' = row

(* Mutant: no unique constraint on the signer of a signature. *)
SecondSignatureAllowed(s) == TRUE

(* signing_signature.signer is a OneToOneField: the second row is refused. *)
NoSignatureYet(s) == signature[s] = None

(* Signer.save(update_fields=...): no guard, but the row may be locked. *)
SaveSigner(s, row) ==
  /\ signerLock[s] = None
  /\ signer' = [signer EXCEPT ![s] = row]

(* A document without links, or one whose signers were all invited.        *)
Init ==
  /\ \E present \in SUBSET Signers :
       /\ signer = [s \in Signers |->
                      IF s \in present THEN [NoSigner EXCEPT !.status = "pending"]
                      ELSE NoSigner]
       /\ \/ /\ linked = {}
             /\ \E h \in {0, 1} :
                  document = [status |-> "draft", content |-> 1, hash |-> h,
                              locked |-> FALSE]
          \/ /\ linked = present
             /\ document = [status |-> "waiting_for_signers", content |-> 1,
                            hash |-> 1, locked |-> TRUE]
  /\ signature = [s \in Signers |-> None]
  /\ sessions = [s \in Signers |-> {}]
  /\ versions = 1
  /\ request = [r \in Requests |-> Idle]
  /\ docLock = None
  /\ signerLock = [s \in Signers |-> None]
  /\ late = {}

-----------------------------------------------------------------------------
(* Entering a handler: the copies kept are those a later step writes from. *)
Load(r, s, pc, doc, row) ==
  /\ request[r] = Idle
  /\ request' = [request EXCEPT ![r] = [pc |-> pc, who |-> s, doc |-> doc, row |-> row]]
  /\ UNCHANGED <<db, docLock, signerLock>>

At(r, pc) == request[r].pc = pc
Proceed(r, pc, doc) ==
  request' = [request EXCEPT ![r] = [pc |-> pc, who |-> request[r].who,
                                     doc |-> doc, row |-> request[r].row]]
Goto(r, pc) == Proceed(r, pc, request[r].doc)
Return(r) == request' = [request EXCEPT ![r] = Idle]

(* Document.save refused: the handler ends with the ValidationError. *)
Refused(r) ==
  /\ document.status = "signed"
  /\ Return(r)
  /\ UNCHANGED <<db, docLock, signerLock>>

-----------------------------------------------------------------------------
(* Access links: SignerAccessTokenService.create_token.                    *)

CreateAccessLink(r, s) ==
  /\ "link" \in Handlers
  /\ signer[s].status \notin {"absent", "signed"}
  /\ signature[s] = None
  /\ Load(r, s, IF document.hash = 0 THEN "link_fix" ELSE "link_lock", document, NoSigner)

(* update_content_hash(save=True): hashes the files of the copy.           *)
FixContentHash(r) ==
  /\ \/ At(r, "link_fix")
     \/ At(r, "sms_fix")
  /\ LET copy == request[r].doc IN
     /\ SaveDocument([document EXCEPT !.hash = copy.content])
     /\ Proceed(r, IF At(r, "link_fix") THEN "link_lock" ELSE "sms_lock",
                [copy EXCEPT !.hash = copy.content])
  /\ UNCHANGED <<signer, signature, linked, sessions, versions, late, docLock,
                 signerLock>>

(* lock_for_signing writes hash, locked_at and status of the copy back,    *)
(* whatever the row holds by now.                                          *)
LockForSigning(r) ==
  /\ \/ At(r, "link_lock")
     \/ At(r, "sms_lock")
  /\ LET copy == request[r].doc IN
     SaveDocument([document EXCEPT
                     !.hash = copy.hash,
                     !.locked = TRUE,
                     !.status = IF copy.status = "draft" THEN "waiting_for_signers"
                                ELSE copy.status])
  /\ Proceed(r, IF At(r, "link_lock") THEN "link_store" ELSE "sms_dispatch", NoDocument)
  /\ UNCHANGED <<signer, signature, linked, sessions, versions, late, docLock,
                 signerLock>>

(* The link is issued when the final files were stored, and only then;     *)
(* the lock of the step before stays either way.                           *)
IssueLink(r) ==
  /\ At(r, "link_store")
  /\ linked' \in {linked, linked \cup {request[r].who}}
  /\ Return(r)
  /\ UNCHANGED <<document, signer, signature, sessions, versions, late, docLock,
                 signerLock>>

-----------------------------------------------------------------------------
(* The signer's page.                                                      *)

(* Mutant: every visit of the page marks the signer as having opened it. *)
EveryVisitOpens(s) == signer[s].status # "opened"

FirstVisitOpens(s) == signer[s].status \in {"pending", "sms_sent"}

OpenPage(r, s) ==
  /\ "page" \in Handlers
  /\ s \in linked
  /\ FirstVisitOpens(s)
  /\ Load(r, s, "open", NoDocument, NoSigner)

SaveOpened(r) ==
  LET s == request[r].who IN
  /\ At(r, "open")
  /\ SaveSigner(s, [signer[s] EXCEPT !.status = "opened"])
  /\ Return(r)
  /\ UNCHANGED <<document, signature, linked, sessions, versions, late, docLock,
                 signerLock>>

ChooseMethod(r, s) ==
  /\ "choose" \in Handlers
  /\ s \in linked
  /\ signer[s].status # "signed"
  /\ Load(r, s, "choose", NoDocument, signer[s])

(* Both columns are written, the status from the copy.                     *)
SaveMethod(r) ==
  LET s == request[r].who
      status == request[r].row.status
  IN
  /\ At(r, "choose")
  /\ \E m \in Method :
       SaveSigner(s, [method |-> m,
                      status |-> IF status \in {"pending", "opened"}
                                 THEN "signing_started" ELSE status])
  /\ Return(r)
  /\ UNCHANGED <<document, signature, linked, sessions, versions, late, docLock,
                 signerLock>>

-----------------------------------------------------------------------------
(* SMS: SmsSigningService.create_session and complete_session.             *)

StartSms(r, s) ==
  /\ "sms" \in Handlers
  /\ s \in linked
  /\ signer[s].status # "signed"
  /\ Load(r, s, IF signer[s].method = "sms" THEN "sms_kept" ELSE "sms_start",
          document, NoSigner)

(* The method is saved first, if the copy had another; the session is      *)
(* refused when a signature exists by now (or consent is missing).         *)
SaveSmsMethod(r) ==
  LET s == request[r].who IN
  /\ \/ At(r, "sms_start") /\ SaveSigner(s, [signer[s] EXCEPT !.method = "sms"])
     \/ At(r, "sms_kept") /\ UNCHANGED signer
  /\ \/ Return(r)
     \/ /\ signature[s] = None
        /\ Goto(r, IF request[r].doc.hash = 0 THEN "sms_fix" ELSE "sms_lock")
  /\ UNCHANGED <<document, signature, linked, sessions, versions, late, docLock,
                 signerLock>>

(* The session row exists and the code leaves for the gateway.             *)
DispatchCode(r) ==
  /\ At(r, "sms_dispatch")
  /\ sessions' = [sessions EXCEPT ![request[r].who] = @ \cup {"sms"}]
  /\ Goto(r, "sms_sent")
  /\ UNCHANGED <<document, signer, signature, linked, versions, late, docLock,
                 signerLock>>

(* After the gateway's answer: the signer's status is overwritten.         *)
CodeSent(r) ==
  LET s == request[r].who IN
  /\ At(r, "sms_sent")
  /\ \/ /\ SaveSigner(s, [signer[s] EXCEPT !.status = "sms_sent"])
        /\ UNCHANGED sessions
     \/ /\ SaveSigner(s, [signer[s] EXCEPT !.status = "failed"])
        /\ sessions' = [sessions EXCEPT ![s] = @ \ {"sms"}]
  /\ Return(r)
  /\ UNCHANGED <<document, signature, linked, versions, late, docLock, signerLock>>

(* Mutant: the content is not hashed again before the signature. *)
ContentHashUnchecked == TRUE

(* current_document_hash == document.content_hash (an empty one is filled). *)
ContentHashMatches == document.hash \in {0, document.content}

(* Mutant: select_for_update(of=("self",)), which locks the session only. *)
DocumentNotLocked(r) == None

(* select_for_update().select_related("signer", "signer__document") locks  *)
(* the document row too.                                                   *)
DocumentLockedBy(r) == r

(* Mutant: neither the signer's status nor his signature is looked at. *)
MaySignTwice(s) == TRUE

(* The signer's status and signature are looked at under the lock.         *)
MaySign(s) == signer[s].status # "signed" /\ signature[s] = None

(* transaction.atomic: session, signer and document rows are locked and    *)
(* read afresh, the code is right, the content still has the fixed hash.   *)
(* A refusal rolls everything back and is no step of the database.         *)
CompleteSms(r, s) ==
  /\ "sms" \in Handlers
  /\ request[r] = Idle
  /\ s \in linked
  /\ "sms" \in sessions[s]
  /\ docLock = None
  /\ signerLock[s] = None
  /\ MaySign(s)
  /\ ContentHashMatches
  /\ docLock' = DocumentLockedBy(r)
  /\ signerLock' = [signerLock EXCEPT ![s] = r]
  /\ request' = [request EXCEPT ![r] =
       [pc |-> "sms_commit", who |-> s, row |-> NoSigner,
        doc |-> [document EXCEPT
                   !.hash = IF @ = 0 THEN document.content ELSE @,
                   !.status = RecalculatedStatus(Signed \cup {s})]]]
  /\ UNCHANGED db

(* COMMIT: signature, session, signer and document appear together.        *)
CommitSms(r) ==
  LET s == request[r].who
      copy == request[r].doc
  IN
  /\ At(r, "sms_commit")
  /\ document.status # "signed"
  /\ document' = [document EXCEPT !.hash = copy.hash, !.status = copy.status]
  /\ signer' = [signer EXCEPT ![s].status = "signed"]
  /\ signature' = [signature EXCEPT ![s] = [provider |-> "sms", valid |-> TRUE,
                                            hash |-> copy.hash]]
  /\ sessions' = [sessions EXCEPT ![s] = @ \ {"sms"}]
  /\ docLock' = None
  /\ signerLock' = [signerLock EXCEPT ![s] = None]
  /\ Return(r)
  /\ UNCHANGED <<linked, versions, late>>

-----------------------------------------------------------------------------
(* ECP: EcpSigningService.complete_signing, a transaction without          *)
(* select_for_update that trusts the copies its caller loaded.             *)

CompleteEcp(r, s) ==
  /\ "ecp" \in Handlers
  /\ s \in linked
  /\ signer[s].status # "signed"
  /\ signer[s].method = "ecp"
  /\ document.hash # 0
  /\ Load(r, s, "ecp_verify", [NoDocument EXCEPT !.hash = document.hash], NoSigner)

(* Mutant: is_valid keeps the default of the model. *)
EcpSignatureByDefault(r, ok) ==
  [provider |-> "ecp", valid |-> FALSE, hash |-> request[r].doc.hash]

EcpSignature(r, ok) ==
  [provider |-> "ecp", valid |-> ok, hash |-> request[r].doc.hash]

(* The verifier rejects: signature and failed signer are committed.        *)
EcpInvalid(r) ==
  LET s == request[r].who IN
  /\ At(r, "ecp_verify")
  /\ NoSignatureYet(s)
  /\ docLock = None
  /\ SaveSigner(s, [signer[s] EXCEPT !.status = "failed"])
  /\ signature' = [signature EXCEPT ![s] = EcpSignature(r, FALSE)]
  /\ Return(r)
  /\ UNCHANGED <<document, linked, sessions, versions, late, docLock, signerLock>>

(* The verifier accepts: the uncommitted UPDATE locks the signer row and   *)
(* the signers are counted; nobody else's uncommitted signature counts.    *)
EcpValid(r) ==
  LET s == request[r].who IN
  /\ At(r, "ecp_verify")
  /\ NoSignatureYet(s)
  /\ signerLock[s] = None
  /\ signerLock' = [signerLock EXCEPT ![s] = r]
  /\ Proceed(r, "ecp_commit",
             [request[r].doc EXCEPT !.status = RecalculatedStatus(Signed \cup {s})])
  /\ UNCHANGED <<db, docLock>>

(* The document row is updated (after a wait for its lock) and the         *)
(* transaction commits.                                                    *)
CommitEcp(r) ==
  LET s == request[r].who IN
  /\ At(r, "ecp_commit")
  /\ SaveDocument([document EXCEPT !.status = request[r].doc.status])
  /\ signer' = [signer EXCEPT ![s].status = "signed"]
  /\ signature' = [signature EXCEPT ![s] = EcpSignature(r, TRUE)]
  /\ signerLock' = [signerLock EXCEPT ![s] = None]
  /\ Return(r)
  /\ UNCHANGED <<linked, sessions, versions, late, docLock>>

(* signing_signature.signer is unique: IntegrityError for a second row.    *)
DuplicateSignature(r) ==
  /\ \/ At(r, "ecp_verify")
     \/ At(r, "egov_signature")
  /\ ~NoSignatureYet(request[r].who)
  /\ Return(r)
  /\ UNCHANGED <<db, docLock, signerLock>>

(* ROLLBACK releases the rows and leaves the database as it was.           *)
RollBack(r) ==
  /\ docLock' = IF docLock = r THEN None ELSE docLock
  /\ signerLock' = [s \in Signers |-> IF signerLock[s] = r THEN None
                                      ELSE signerLock[s]]
  /\ Return(r)
  /\ UNCHANGED db

(* recalculate_document_status meets a signed document: ValidationError.   *)
RefusedCompletion(r) ==
  /\ \/ At(r, "sms_commit")
     \/ At(r, "ecp_commit") /\ docLock = None
  /\ document.status = "signed"
  /\ RollBack(r)

-----------------------------------------------------------------------------
(* eGov Mobile: no transaction, every save commits.                        *)

StartEgov(r, s) ==
  /\ "egov" \in Handlers
  /\ s \in linked
  /\ signer[s].status # "signed"
  /\ Load(r, s, IF signer[s].method = "egov_mobile" THEN "egov_session" ELSE "egov_start",
          NoDocument, NoSigner)

SaveEgovMethod(r) ==
  LET s == request[r].who IN
  /\ At(r, "egov_start")
  /\ SaveSigner(s, [signer[s] EXCEPT !.method = "egov_mobile"])
  /\ Goto(r, "egov_session")
  /\ UNCHANGED <<document, signature, linked, sessions, versions, late, docLock,
                 signerLock>>

(* create_session, unless there is no file to sign.                        *)
CreateEgovSession(r) ==
  /\ At(r, "egov_session")
  /\ \/ /\ sessions' = [sessions EXCEPT ![request[r].who] = @ \cup {"egov"}]
        /\ Goto(r, "egov_status")
     \/ Return(r) /\ UNCHANGED sessions
  /\ UNCHANGED <<document, signer, signature, linked, versions, late, docLock,
                 signerLock>>

(* The signer's status is overwritten.                                     *)
SaveEgovStatus(r) ==
  LET s == request[r].who IN
  /\ At(r, "egov_status")
  /\ SaveSigner(s, [signer[s] EXCEPT !.status = "signing_started"])
  /\ Return(r)
  /\ UNCHANGED <<document, signature, linked, sessions, versions, late, docLock,
                 signerLock>>

(* Mutant: the signer's row is saved before the signature is created. *)
CompleteEgovSignerFirst(r, s) ==
  /\ "egov" \in Handlers
  /\ "egov" \in sessions[s]
  /\ Load(r, s, "egov_signer", NoDocument, NoSigner)

(* egov_api_2: a session that has not expired is enough, whatever its      *)
(* status or its signer's.                                                 *)
CompleteEgov(r, s) ==
  /\ "egov" \in Handlers
  /\ "egov" \in sessions[s]
  /\ Load(r, s, "egov_signature", NoDocument, NoSigner)

(* The hash is that of the signed data, not of the document: left out.     *)
SaveEgovSignature(r) ==
  LET s == request[r].who IN
  /\ At(r, "egov_signature")
  /\ NoSignatureYet(s)
  /\ signerLock[s] = None
  /\ docLock = None
  /\ signature' = [signature EXCEPT ![s] = [provider |-> "egov_mobile",
                                            valid |-> TRUE, hash |-> 0]]
  /\ Goto(r, "egov_signer")
  /\ UNCHANGED <<document, signer, linked, sessions, versions, late, docLock,
                 signerLock>>

SaveEgovSigner(r) ==
  LET s == request[r].who IN
  /\ At(r, "egov_signer")
  /\ SaveSigner(s, [signer[s] EXCEPT !.status = "signed"])
  /\ Goto(r, "egov_count")
  /\ UNCHANGED <<document, signature, linked, sessions, versions, late, docLock,
                 signerLock>>

CountEgov(r) ==
  /\ At(r, "egov_count")
  /\ Proceed(r, "egov_document", [request[r].doc EXCEPT !.status = EgovStatus])
  /\ UNCHANGED <<db, docLock, signerLock>>

SaveEgovDocument(r) ==
  /\ At(r, "egov_document")
  /\ SaveDocument([document EXCEPT !.status = request[r].doc.status])
  /\ Return(r)
  /\ UNCHANGED <<signer, signature, linked, sessions, versions, late, docLock,
                 signerLock>>

-----------------------------------------------------------------------------
(* Editing.  The check and the save are separate statements, with a        *)
(* download or a rendering between them.                                   *)

(* document_onlyoffice_callback *)
OnlyOfficeCallback(r) ==
  /\ "callback" \in Handlers
  /\ CanBeEdited(document)
  /\ Load(r, None, "callback", NoDocument, NoSigner)

NewContent(row) ==
  /\ versions < MaxVersion
  /\ versions' = versions + 1
  /\ SaveDocument([row EXCEPT !.content = versions', !.hash = versions'])

SaveCallback(r) ==
  /\ At(r, "callback")
  /\ NewContent([document EXCEPT !.status = StatusAfterEdit])
  /\ Return(r)
  /\ UNCHANGED <<signer, signature, linked, sessions, late, docLock, signerLock>>

(* document_fill: signers of the template's parties, then the status, then *)
(* the rendering.                                                          *)
Fill(r) ==
  /\ "fill" \in Handlers
  /\ CanBeEdited(document)
  /\ Load(r, None, "fill", document, NoSigner)

(* A signer that appears once a signature exists or is being counted.      *)
MarkLate(S) ==
  late' = IF \/ \E t \in Signers : signature[t] # None
             \/ \E q \in Requests : request[q].pc \in Counted
          THEN late \cup S ELSE late

(* add_signer: the foreign key makes the insert wait for a document row    *)
(* that is locked FOR UPDATE.                                              *)
InsertSigners(S) ==
  /\ docLock = None
  /\ signer' = [s \in Signers |->
                  IF s \in S THEN [NoSigner EXCEPT !.status = "pending"]
                  ELSE signer[s]]
  /\ MarkLate(S)

(* create_signers_from_template_parties: in one transaction the parties    *)
(* that already have a signer get their method back, and the others are    *)
(* added.  add_signer repeats the check of Fill for each of these, at the  *)
(* earliest right after it, and then waits for the domain of the e-mail    *)
(* before its INSERT: at the COMMIT the check may be long past.  A party   *)
(* with missing data, or no longer allowed, undoes them all and ends the   *)
(* request.                                                                *)
FillSigners(r) ==
  /\ At(r, "fill")
  /\ \/ \E new \in SUBSET (Signers \ Present), kept \in SUBSET Present :
          /\ new # {} => docLock = None
          /\ \A s \in kept : signerLock[s] = None
          /\ signer' = [s \in Signers |->
                          CASE s \in new -> [NoSigner EXCEPT !.status = "pending"]
                            [] s \in kept -> [signer[s] EXCEPT !.method = "egov_mobile"]
                            [] OTHER -> signer[s]]
          /\ MarkLate(new)
          /\ Proceed(r, "fill_status", NoDocument)
     \/ Return(r) /\ UNCHANGED <<signer, late>>
  /\ UNCHANGED <<document, signature, linked, sessions, versions, docLock,
                 signerLock>>

SaveFillStatus(r) ==
  /\ At(r, "fill_status")
  /\ SaveDocument([document EXCEPT !.status = StatusAfterEdit])
  /\ Goto(r, "fill_render")
  /\ UNCHANGED <<signer, signature, linked, sessions, versions, late, docLock,
                 signerLock>>

(* DocumentDocxRenderService.render checks nothing; it may also fail.      *)
RenderDocx(r) ==
  /\ At(r, "fill_render")
  /\ \/ NewContent(document)
     \/ UNCHANGED <<document, versions>>
  /\ Return(r)
  /\ UNCHANGED <<signer, signature, linked, sessions, late, docLock, signerLock>>

(* add_signer checks the document, then the e-mail domain over the network, *)
(* then inserts.                                                           *)
AddSigner(r, s) ==
  /\ "add" \in Handlers
  /\ s \notin Present
  /\ CanBeEdited(document)
  /\ Load(r, s, "add", NoDocument, NoSigner)

InsertSigner(r) ==
  /\ At(r, "add")
  /\ \/ /\ request[r].who \notin Present
        /\ InsertSigners({request[r].who})
     \/ /\ request[r].who \in Present
        /\ UNCHANGED <<signer, late>>
  /\ Return(r)
  /\ UNCHANGED <<document, signature, linked, sessions, versions, docLock,
                 signerLock>>

-----------------------------------------------------------------------------
(* The server dies in the middle of a request: what was not committed is   *)
(* rolled back, what was committed stays.                                  *)
Crash(r) ==
  /\ "crash" \in Handlers
  /\ request[r] # Idle
  /\ RollBack(r)

(* A Document.save outside a transaction that finds the document signed.   *)
RefusedSave(r) ==
  /\ request[r].pc \in {"link_fix", "link_lock", "sms_fix", "sms_lock",
                        "callback", "fill_status", "fill_render", "egov_document"}
  /\ Refused(r)

LinkStep(r) ==
  \/ \E s \in Signers : CreateAccessLink(r, s) \/ OpenPage(r, s) \/ ChooseMethod(r, s)
  \/ FixContentHash(r)
  \/ LockForSigning(r)
  \/ IssueLink(r)
  \/ SaveOpened(r)
  \/ SaveMethod(r)

SmsStep(r) ==
  \/ \E s \in Signers : StartSms(r, s) \/ CompleteSms(r, s)
  \/ SaveSmsMethod(r)
  \/ DispatchCode(r)
  \/ CodeSent(r)
  \/ CommitSms(r)

EcpStep(r) ==
  \/ \E s \in Signers : CompleteEcp(r, s)
  \/ EcpInvalid(r)
  \/ EcpValid(r)
  \/ CommitEcp(r)
  \/ DuplicateSignature(r)

EgovStep(r) ==
  \/ \E s \in Signers : StartEgov(r, s) \/ CompleteEgov(r, s)
  \/ SaveEgovMethod(r)
  \/ CreateEgovSession(r)
  \/ SaveEgovStatus(r)
  \/ SaveEgovSignature(r)
  \/ SaveEgovSigner(r)
  \/ CountEgov(r)
  \/ SaveEgovDocument(r)

EditStep(r) ==
  \/ OnlyOfficeCallback(r)
  \/ SaveCallback(r)
  \/ Fill(r)
  \/ FillSigners(r)
  \/ SaveFillStatus(r)
  \/ RenderDocx(r)
  \/ \E s \in Signers : AddSigner(r, s)
  \/ InsertSigner(r)

Next ==
  \E r \in Requests :
    \/ LinkStep(r)
    \/ SmsStep(r)
    \/ EcpStep(r)
    \/ EgovStep(r)
    \/ EditStep(r)
    \/ RefusedCompletion(r)
    \/ RefusedSave(r)
    \/ Crash(r)

Spec == Init /\ [][Next]_vars

-----------------------------------------------------------------------------
(***************************************************************************)
(* Properties                                                              *)
(***************************************************************************)

(* Nobody is recorded as having signed without a valid signature row,      *)
(* whichever of the three providers, rejected signatures, crashes and      *)
(* stale status writes led there.                                          *)
SignedSignerHasSignature == Signed \subseteq Sealed

(* What KeepsTheContract says of the final mark:                           *)
(* a document is signed only when somebody signed it and everybody on it   *)
(* has a valid signature; the one exception is a signer who was added      *)
(* while a first signature already existed or was being counted, which the *)
(* edit check means to rule out and cannot.                                *)
SignedDocumentIsComplete ==
  document.status = "signed" =>
    /\ Sealed # {}
    /\ Roll \subseteq Sealed

(* Once the document is signed no handler changes it again, however old    *)
(* the copy it writes from (the guard in Document.save and the trigger).   *)
SignedDocumentIsImmutable ==
  [][document.status = "signed" => UNCHANGED document]_vars

(* A signature row never changes, and a second completion for the same     *)
(* signer, by the same provider or another, never replaces it.             *)
SignaturesAreFinal ==
  [][\A s \in Signers : signature[s] # None => signature'[s] = signature[s]]_vars

(* An SMS signature is over the content the document has when it commits,  *)
(* edits in flight included.                                               *)
SmsSignatureCoversContent ==
  [][\A s \in Signers :
       (signature[s] = None /\ signature'[s] # None /\ signature'[s].provider = "sms")
         => signature'[s].hash = document'.content]_vars

(* When the last signer has signed, the document is signed, as long as     *)
(* everybody signed by SMS and held the document's row meanwhile           *)
(* (sms_signing_service.py:331): no completion is lost between two         *)
(* recounts, whatever edits and other providers' requests are in flight.   *)
NoLostCompletion ==
  /\ Present # {} /\ Present \subseteq Signed
  /\ \A s \in Present : signature[s] # None => signature[s].provider = "sms"
  => document.status = "signed"

(* "Document cannot be edited after the first signer has signed."          *)
NoEditAfterFirstSignature ==
  [][Signed # {} => document'.content = document.content]_vars

(* "Signers can be edited only before the first signature."                *)
NoSignerAfterFirstSignature ==
  [][Signed # {} => Present' \subseteq Present]_vars

(* The requests, copies and locks together keep what signing promises: the *)
(* roll (but for late signers) is open until the first valid signature,    *)
(* seals stay, and the document is marked signed once everybody sealed.    *)
Contract == INSTANCE SignedContract WITH
  People <- Signers,
  roll <- Roll,
  sealed <- Sealed,
  final <- (document.status = "signed")

KeepsTheContract == Contract!Spec

(* A signer who has signed stays signed.                                   *)
SignedSignerStaysSigned ==
  [][Signed \subseteq Signed']_vars

(* The completion of the last missing signer, by SMS or ECP, leaves the    *)
(* document signed, whoever signed before him by whatever provider: the    *)
(* recount (document_service.py:recalculate_document_status) includes the  *)
(* signature it belongs to and misses none that an edit, a page or another *)
(* provider's attempt came near.                                           *)
LastCompletionSignsDocument ==
  [][\A s \in Signers :
       (/\ s \notin Signed /\ s \in Signed'
        /\ Present' \subseteq Signed'
        /\ signature'[s].provider # "egov_mobile")
         => document'.status = "signed"]_vars

(* All valid signatures that carry the document hash carry the same one.   *)
SignaturesAgree ==
  \A s, t \in Sealed :
    (signature[s].hash # 0 /\ signature[t].hash # 0)
      => signature[s].hash = signature[t].hash

=============================================================================
