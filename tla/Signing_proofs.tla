---------------------------- MODULE Signing_proofs ----------------------------
(***************************************************************************)
(* Theorems about Signing.  The inductive invariant says what a request    *)
(* may rely on at each point of its handler: whom it is about, what its    *)
(* copies cannot say, which locks it holds, and what a recount that has    *)
(* been taken but not yet saved is worth.  A step of one request keeps     *)
(* what the others rely on (Respects), so that each action has to be       *)
(* examined only for the request that takes it.                            *)
(***************************************************************************)
EXTENDS Signing, TLAPS

NobodyPc == {"idle", "callback", "fill", "fill_status", "fill_render"}
LoadedPc == {"link_fix", "link_lock", "sms_start", "sms_kept", "sms_fix", "sms_lock"}
LockingPc == {"sms_commit", "ecp_commit"}
EgovPc == {"egov_signer", "egov_count", "egov_document"}

Known(s) == s \in Signers /\ signer[s].status # "absent"

(* A link or a session belongs to a signer who is on the document.         *)
LinksAreForSigners ==
  /\ \A s \in linked : Known(s)
  /\ \A s \in Signers : sessions[s] # {} => Known(s)

(* So does a request; only an insertion names one who may not be.          *)
CallerIsSigner(r) ==
  /\ request[r].pc = "add" => request[r].who \in Signers
  /\ request[r].pc \notin NobodyPc \cup {"add"} => Known(request[r].who)

(* The status a method choice writes back is neither of the two that it    *)
(* would forge, and a copy of a signed document means a signed document.   *)
CopyForgesNothing(r) ==
  /\ request[r].pc = "choose" => request[r].row.status \notin {"absent", "signed"}
  /\ (request[r].pc \in LoadedPc /\ request[r].doc.status = "signed")
       => document.status = "signed"

(* Between counting and COMMIT a request holds its signer's row, and SMS   *)
(* the document's row as well, with the hash of the content.               *)
LocksProtectCommit(r) ==
  /\ request[r].pc \in LockingPc =>
       /\ signerLock[request[r].who] = r
       /\ signature[request[r].who] = None
  /\ request[r].pc = "sms_commit" =>
       /\ docLock = r
       /\ request[r].doc.hash = document.content

(* An eGov completion that is past its signature has one.                  *)
EgovHasSignature(r) == request[r].pc \in EgovPc => ValidSignature(request[r].who)

(* A recount that says "signed" stays right until it is saved.             *)
CountHolds(r) ==
  (request[r].pc \in Counted /\ request[r].doc.status = "signed")
    => Roll \subseteq Sealed \cup {request[r].who}

RequestInv(r) ==
  /\ CallerIsSigner(r)
  /\ CopyForgesNothing(r)
  /\ LocksProtectCommit(r)
  /\ EgovHasSignature(r)
  /\ CountHolds(r)

IInv ==
  /\ TypeOK
  /\ SignedSignerHasSignature
  /\ SignedDocumentIsComplete
  /\ LinksAreForSigners
  /\ \A r \in Requests : RequestInv(r)

(* A step of request r; a crash and every refusal roll back or do nothing.  *)
Step(r) ==
  \/ LinkStep(r) \/ SmsStep(r) \/ EcpStep(r) \/ EgovStep(r) \/ EditStep(r)
  \/ RollBack(r) \/ Refused(r)

(* What a step of request r leaves to everybody else: signers stay on the  *)
(* document, signatures stay, rows locked by others stay, a signed         *)
(* document stays, and the roll grows only before any signature or count.  *)
Unsigned ==
  /\ \A s \in Signers : signature[s] = None
  /\ \A r \in Requests : request[r].pc \notin Counted

RollStep ==
  \/ Roll' = Roll
  \/ Unsigned /\ \E S \in SUBSET Signers : Roll' = Roll \cup S

Respects(r) ==
  /\ \A q \in Requests \ {r} : request'[q] = request[q]
  /\ \A s \in Signers : Known(s) => Known(s)'
  /\ \A s \in Signers : signature[s] # None => signature'[s] = signature[s]
  /\ \A s \in Signers : signerLock[s] \notin {None, r} =>
       signerLock'[s] = signerLock[s] /\ signature'[s] = signature[s]
  /\ docLock \notin {None, r} => docLock' = docLock /\ document' = document
  /\ document.status = "signed" => document' = document
  /\ Roll' \subseteq Roll \/ Unsigned

-----------------------------------------------------------------------------
(* The copies that a request does not need are rows like any other.        *)
LEMMA EmptyCopies == NoDocument \in DocumentRow /\ NoSigner \in SignerRow /\ Idle \in Call
  BY SigningAssumption
     DEF NoDocument, NoSigner, Idle, DocumentRow, SignerRow, Call,
     Pc, DocumentStatus, SignerStatus, Method, Version

(* The parts an action is made of leave what they write well typed.        *)
LEMMA LoadTyped ==
  ASSUME TypeOK, NEW r \in Requests, NEW s \in Signers \cup {None}, NEW pc \in Pc,
         NEW doc \in DocumentRow, NEW row \in SignerRow, Load(r, s, pc, doc, row)
  PROVE  TypeOK'
  BY DEF TypeOK, Load, db, Call

LEMMA ProceedTyped ==
  ASSUME TypeOK, NEW r \in Requests, NEW pc \in Pc, NEW doc \in DocumentRow,
         Proceed(r, pc, doc)
  PROVE  request' \in [Requests -> Call]
  BY DEF TypeOK, Proceed, Call

LEMMA GotoTyped ==
  ASSUME TypeOK, NEW r \in Requests, NEW pc \in Pc, Goto(r, pc)
  PROVE  request' \in [Requests -> Call]
  BY ProceedTyped DEF TypeOK, Goto, Call

LEMMA ReturnTyped ==
  ASSUME TypeOK, NEW r \in Requests, Return(r)
  PROVE  request' \in [Requests -> Call]
  BY EmptyCopies DEF TypeOK, Return

LEMMA SignerTyped ==
  ASSUME TypeOK, NEW s \in Signers, NEW row \in SignerRow, SaveSigner(s, row)
  PROVE  signer' \in [Signers -> SignerRow]
  BY DEF TypeOK, SaveSigner

LEMMA DocumentTyped ==
  ASSUME NEW row \in DocumentRow, NEW hash \in Version, NEW status \in DocumentStatus
  PROVE  [row EXCEPT !.hash = hash, !.status = status] \in DocumentRow
  BY DEF DocumentRow

LEMMA NewContentTyped ==
  ASSUME versions \in Version, NEW row \in DocumentRow, NewContent(row)
  PROVE  document' \in DocumentRow /\ versions' \in Version
  <1>1. versions' \in Version
    BY SigningAssumption DEF NewContent, Version
  <1> QED BY <1>1 DEF NewContent, SaveDocument, DocumentRow

LEMMA InsertTyped ==
  ASSUME TypeOK, NEW S, InsertSigners(S)
  PROVE  signer' \in [Signers -> SignerRow]
  <1>1. [NoSigner EXCEPT !.status = "pending"] \in SignerRow
    BY DEF NoSigner, SignerRow, SignerStatus, Method
  <1> QED BY <1>1 DEF TypeOK, InsertSigners

(* Signers who come onto the document are on the roll, or late.            *)
LEMMA Enrolment ==
  ASSUME NEW S \in SUBSET (Signers \ Present), Present' = Present \cup S, MarkLate(S)
  PROVE  RollStep
  <1>1. CASE late' = late \cup S
    BY <1>1 DEF Roll, RollStep
  <1>2. CASE Unsigned /\ late' = late
    <2>1. Roll' = Roll \cup (S \ late)
      BY <1>2 DEF Roll
    <2> QED BY <1>2, <2>1 DEF RollStep
  <1> QED BY <1>1, <1>2 DEF MarkLate, Unsigned

(* The signers of the template's parties: new rows, and methods of old     *)
(* ones.                                                                   *)
LEMMA FillWrites ==
  ASSUME TypeOK, NEW r \in Requests, FillSigners(r)
  PROVE  /\ signer' \in [Signers -> SignerRow]
         /\ \A s \in Signers : \/ signer'[s].status = signer[s].status
                               \/ s \notin Present /\ signer'[s].status = "pending"
         /\ late' \subseteq Signers
         /\ RollStep
  <1>1. CASE UNCHANGED <<signer, late>>
    BY <1>1 DEF TypeOK, RollStep, Roll, Present
  <1>2. ASSUME NEW new \in SUBSET (Signers \ Present), NEW kept \in SUBSET Present,
               signer' = [s \in Signers |->
                            CASE s \in new -> [NoSigner EXCEPT !.status = "pending"]
                              [] s \in kept -> [signer[s] EXCEPT !.method = "egov_mobile"]
                              [] OTHER -> signer[s]],
               MarkLate(new)
        PROVE  /\ signer' \in [Signers -> SignerRow]
               /\ \A s \in Signers : \/ signer'[s].status = signer[s].status
                                     \/ s \notin Present /\ signer'[s].status = "pending"
               /\ late' \subseteq Signers
               /\ RollStep
    <2>1. ASSUME NEW s \in Signers
          PROVE  /\ signer'[s] \in SignerRow
                 /\ s \in new => signer'[s].status = "pending"
                 /\ s \notin new => signer'[s].status = signer[s].status
      <3>1. CASE s \in new
        <4>1. signer'[s] = [NoSigner EXCEPT !.status = "pending"]
          BY <1>2, <3>1
        <4> QED BY <3>1, <4>1 DEF NoSigner, SignerRow, SignerStatus, Method
      <3>2. CASE s \notin new /\ s \in kept
        <4>1. signer'[s] = [signer[s] EXCEPT !.method = "egov_mobile"]
          BY <1>2, <3>2
        <4> QED BY <3>2, <4>1 DEF TypeOK, SignerRow, Method
      <3>3. CASE s \notin new /\ s \notin kept
        <4>1. signer'[s] = signer[s]
          BY <1>2, <3>3
        <4> QED BY <3>3, <4>1 DEF TypeOK
      <3> QED BY <3>1, <3>2, <3>3
    <2>2. signer' \in [Signers -> SignerRow]
      BY <1>2, <2>1
    <2>3. Present' = Present \cup new
      BY <2>1 DEF Present
    <2>4. RollStep
      BY <1>2, <2>3, Enrolment
    <2>5. late' \subseteq Signers
      BY <1>2 DEF MarkLate, TypeOK
    <2> QED BY <2>1, <2>2, <2>4, <2>5
  <1> QED BY <1>1, <1>2 DEF FillSigners

(* Every step of a request leaves the rows and copies well typed.            *)
LEMMA StepTyped ==
  ASSUME IInv, NEW r \in Requests, Step(r)
  PROVE  TypeOK'
  <1> USE DEF At, TypeOK
  <1>t. TypeOK /\ CallerIsSigner(r)
    BY DEF IInv, RequestInv
  <1>w. request[r].pc \notin NobodyPc => request[r].who \in Signers
    BY <1>t DEF CallerIsSigner, Known
  <1> USE <1>t
  <1>1. ASSUME NEW s \in Signers, CreateAccessLink(r, s)
        PROVE  TypeOK'
    BY <1>1, EmptyCopies, LoadTyped DEF CreateAccessLink, TypeOK, Pc
  <1>2. ASSUME NEW s \in Signers, OpenPage(r, s)
        PROVE  TypeOK'
    BY <1>2, EmptyCopies, LoadTyped DEF OpenPage, TypeOK, Pc
  <1>3. ASSUME NEW s \in Signers, ChooseMethod(r, s)
        PROVE  TypeOK'
    BY <1>3, EmptyCopies, LoadTyped DEF ChooseMethod, TypeOK, Pc
  <1>4. ASSUME FixContentHash(r)
        PROVE  TypeOK'
    <2>1. request' \in [Requests -> Call]
      BY <1>4, ProceedTyped DEF FixContentHash, Call, DocumentRow, Pc
    <2>2. document' \in DocumentRow
      BY <1>4
         DEF FixContentHash, SaveDocument, Call, DocumentRow, DocumentStatus,
             Version
    <2> QED BY <1>4, <2>1, <2>2 DEF FixContentHash
  <1>5. ASSUME LockForSigning(r)
        PROVE  TypeOK'
    <2>1. request' \in [Requests -> Call]
      BY <1>5, EmptyCopies, ProceedTyped DEF LockForSigning, Pc
    <2>2. document' \in DocumentRow
      BY <1>5
         DEF LockForSigning, SaveDocument, Call, DocumentRow, DocumentStatus,
             Version
    <2> QED BY <1>5, <2>1, <2>2 DEF LockForSigning
  <1>6. ASSUME IssueLink(r)
        PROVE  TypeOK'
    <2>1. request' \in [Requests -> Call]
      BY <1>6, ReturnTyped DEF IssueLink
    <2> QED BY <1>6, <2>1 DEF IssueLink, Known, NobodyPc, CallerIsSigner
  <1>7. ASSUME SaveOpened(r)
        PROVE  TypeOK'
    <2>1. request' \in [Requests -> Call]
      BY <1>7, ReturnTyped DEF SaveOpened
    <2>2. signer' \in [Signers -> SignerRow]
      BY <1>7, <1>w, SignerTyped
         DEF SaveOpened, NobodyPc, Call, SignerRow, SignerStatus, Method
    <2> QED BY <1>7, <2>1, <2>2 DEF SaveOpened
  <1>8. ASSUME SaveMethod(r)
        PROVE  TypeOK'
    <2>1. request' \in [Requests -> Call]
      BY <1>8, ReturnTyped DEF SaveMethod
    <2>2. signer' \in [Signers -> SignerRow]
      BY <1>8, <1>w, SignerTyped
         DEF SaveMethod, NobodyPc, Call, SignerRow, SignerStatus, Method
    <2> QED BY <1>8, <2>1, <2>2 DEF SaveMethod
  <1>9. ASSUME NEW s \in Signers, StartSms(r, s)
        PROVE  TypeOK'
    BY <1>9, EmptyCopies, LoadTyped DEF StartSms, TypeOK, Pc
  <1>10. ASSUME NEW s \in Signers, CompleteSms(r, s)
         PROVE  TypeOK'
    <2>1. RecalculatedStatus(Signed \cup {s}) \in DocumentStatus
      BY DEF RecalculatedStatus, DocumentStatus
    <2>2. (IF document.hash = 0 THEN document.content ELSE document.hash) \in Version
      BY DEF DocumentRow
    <2>3. request' \in [Requests -> Call]
      BY <1>10, <2>1, <2>2, EmptyCopies, DocumentTyped
         DEF CompleteSms, Call, Pc, Counted
    <2> QED BY <1>10, <2>3 DEF CompleteSms, DocumentLockedBy, db
  <1>11. ASSUME SaveSmsMethod(r)
         PROVE  TypeOK'
    <2>1. request' \in [Requests -> Call]
      BY <1>11, ReturnTyped, GotoTyped DEF SaveSmsMethod, Pc
    <2>2. signer' \in [Signers -> SignerRow]
      BY <1>11, <1>w, SignerTyped
         DEF SaveSmsMethod, NobodyPc, Call, SignerRow, SignerStatus, Method
    <2> QED BY <1>11, <2>1, <2>2 DEF SaveSmsMethod
  <1>12. ASSUME DispatchCode(r)
         PROVE  TypeOK'
    <2>1. request' \in [Requests -> Call]
      BY <1>12, GotoTyped DEF DispatchCode, Pc
    <2> QED BY <1>12, <2>1 DEF DispatchCode
  <1>13. ASSUME CodeSent(r)
         PROVE  TypeOK'
    <2>1. request' \in [Requests -> Call]
      BY <1>13, ReturnTyped DEF CodeSent
    <2>2. signer' \in [Signers -> SignerRow]
      BY <1>13, <1>w, SignerTyped
         DEF CodeSent, NobodyPc, Call, SignerRow, SignerStatus, Method
    <2> QED BY <1>13, <2>1, <2>2 DEF CodeSent
  <1>14. ASSUME CommitSms(r)
         PROVE  TypeOK'
    <2>1. request' \in [Requests -> Call]
      BY <1>14, ReturnTyped DEF CommitSms
    <2>2. document' \in DocumentRow
      BY <1>14 DEF CommitSms, Call, DocumentRow, DocumentStatus, Version
    <2>3. signer' \in [Signers -> SignerRow]
      BY <1>14 DEF CommitSms, SignerRow, SignerStatus, Method
    <2>4. signature' \in [Signers -> SignatureRow \cup {None}]
      BY <1>14
         DEF CommitSms, Call, DocumentRow, DocumentStatus, Version,
             SignatureRow, Method
    <2> QED BY <1>14, <2>1, <2>2, <2>3, <2>4 DEF CommitSms
  <1>15. ASSUME NEW s \in Signers, CompleteEcp(r, s)
         PROVE  TypeOK'
    BY <1>15, EmptyCopies, LoadTyped
    DEF CompleteEcp, NoDocument, TypeOK, Pc, DocumentRow, DocumentStatus, Version
  <1>16. ASSUME EcpInvalid(r)
         PROVE  TypeOK'
    <2>1. request' \in [Requests -> Call]
      BY <1>16, ReturnTyped DEF EcpInvalid
    <2>2. PICK s \in Signers : s = request[r].who
      BY <1>16, <1>w DEF EcpInvalid, NobodyPc
    <2>3. [signer[s] EXCEPT !.status = "failed"] \in SignerRow
      BY DEF SignerRow, SignerStatus
    <2>4. signer' \in [Signers -> SignerRow]
      BY <1>16, <2>2, <2>3, SignerTyped DEF EcpInvalid
    <2>5. EcpSignature(r, FALSE) \in SignatureRow
      BY DEF EcpSignature, Call, DocumentRow, SignatureRow, Method
    <2>6. signature' \in [Signers -> SignatureRow \cup {None}]
      BY <1>16, <2>5 DEF EcpInvalid
    <2> QED BY <1>16, <2>1, <2>4, <2>6 DEF EcpInvalid
  <1>17. ASSUME EcpValid(r)
         PROVE  TypeOK'
    <2>1. RecalculatedStatus(Signed \cup {request[r].who}) \in DocumentStatus
      BY DEF RecalculatedStatus, DocumentStatus
    <2>2. request' \in [Requests -> Call]
      BY <1>17, <2>1, ProceedTyped DEF EcpValid, Call, DocumentRow, Pc, Counted
    <2> QED BY <1>17, <2>2 DEF EcpValid, db
  <1>18. ASSUME CommitEcp(r)
         PROVE  TypeOK'
    <2>1. request' \in [Requests -> Call]
      BY <1>18, ReturnTyped DEF CommitEcp
    <2>2. document' \in DocumentRow
      BY <1>18
         DEF CommitEcp, SaveDocument, Call, DocumentRow, DocumentStatus, Version
    <2>3. signer' \in [Signers -> SignerRow]
      BY <1>18 DEF CommitEcp, SignerRow, SignerStatus, Method
    <2>4. signature' \in [Signers -> SignatureRow \cup {None}]
      BY <1>18
         DEF CommitEcp, EcpSignature, Call, DocumentRow, DocumentStatus,
             Version, SignatureRow, Method
    <2> QED BY <1>18, <2>1, <2>2, <2>3, <2>4 DEF CommitEcp
  <1>19. ASSUME DuplicateSignature(r)
         PROVE  TypeOK'
    <2>1. request' \in [Requests -> Call]
      BY <1>19, ReturnTyped DEF DuplicateSignature
    <2> QED BY <1>19, <2>1 DEF DuplicateSignature, db
  <1>20. ASSUME NEW s \in Signers, StartEgov(r, s)
         PROVE  TypeOK'
    BY <1>20, EmptyCopies, LoadTyped DEF StartEgov, TypeOK, Pc
  <1>21. ASSUME NEW s \in Signers, CompleteEgov(r, s)
         PROVE  TypeOK'
    BY <1>21, EmptyCopies, LoadTyped DEF CompleteEgov, TypeOK, Pc
  <1>22. ASSUME SaveEgovMethod(r) \/ SaveEgovStatus(r)
         PROVE  TypeOK'
    <2>1. request' \in [Requests -> Call]
      BY <1>22, GotoTyped, ReturnTyped DEF SaveEgovMethod, SaveEgovStatus, Pc
    <2>2. PICK s \in Signers : s = request[r].who
      BY <1>22, <1>w DEF SaveEgovMethod, SaveEgovStatus, NobodyPc
    <2>3. /\ [signer[s] EXCEPT !.method = "egov_mobile"] \in SignerRow
          /\ [signer[s] EXCEPT !.status = "signing_started"] \in SignerRow
      BY DEF SignerRow, SignerStatus, Method
    <2>4. signer' \in [Signers -> SignerRow]
      BY <1>22, <2>2, <2>3, SignerTyped DEF SaveEgovMethod, SaveEgovStatus
    <2> QED BY <1>22, <2>1, <2>4 DEF SaveEgovMethod, SaveEgovStatus
  <1>37. ASSUME CreateEgovSession(r)
         PROVE  TypeOK'
    <2>1. request' \in [Requests -> Call]
      BY <1>37, GotoTyped, ReturnTyped DEF CreateEgovSession, Pc
    <2> QED BY <1>37, <2>1 DEF CreateEgovSession
  <1>23. ASSUME SaveEgovSignature(r)
         PROVE  TypeOK'
    <2>1. request' \in [Requests -> Call]
      BY <1>23, GotoTyped DEF SaveEgovSignature, Pc
    <2>2. 0 \in Version
      BY SigningAssumption DEF Version
    <2>3. [provider |-> "egov_mobile", valid |-> TRUE, hash |-> 0] \in SignatureRow
      BY <2>2 DEF SignatureRow, Method
    <2>4. signature' \in [Signers -> SignatureRow \cup {None}]
      BY <1>23, <2>3 DEF SaveEgovSignature
    <2> QED BY <1>23, <2>1, <2>4 DEF SaveEgovSignature
  <1>24. ASSUME SaveEgovSigner(r)
         PROVE  TypeOK'
    <2>1. request' \in [Requests -> Call]
      BY <1>24, GotoTyped DEF SaveEgovSigner, Pc
    <2>2. signer' \in [Signers -> SignerRow]
      BY <1>24, <1>w, SignerTyped
         DEF SaveEgovSigner, NobodyPc, Call, SignerRow, SignerStatus, Method
    <2> QED BY <1>24, <2>1, <2>2 DEF SaveEgovSigner
  <1>25. ASSUME CountEgov(r)
         PROVE  TypeOK'
    <2>1. request' \in [Requests -> Call]
      BY <1>25, ProceedTyped
         DEF CountEgov, EgovStatus, Call, DocumentRow, DocumentStatus, Pc,
             Counted
    <2> QED BY <1>25, <2>1 DEF CountEgov, db
  <1>26. ASSUME SaveEgovDocument(r)
         PROVE  TypeOK'
    <2>1. request' \in [Requests -> Call]
      BY <1>26, ReturnTyped DEF SaveEgovDocument
    <2>2. document' \in DocumentRow
      BY <1>26
         DEF SaveEgovDocument, SaveDocument, Call, DocumentRow, DocumentStatus,
             Version
    <2> QED BY <1>26, <2>1, <2>2 DEF SaveEgovDocument
  <1>27. ASSUME OnlyOfficeCallback(r)
         PROVE  TypeOK'
    BY <1>27, EmptyCopies, LoadTyped DEF OnlyOfficeCallback, TypeOK, Pc
  <1>28. ASSUME SaveCallback(r)
         PROVE  TypeOK'
    <2>1. request' \in [Requests -> Call]
      BY <1>28, ReturnTyped DEF SaveCallback
    <2>2. document' \in DocumentRow /\ versions' \in Version
      BY <1>28, NewContentTyped
         DEF SaveCallback, StatusAfterEdit, DocumentRow, DocumentStatus
    <2> QED BY <1>28, <2>1, <2>2 DEF SaveCallback
  <1>29. ASSUME Fill(r)
         PROVE  TypeOK'
    BY <1>29, EmptyCopies, LoadTyped DEF Fill, TypeOK, Pc
  <1>30. ASSUME FillSigners(r)
         PROVE  TypeOK'
    <2>1. request' \in [Requests -> Call]
      BY <1>30, EmptyCopies, ProceedTyped, ReturnTyped DEF FillSigners, Pc
    <2> QED BY <1>30, <2>1, FillWrites DEF FillSigners
  <1>31. ASSUME SaveFillStatus(r)
         PROVE  TypeOK'
    <2>1. request' \in [Requests -> Call]
      BY <1>31, GotoTyped DEF SaveFillStatus, Pc
    <2>2. document' \in DocumentRow
      BY <1>31
         DEF SaveFillStatus, SaveDocument, StatusAfterEdit, Call, DocumentRow,
             DocumentStatus, Version
    <2> QED BY <1>31, <2>1, <2>2 DEF SaveFillStatus
  <1>32. ASSUME RenderDocx(r)
         PROVE  TypeOK'
    <2>1. request' \in [Requests -> Call]
      BY <1>32, ReturnTyped DEF RenderDocx
    <2>2. document' \in DocumentRow /\ versions' \in Version
      BY <1>32, NewContentTyped DEF RenderDocx, DocumentRow, DocumentStatus
    <2> QED BY <1>32, <2>1, <2>2 DEF RenderDocx
  <1>33. ASSUME NEW s \in Signers, AddSigner(r, s)
         PROVE  TypeOK'
    BY <1>33, EmptyCopies, LoadTyped DEF AddSigner, TypeOK, Pc
  <1>34. ASSUME InsertSigner(r)
         PROVE  TypeOK'
    <2>1. request' \in [Requests -> Call]
      BY <1>34, ReturnTyped DEF InsertSigner
    <2>2. signer' \in [Signers -> SignerRow]
      BY <1>34, InsertTyped DEF InsertSigner
    <2>3. late' \subseteq Signers
      BY <1>34 DEF InsertSigner, InsertSigners, MarkLate, CallerIsSigner
    <2> QED BY <1>34, <2>1, <2>2, <2>3 DEF InsertSigner
  <1>35. ASSUME RollBack(r)
         PROVE  TypeOK'
    <2>1. request' \in [Requests -> Call]
      BY <1>35, ReturnTyped DEF RollBack
    <2> QED BY <1>35, <2>1 DEF RollBack, db
  <1>36. ASSUME Refused(r)
         PROVE  TypeOK'
    <2>1. request' \in [Requests -> Call]
      BY <1>36, ReturnTyped DEF Refused
    <2> QED BY <1>36, <2>1 DEF Refused, db
  <1> QED
    BY <1>1, <1>2, <1>3, <1>4, <1>5, <1>6, <1>7, <1>8, <1>9, <1>10, <1>11,
       <1>12, <1>13, <1>14, <1>15, <1>16, <1>17, <1>18, <1>19, <1>20, <1>21,
       <1>22, <1>23, <1>24, <1>25, <1>26, <1>27, <1>28, <1>29, <1>30, <1>31,
       <1>32, <1>33, <1>34, <1>35, <1>36, <1>37 DEF Step, LinkStep, SmsStep,
       EcpStep, EgovStep, EditStep

-----------------------------------------------------------------------------
(* A signer row that is rewritten, but not as absent, changes no roll.      *)
LEMMA RollKept ==
  ASSUME NEW s \in Signers, Known(s), signer'[s].status # "absent",
         \A t \in Signers \ {s} : signer'[t] = signer[t], UNCHANGED late
  PROVE  Roll' = Roll /\ \A t \in Signers : Known(t) => Known(t)'
  BY DEF Known, Roll, Present

(* A step that writes no row respects the others; so does one that writes  *)
(* the document when it may, or a signer, or that takes or drops locks.    *)
LEMMA QuietStep ==
  ASSUME NEW r \in Requests, \A q \in Requests \ {r} : request'[q] = request[q],
         UNCHANGED <<document, signer, signature, late, docLock, signerLock>>
  PROVE  Respects(r)
  BY DEF Respects, Known, Roll, Present

LEMMA DocumentStep ==
  ASSUME NEW r \in Requests, \A q \in Requests \ {r} : request'[q] = request[q],
         UNCHANGED <<signer, signature, late, docLock, signerLock>>,
         docLock = None \/ document' = document,
         document.status # "signed" \/ document' = document
  PROVE  Respects(r)
  BY DEF Respects, Known, Roll, Present

LEMMA SignerStep ==
  ASSUME NEW r \in Requests, \A q \in Requests \ {r} : request'[q] = request[q],
         UNCHANGED <<document, signature, late, docLock, signerLock>>,
         NEW s \in Signers, Known(s), signer'[s].status # "absent",
         \A t \in Signers \ {s} : signer'[t] = signer[t]
  PROVE  Respects(r)
  BY RollKept DEF Respects

LEMMA LockStep ==
  ASSUME NEW r \in Requests, \A q \in Requests \ {r} : request'[q] = request[q],
         UNCHANGED <<document, signer, signature, late>>,
         docLock \in {None, r} \/ docLock' = docLock,
         \A s \in Signers : signerLock[s] \in {None, r} \/ signerLock'[s] = signerLock[s]
  PROVE  Respects(r)
  BY DEF Respects, Known, Roll, Present

(* Every step of a request leaves the others what they rely on.             *)
LEMMA StepRespects ==
  ASSUME IInv, NEW r \in Requests, Step(r)
  PROVE  Respects(r)
  <1> USE DEF At, TypeOK
  <1>t. TypeOK /\ RequestInv(r)
    BY DEF IInv
  <1>w. request[r].pc \notin NobodyPc \cup {"add"} => Known(request[r].who)
    BY <1>t DEF RequestInv, CallerIsSigner
  <1> USE <1>t DEF RequestInv
  <1>1. ASSUME NEW s \in Signers,
               \/ CreateAccessLink(r, s) \/ OpenPage(r, s)
               \/ ChooseMethod(r, s) \/ StartSms(r, s) \/ CompleteEcp(r, s)
               \/ StartEgov(r, s) \/ CompleteEgov(r, s) \/ AddSigner(r, s)
        PROVE  Respects(r)
    BY <1>1, QuietStep DEF CreateAccessLink, OpenPage, ChooseMethod, StartSms,
                           CompleteEcp, StartEgov, CompleteEgov, AddSigner,
                           Load, db
  <1>2. ASSUME \/ FixContentHash(r) \/ LockForSigning(r)
               \/ SaveEgovDocument(r) \/ SaveCallback(r) \/ SaveFillStatus(r)
               \/ RenderDocx(r)
        PROVE  Respects(r)
    BY <1>2, DocumentStep DEF FixContentHash, LockForSigning,
                              SaveEgovDocument, SaveCallback, SaveFillStatus,
                              RenderDocx, SaveDocument, Proceed, Return,
                              NewContent, Goto
  <1>3. ASSUME \/ IssueLink(r) \/ DispatchCode(r) \/ DuplicateSignature(r)
               \/ CountEgov(r) \/ OnlyOfficeCallback(r) \/ Fill(r)
               \/ Refused(r)
        PROVE  Respects(r)
    BY <1>3, QuietStep DEF IssueLink, DispatchCode, DuplicateSignature,
                           CountEgov, OnlyOfficeCallback, Fill, Refused,
                           Return, Goto, Proceed, db, Load
  <1>4. ASSUME SaveOpened(r)
        PROVE  Respects(r)
    <2>1. request[r].who \in Signers /\ Known(request[r].who)
      BY <1>4, <1>w DEF SaveOpened, NobodyPc, Known
    <2>2. /\ signer'[request[r].who].status # "absent"
          /\ \A t \in Signers \ {request[r].who} : signer'[t] = signer[t]
      BY <1>4, <2>1 DEF SaveOpened, SaveSigner, Known, SignerRow
    <2> QED BY <1>4, <2>1, <2>2, SignerStep DEF SaveOpened, Return
  <1>5. ASSUME SaveMethod(r)
        PROVE  Respects(r)
    <2>1. request[r].who \in Signers /\ Known(request[r].who)
      BY <1>5, <1>w DEF SaveMethod, NobodyPc, Known
    <2>2. /\ signer'[request[r].who].status # "absent"
          /\ \A t \in Signers \ {request[r].who} : signer'[t] = signer[t]
      BY <1>5, <2>1
         DEF SaveMethod, SaveSigner, Known, SignerRow, CopyForgesNothing
    <2> QED BY <1>5, <2>1, <2>2, SignerStep
               DEF SaveMethod, CopyForgesNothing, Return
  <1>6. ASSUME NEW s \in Signers, CompleteSms(r, s)
        PROVE  Respects(r)
    BY <1>6, LockStep DEF CompleteSms, db, DocumentLockedBy
  <1>7. ASSUME SaveSmsMethod(r)
        PROVE  Respects(r)
    <2>1. request[r].who \in Signers /\ Known(request[r].who)
      BY <1>7, <1>w DEF SaveSmsMethod, NobodyPc, Known
    <2>2. /\ signer'[request[r].who].status # "absent"
          /\ \A t \in Signers \ {request[r].who} : signer'[t] = signer[t]
      BY <1>7, <2>1 DEF SaveSmsMethod, SaveSigner, Known, SignerRow
    <2> QED BY <1>7, <2>1, <2>2, SignerStep
               DEF SaveSmsMethod, Return, Goto, Proceed
  <1>8. ASSUME CodeSent(r)
        PROVE  Respects(r)
    <2>1. request[r].who \in Signers /\ Known(request[r].who)
      BY <1>8, <1>w DEF CodeSent, NobodyPc, Known
    <2>2. /\ signer'[request[r].who].status # "absent"
          /\ \A t \in Signers \ {request[r].who} : signer'[t] = signer[t]
      BY <1>8, <2>1 DEF CodeSent, SaveSigner, Known, SignerRow
    <2> QED BY <1>8, <2>1, <2>2, SignerStep DEF CodeSent, Return
  <1>9. ASSUME CommitSms(r)
        PROVE  Respects(r)
    <2>1. request[r].who \in Signers /\ Known(request[r].who) /\ signature[request[r].who] = None
      BY <1>9
         DEF CommitSms, CallerIsSigner, LocksProtectCommit, LockingPc, NobodyPc,
             Known
    <2>s. /\ signer'[request[r].who].status # "absent"
          /\ \A t \in Signers \ {request[r].who} : signer'[t] = signer[t]
      BY <1>9, <2>1 DEF CommitSms, SignerRow
    <2>2. Roll' = Roll /\ \A t \in Signers : Known(t) => Known(t)'
      BY <1>9, <2>1, <2>s, RollKept DEF CommitSms
    <2> QED BY <1>9, <2>1, <2>2
               DEF CommitSms, Return, Respects, LocksProtectCommit, LockingPc
  <1>10. ASSUME EcpInvalid(r)
         PROVE  Respects(r)
    <2>1. request[r].who \in Signers /\ Known(request[r].who)
      BY <1>10 DEF EcpInvalid, CallerIsSigner, NobodyPc, Known
    <2>s. /\ signer'[request[r].who].status # "absent"
          /\ \A t \in Signers \ {request[r].who} : signer'[t] = signer[t]
      BY <1>10, <2>1 DEF EcpInvalid, SaveSigner, SignerRow
    <2>2. Roll' = Roll /\ \A t \in Signers : Known(t) => Known(t)'
      BY <1>10, <2>1, <2>s, RollKept DEF EcpInvalid
    <2> QED BY <1>10, <2>1, <2>2
               DEF EcpInvalid, SaveSigner, NoSignatureYet, Return, Respects
  <1>11. ASSUME EcpValid(r)
         PROVE  Respects(r)
    BY <1>11, LockStep DEF EcpValid, Proceed, db
  <1>12. ASSUME CommitEcp(r)
         PROVE  Respects(r)
    <2>1. request[r].who \in Signers /\ Known(request[r].who) /\ signature[request[r].who] = None
      BY <1>12
         DEF CommitEcp, CallerIsSigner, LocksProtectCommit, LockingPc, NobodyPc,
             Known
    <2>s. /\ signer'[request[r].who].status # "absent"
          /\ \A t \in Signers \ {request[r].who} : signer'[t] = signer[t]
      BY <1>12, <2>1 DEF CommitEcp, SignerRow
    <2>2. Roll' = Roll /\ \A t \in Signers : Known(t) => Known(t)'
      BY <1>12, <2>1, <2>s, RollKept DEF CommitEcp
    <2> QED BY <1>12, <2>1, <2>2 DEF CommitEcp, SaveDocument, Return, Respects,
                             LocksProtectCommit, LockingPc
  <1>13. ASSUME SaveEgovMethod(r) \/ SaveEgovStatus(r)
         PROVE  Respects(r)
    <2>1. request[r].who \in Signers /\ Known(request[r].who)
      BY <1>13, <1>w DEF SaveEgovMethod, SaveEgovStatus, NobodyPc, Known
    <2>2. /\ signer'[request[r].who].status # "absent"
          /\ \A t \in Signers \ {request[r].who} : signer'[t] = signer[t]
      BY <1>13, <2>1 DEF SaveEgovMethod, SaveEgovStatus, SaveSigner, Known, SignerRow
    <2> QED BY <1>13, <2>1, <2>2, SignerStep
               DEF SaveEgovMethod, SaveEgovStatus, Return, Goto, Proceed
  <1>19. ASSUME CreateEgovSession(r)
         PROVE  Respects(r)
    BY <1>19, QuietStep DEF CreateEgovSession, Return, Goto, Proceed
  <1>14. ASSUME SaveEgovSignature(r)
         PROVE  Respects(r)
    <2>1. Roll' = Roll /\ \A s \in Signers : Known(s) => Known(s)'
      BY <1>14 DEF SaveEgovSignature, Roll, Present, Known
    <2> QED BY <1>14, <2>1
               DEF SaveEgovSignature, NoSignatureYet, Goto, Proceed, Respects
  <1>15. ASSUME SaveEgovSigner(r)
         PROVE  Respects(r)
    <2>1. request[r].who \in Signers /\ Known(request[r].who)
      BY <1>15, <1>w DEF SaveEgovSigner, NobodyPc, Known
    <2>2. /\ signer'[request[r].who].status # "absent"
          /\ \A t \in Signers \ {request[r].who} : signer'[t] = signer[t]
      BY <1>15, <2>1 DEF SaveEgovSigner, SaveSigner, Known, SignerRow
    <2> QED BY <1>15, <2>1, <2>2, SignerStep DEF SaveEgovSigner, Goto, Proceed
  <1>16. ASSUME FillSigners(r)
         PROVE  Respects(r)
    <2>1. Roll' \subseteq Roll \/ Unsigned
      BY <1>16, FillWrites DEF RollStep
    <2>2. \A s \in Signers : Known(s) => Known(s)'
      BY <1>16, FillWrites DEF Known
    <2> QED BY <1>16, <2>1, <2>2 DEF FillSigners, Proceed, Return, Respects
  <1>17. ASSUME InsertSigner(r)
         PROVE  Respects(r)
    <2>1. Roll' \subseteq Roll \/ Unsigned
      BY <1>17
         DEF InsertSigner, InsertSigners, MarkLate, Unsigned, Roll, Present
    <2>2. \A s \in Signers : Known(s) => Known(s)'
      BY <1>17 DEF InsertSigner, InsertSigners, NoSigner, Known
    <2> QED BY <1>17, <2>1, <2>2 DEF InsertSigner, Return, Respects
  <1>18. ASSUME RollBack(r)
         PROVE  Respects(r)
    BY <1>18, LockStep DEF RollBack, Return, db
  <1> QED
    BY <1>1, <1>2, <1>3, <1>4, <1>5, <1>6, <1>7, <1>8, <1>9, <1>10, <1>11,
       <1>12, <1>13, <1>14, <1>15, <1>16, <1>17, <1>18, <1>19 DEF Step, LinkStep,
       SmsStep, EcpStep, EgovStep, EditStep

-----------------------------------------------------------------------------
(* A request that has returned relies on nothing.                          *)
LEMMA IdleKeeps ==
  ASSUME TypeOK, NEW r \in Requests, request' = [request EXCEPT ![r] = Idle]
  PROVE  RequestInv(r)'
  BY
     DEF TypeOK, Idle, RequestInv, CallerIsSigner, CopyForgesNothing,
         LocksProtectCommit,
         EgovHasSignature, CountHolds, NobodyPc, LoadedPc, LockingPc, EgovPc, Counted

(* A signature row is never mistaken for the absence of one.                *)
LEMMA RowIsSignature ==
  ASSUME NEW provider \in Method, NEW hash \in Version
  PROVE  [provider |-> provider, valid |-> TRUE, hash |-> hash] # None
  <1>1. [provider |-> provider, valid |-> TRUE, hash |-> hash] \in SignatureRow
    BY DEF SignatureRow
  <1> QED BY <1>1, NoneIsNoSignature

(* The empty hash.                                                         *)
LEMMA ZeroIsVersion == 0 \in Version
  BY SigningAssumption DEF Version

(* Sealed signers stay sealed, and the roll is closed by the first signature *)
(* or count.                                                               *)
LEMMA SealsStay ==
  ASSUME NEW r \in Requests, Respects(r)
  PROVE  /\ Sealed \subseteq Sealed'
         /\ \A s \in Signers : ValidSignature(s) => ValidSignature(s)'
  BY DEF Respects, Sealed, ValidSignature

(* What a request relies on survives the steps of the others.              *)
LEMMA OthersKeep ==
  ASSUME IInv, NEW r \in Requests, Respects(r), NEW q \in Requests \ {r}
  PROVE  RequestInv(q)'
  <1>1. RequestInv(q) /\ request'[q] = request[q] /\ q # r
    BY DEF IInv, Respects
  <1>2. CallerIsSigner(q)'
    BY <1>1 DEF RequestInv, CallerIsSigner, Respects, Known
  <1>3. CopyForgesNothing(q)'
    BY <1>1 DEF RequestInv, CopyForgesNothing, Respects
  <1>4. LocksProtectCommit(q)'
    BY <1>1, SigningAssumption
       DEF RequestInv, LocksProtectCommit, CallerIsSigner, Known, NobodyPc, LockingPc, Respects
  <1>5. EgovHasSignature(q)'
    BY <1>1, SealsStay
       DEF RequestInv, EgovHasSignature, CallerIsSigner, Known, NobodyPc, EgovPc
  <1>6. CountHolds(q)'
    BY <1>1, SealsStay DEF RequestInv, CountHolds, Respects, Unsigned
  <1> QED BY <1>2, <1>3, <1>4, <1>5, <1>6 DEF RequestInv

(* ... and the request itself with what its next step relies on.           *)
LEMMA StepOwn ==
  ASSUME IInv, NEW r \in Requests, Step(r)
  PROVE  RequestInv(r)'
  <1> USE DEF At, TypeOK
  <1>t. TypeOK /\ RequestInv(r) /\ LinksAreForSigners /\ SignedSignerHasSignature
    BY DEF IInv
  <1>s. Respects(r)
    BY StepRespects
  <1> USE <1>t DEF RequestInv
  <1>1. ASSUME NEW s \in Signers, CreateAccessLink(r, s)
        PROVE  RequestInv(r)'
    BY <1>1 DEF CreateAccessLink, Load, db, LinksAreForSigners, Known,
       CallerIsSigner, CopyForgesNothing, LocksProtectCommit, EgovHasSignature, CountHolds,
       NobodyPc, LoadedPc, LockingPc, EgovPc, Counted
  <1>2. ASSUME NEW s \in Signers, OpenPage(r, s)
        PROVE  RequestInv(r)'
    BY <1>2 DEF OpenPage, Load, db, LinksAreForSigners, Known,
       CallerIsSigner, CopyForgesNothing, LocksProtectCommit, EgovHasSignature, CountHolds,
       NobodyPc, LoadedPc, LockingPc, EgovPc, Counted
  <1>3. ASSUME NEW s \in Signers, ChooseMethod(r, s)
        PROVE  RequestInv(r)'
    BY <1>3 DEF ChooseMethod, Load, db, LinksAreForSigners, Known,
       CallerIsSigner, CopyForgesNothing, LocksProtectCommit, EgovHasSignature, CountHolds,
       NobodyPc, LoadedPc, LockingPc, EgovPc, Counted
  <1>4. ASSUME FixContentHash(r)
        PROVE  RequestInv(r)'
    BY <1>4 DEF FixContentHash, SaveDocument, Proceed, Known,
       CallerIsSigner, CopyForgesNothing, LocksProtectCommit, EgovHasSignature, CountHolds,
       NobodyPc, LoadedPc, LockingPc, EgovPc, Counted
  <1>5. ASSUME LockForSigning(r)
        PROVE  RequestInv(r)'
    BY <1>5 DEF LockForSigning, SaveDocument, Proceed, Known,
       CallerIsSigner, CopyForgesNothing, LocksProtectCommit, EgovHasSignature, CountHolds,
       NobodyPc, LoadedPc, LockingPc, EgovPc, Counted
  <1>6. ASSUME \/ IssueLink(r) \/ SaveOpened(r) \/ SaveMethod(r)
               \/ CodeSent(r) \/ CommitSms(r) \/ EcpInvalid(r) \/ CommitEcp(r)
               \/ DuplicateSignature(r) \/ SaveEgovStatus(r)
               \/ SaveEgovDocument(r) \/ SaveCallback(r) \/ RenderDocx(r)
               \/ InsertSigner(r) \/ RollBack(r) \/ Refused(r)
        PROVE  RequestInv(r)'
    BY <1>6, IdleKeeps DEF IssueLink, SaveOpened, SaveMethod, CodeSent,
                           CommitSms, EcpInvalid, CommitEcp,
                           DuplicateSignature, SaveEgovStatus,
                           SaveEgovDocument, SaveCallback, RenderDocx,
                           InsertSigner, RollBack, Refused, Return
  <1>7. ASSUME NEW s \in Signers, StartSms(r, s)
        PROVE  RequestInv(r)'
    BY <1>7 DEF StartSms, Load, db, LinksAreForSigners, Known,
       CallerIsSigner, CopyForgesNothing, LocksProtectCommit, EgovHasSignature, CountHolds,
       NobodyPc, LoadedPc, LockingPc, EgovPc, Counted
  <1>8. ASSUME NEW s \in Signers, CompleteSms(r, s)
        PROVE  RequestInv(r)'
    <2>1. RecalculatedStatus(Signed \cup {s}) = "signed" => Roll \subseteq Sealed \cup {s}
      BY DEF RecalculatedStatus, Roll, IInv, SignedSignerHasSignature
    <2> QED BY <1>8, <2>1
               DEF CompleteSms, DocumentLockedBy, MaySign, ContentHashMatches,
               LinksAreForSigners, Known, db, DocumentRow,
               CallerIsSigner, CopyForgesNothing, LocksProtectCommit, EgovHasSignature, CountHolds,
               NobodyPc, LoadedPc, LockingPc, EgovPc, Counted, Roll, Present, Sealed, ValidSignature
  <1>9. ASSUME SaveSmsMethod(r)
        PROVE  RequestInv(r)'
    <2>1. CASE Return(r)
      BY <2>1, IdleKeeps DEF Return
    <2>2. CASE Goto(r, IF request[r].doc.hash = 0 THEN "sms_fix" ELSE "sms_lock")
      <3>1. PICK s \in Signers : s = request[r].who /\ Known(s) /\ Known(s)'
        BY <1>9, <1>s
           DEF SaveSmsMethod, Respects, CallerIsSigner, NobodyPc, Known
      <3> QED BY <1>9, <2>2, <3>1 DEF SaveSmsMethod, Goto, Proceed,
             CallerIsSigner, CopyForgesNothing, LocksProtectCommit, EgovHasSignature, CountHolds,
             NobodyPc, LoadedPc, LockingPc, EgovPc, Counted
    <2> QED BY <1>9, <2>1, <2>2 DEF SaveSmsMethod
  <1>24. ASSUME SaveEgovMethod(r) \/ CreateEgovSession(r)
         PROVE  RequestInv(r)'
    <2>1. CASE Return(r)
      BY <2>1, IdleKeeps DEF Return
    <2>2. CASE Goto(r, "egov_session") \/ Goto(r, "egov_status")
      <3>1. PICK s \in Signers : s = request[r].who /\ Known(s) /\ Known(s)'
        BY <1>24, <1>s
           DEF SaveEgovMethod, CreateEgovSession, Respects, CallerIsSigner, NobodyPc, Known
      <3> QED BY <2>2, <3>1 DEF Goto, Proceed,
             CallerIsSigner, CopyForgesNothing, LocksProtectCommit, EgovHasSignature, CountHolds,
             NobodyPc, LoadedPc, LockingPc, EgovPc, Counted
    <2> QED BY <1>24, <2>1, <2>2 DEF SaveEgovMethod, CreateEgovSession
  <1>10. ASSUME DispatchCode(r)
         PROVE  RequestInv(r)'
    BY <1>10 DEF DispatchCode, Goto, Proceed, Known,
       CallerIsSigner, CopyForgesNothing, LocksProtectCommit, EgovHasSignature, CountHolds,
       NobodyPc, LoadedPc, LockingPc, EgovPc, Counted
  <1>11. ASSUME NEW s \in Signers, CompleteEcp(r, s)
         PROVE  RequestInv(r)'
    BY <1>11 DEF CompleteEcp, Load, db, LinksAreForSigners, Known,
       CallerIsSigner, CopyForgesNothing, LocksProtectCommit, EgovHasSignature, CountHolds,
       NobodyPc, LoadedPc, LockingPc, EgovPc, Counted
  <1>12. ASSUME EcpValid(r)
         PROVE  RequestInv(r)'
    <2>1. RecalculatedStatus(Signed \cup {request[r].who}) = "signed"
            => Roll \subseteq Sealed \cup {request[r].who}
      BY DEF RecalculatedStatus, Roll, IInv, SignedSignerHasSignature
    <2>2. Known(request[r].who)
      BY <1>12 DEF EcpValid, CallerIsSigner, NobodyPc
    <2> QED BY <1>12, <2>1, <2>2
               DEF EcpValid, Proceed, NoSignatureYet, Known, db, Call,
                   DocumentRow,
               CallerIsSigner, CopyForgesNothing, LocksProtectCommit, EgovHasSignature, CountHolds,
               NobodyPc, LoadedPc, LockingPc, EgovPc, Counted, Roll, Present, Sealed, ValidSignature
  <1>13. ASSUME NEW s \in Signers, StartEgov(r, s)
         PROVE  RequestInv(r)'
    BY <1>13 DEF StartEgov, Load, db, LinksAreForSigners, Known,
       CallerIsSigner, CopyForgesNothing, LocksProtectCommit, EgovHasSignature, CountHolds,
       NobodyPc, LoadedPc, LockingPc, EgovPc, Counted
  <1>14. ASSUME NEW s \in Signers, CompleteEgov(r, s)
         PROVE  RequestInv(r)'
    BY <1>14 DEF CompleteEgov, Load, db, LinksAreForSigners, Known,
       CallerIsSigner, CopyForgesNothing, LocksProtectCommit, EgovHasSignature, CountHolds,
       NobodyPc, LoadedPc, LockingPc, EgovPc, Counted
  <1>15. ASSUME SaveEgovSignature(r)
         PROVE  RequestInv(r)'
    <2>1. PICK s \in Signers : s = request[r].who /\ Known(s)
      BY <1>15 DEF SaveEgovSignature, CallerIsSigner, NobodyPc, Known
    <2>2. signature'[s] = [provider |-> "egov_mobile", valid |-> TRUE, hash |-> 0]
      BY <1>15, <2>1 DEF SaveEgovSignature
    <2>3. ValidSignature(s)'
      BY <2>2, RowIsSignature, ZeroIsVersion DEF ValidSignature, Method
    <2> QED BY <1>15, <2>1, <2>3 DEF SaveEgovSignature, Goto, Proceed, Known,
               CallerIsSigner, CopyForgesNothing, LocksProtectCommit, EgovHasSignature, CountHolds,
               NobodyPc, LoadedPc, LockingPc, EgovPc, Counted
  <1>16. ASSUME SaveEgovSigner(r)
         PROVE  RequestInv(r)'
    <2>1. PICK s \in Signers : s = request[r].who /\ Known(s)
      BY <1>16 DEF CallerIsSigner, NobodyPc, Known, SaveEgovSigner
    <2>2. Known(s)'
      BY <2>1, <1>s DEF Respects
    <2> QED BY <1>16, <2>1, <2>2
               DEF SaveEgovSigner, Goto, Proceed, ValidSignature,
               CallerIsSigner, CopyForgesNothing, LocksProtectCommit, EgovHasSignature, CountHolds,
               NobodyPc, LoadedPc, LockingPc, EgovPc, Counted
  <1>17. ASSUME CountEgov(r)
         PROVE  RequestInv(r)'
    <2>1. EgovStatus = "signed" => Roll \subseteq Sealed
      BY DEF EgovStatus, Roll, IInv, SignedSignerHasSignature
    <2>2. Known(request[r].who)
      BY <1>17 DEF CountEgov, CallerIsSigner, NobodyPc
    <2> QED BY <1>17, <2>1, <2>2
               DEF CountEgov, Proceed, Known, db, Call, DocumentRow,
               CallerIsSigner, CopyForgesNothing, LocksProtectCommit, EgovHasSignature, CountHolds,
               NobodyPc, LoadedPc, LockingPc, EgovPc, Counted, Roll, Present, Sealed, ValidSignature
  <1>18. ASSUME OnlyOfficeCallback(r)
         PROVE  RequestInv(r)'
    BY <1>18 DEF OnlyOfficeCallback, Load, db, LinksAreForSigners, Known,
       CallerIsSigner, CopyForgesNothing, LocksProtectCommit, EgovHasSignature, CountHolds,
       NobodyPc, LoadedPc, LockingPc, EgovPc, Counted
  <1>19. ASSUME Fill(r)
         PROVE  RequestInv(r)'
    BY <1>19 DEF Fill, Load, db, LinksAreForSigners, Known,
       CallerIsSigner, CopyForgesNothing, LocksProtectCommit, EgovHasSignature, CountHolds,
       NobodyPc, LoadedPc, LockingPc, EgovPc, Counted
  <1>20. ASSUME FillSigners(r)
         PROVE  RequestInv(r)'
    <2>1. CASE Return(r)
      BY <2>1, IdleKeeps DEF Return
    <2>2. CASE Proceed(r, "fill_status", NoDocument)
      BY <2>2 DEF Proceed,
         CallerIsSigner, CopyForgesNothing, LocksProtectCommit, EgovHasSignature, CountHolds,
         NobodyPc, LoadedPc, LockingPc, EgovPc, Counted
    <2> QED BY <1>20, <2>1, <2>2 DEF FillSigners
  <1>21. ASSUME SaveFillStatus(r)
         PROVE  RequestInv(r)'
    BY <1>21 DEF SaveFillStatus, Goto, Proceed,
       CallerIsSigner, CopyForgesNothing, LocksProtectCommit, EgovHasSignature, CountHolds,
       NobodyPc, LoadedPc, LockingPc, EgovPc, Counted
  <1>22. ASSUME NEW s \in Signers, AddSigner(r, s)
         PROVE  RequestInv(r)'
    BY <1>22 DEF AddSigner, Load, db, LinksAreForSigners, Known,
       CallerIsSigner, CopyForgesNothing, LocksProtectCommit, EgovHasSignature, CountHolds,
       NobodyPc, LoadedPc, LockingPc, EgovPc, Counted
  <1> QED
    BY <1>1, <1>2, <1>3, <1>4, <1>5, <1>6, <1>7, <1>8, <1>9, <1>10, <1>11,
       <1>12, <1>13, <1>14, <1>15, <1>16, <1>17, <1>18, <1>19, <1>20, <1>21,
       <1>22, <1>24 DEF Step, LinkStep, SmsStep, EcpStep, EgovStep, EditStep

-----------------------------------------------------------------------------
(* Nobody becomes signed without a signature.                              *)
LEMMA StillSigned ==
  ASSUME TypeOK, SignedSignerHasSignature, LinksAreForSigners, NEW r \in Requests, Respects(r),
         \A t \in Signers : signer'[t].status = "signed"
           => signer[t].status = "signed" \/ ValidSignature(t)',
         linked' = linked,
         \A t \in Signers : sessions'[t] # {} => sessions[t] # {} \/ Known(t)
  PROVE  SignedSignerHasSignature' /\ LinksAreForSigners'
  <1>1. SignedSignerHasSignature'
    BY SealsStay DEF SignedSignerHasSignature, Signed, Sealed
  <1>2. LinksAreForSigners'
    BY DEF LinksAreForSigners, Respects, TypeOK
  <1> QED BY <1>1, <1>2

(* Nothing changes for signers whose rows do not.                          *)
LEMMA SameSigners ==
  ASSUME SignedSignerHasSignature, LinksAreForSigners,
         UNCHANGED <<signer, signature, linked, sessions>>
  PROVE  SignedSignerHasSignature' /\ LinksAreForSigners'
  BY
     DEF SignedSignerHasSignature, LinksAreForSigners, Known, Signed, Sealed,
         ValidSignature

(* Signers who have signed have signatures after every step.                *)
LEMMA StepSigners ==
  ASSUME IInv, NEW r \in Requests, Step(r)
  PROVE  SignedSignerHasSignature' /\ LinksAreForSigners'
  <1> USE DEF At, TypeOK
  <1>t. TypeOK /\ RequestInv(r) /\ LinksAreForSigners /\ SignedSignerHasSignature
    BY DEF IInv
  <1>s. Respects(r)
    BY StepRespects
  <1> USE <1>t DEF RequestInv
  <1>1. ASSUME NEW s \in Signers,
               \/ CreateAccessLink(r, s) \/ OpenPage(r, s)
               \/ ChooseMethod(r, s) \/ StartSms(r, s) \/ CompleteSms(r, s)
               \/ CompleteEcp(r, s) \/ StartEgov(r, s) \/ CompleteEgov(r, s)
               \/ AddSigner(r, s)
        PROVE  SignedSignerHasSignature' /\ LinksAreForSigners'
    BY <1>1, SameSigners DEF CreateAccessLink, OpenPage, ChooseMethod,
                             StartSms, CompleteSms, CompleteEcp, StartEgov,
                             CompleteEgov, AddSigner, Load, db
  <1>2. ASSUME \/ FixContentHash(r) \/ LockForSigning(r) \/ EcpValid(r)
               \/ DuplicateSignature(r) \/ CountEgov(r) \/ SaveEgovDocument(r)
               \/ OnlyOfficeCallback(r) \/ SaveCallback(r) \/ Fill(r)
               \/ SaveFillStatus(r) \/ RenderDocx(r) \/ RollBack(r)
               \/ Refused(r)
        PROVE  SignedSignerHasSignature' /\ LinksAreForSigners'
    BY <1>2, SameSigners DEF FixContentHash, LockForSigning, EcpValid,
                             DuplicateSignature, CountEgov, SaveEgovDocument,
                             OnlyOfficeCallback, SaveCallback, Fill,
                             SaveFillStatus, RenderDocx, RollBack, Refused,
                             db, Load
  <1>3. ASSUME IssueLink(r)
        PROVE  SignedSignerHasSignature' /\ LinksAreForSigners'
    <2>1. request[r].who \in Signers /\ Known(request[r].who)
      BY <1>3 DEF IssueLink, CallerIsSigner, NobodyPc, Known
    <2> QED BY <1>3, <2>1
               DEF IssueLink, LinksAreForSigners, SignedSignerHasSignature,
                   Known,
               Signed, Sealed, ValidSignature
  <1>4. ASSUME SaveOpened(r)
        PROVE  SignedSignerHasSignature' /\ LinksAreForSigners'
    <2>1. PICK s \in Signers : s = request[r].who /\ Known(s)
      BY <1>4 DEF SaveOpened, CallerIsSigner, NobodyPc, Known
    <2>2. \A t \in Signers : signer'[t].status = "signed" => signer[t].status = "signed"
      BY <1>4, <2>1 DEF SaveOpened, SaveSigner, SignerRow
    <2>5. linked' = linked /\ \A t \in Signers : sessions'[t] # {} => sessions[t] # {} \/ Known(t)
      BY <1>4, <2>1 DEF SaveOpened
    <2> QED BY <2>1, <2>2, <2>5, <1>s, StillSigned DEF ValidSignature
  <1>5. ASSUME SaveMethod(r)
        PROVE  SignedSignerHasSignature' /\ LinksAreForSigners'
    <2>1. PICK s \in Signers : s = request[r].who /\ Known(s)
      BY <1>5 DEF SaveMethod, CallerIsSigner, NobodyPc, Known
    <2>2. \A t \in Signers : signer'[t].status = "signed" => signer[t].status = "signed"
      BY <1>5, <2>1 DEF SaveMethod, SaveSigner, CopyForgesNothing, SignerRow
    <2>5. linked' = linked /\ \A t \in Signers : sessions'[t] # {} => sessions[t] # {} \/ Known(t)
      BY <1>5, <2>1 DEF SaveMethod
    <2> QED BY <2>1, <2>2, <2>5, <1>s, StillSigned DEF ValidSignature
  <1>6. ASSUME SaveSmsMethod(r)
        PROVE  SignedSignerHasSignature' /\ LinksAreForSigners'
    <2>1. PICK s \in Signers : s = request[r].who /\ Known(s)
      BY <1>6 DEF SaveSmsMethod, CallerIsSigner, NobodyPc, Known
    <2>2. \A t \in Signers : signer'[t].status = "signed" => signer[t].status = "signed"
      <3>1. CASE UNCHANGED signer
        BY <3>1
      <3>2. CASE SaveSigner(s, [signer[s] EXCEPT !.method = "sms"])
        BY <3>2, <2>1 DEF SaveSigner, SignerRow
      <3> QED BY <1>6, <2>1, <3>1, <3>2 DEF SaveSmsMethod
    <2>5. linked' = linked /\ \A t \in Signers : sessions'[t] # {} => sessions[t] # {} \/ Known(t)
      BY <1>6, <2>1 DEF SaveSmsMethod
    <2> QED BY <2>1, <2>2, <2>5, <1>s, StillSigned DEF ValidSignature
  <1>7. ASSUME DispatchCode(r)
        PROVE  SignedSignerHasSignature' /\ LinksAreForSigners'
    <2>1. request[r].who \in Signers /\ Known(request[r].who)
      BY <1>7 DEF DispatchCode, CallerIsSigner, NobodyPc, Known
    <2> QED BY <1>7, <2>1
               DEF DispatchCode, LinksAreForSigners, SignedSignerHasSignature,
                   Known,
               Signed, Sealed, ValidSignature
  <1>8. ASSUME CodeSent(r)
        PROVE  SignedSignerHasSignature' /\ LinksAreForSigners'
    <2>1. PICK s \in Signers : s = request[r].who /\ Known(s)
      BY <1>8 DEF CodeSent, CallerIsSigner, NobodyPc, Known
    <2>2. \A t \in Signers : signer'[t].status = "signed" => signer[t].status = "signed"
      BY <1>8, <2>1 DEF CodeSent, SaveSigner, SignerRow
    <2>5. linked' = linked /\ \A t \in Signers : sessions'[t] # {} => sessions[t] # {} \/ Known(t)
      BY <1>8, <2>1 DEF CodeSent
    <2> QED BY <2>1, <2>2, <2>5, <1>s, StillSigned DEF ValidSignature
  <1>9. ASSUME CommitSms(r)
        PROVE  SignedSignerHasSignature' /\ LinksAreForSigners'
    <2>1. PICK s \in Signers : s = request[r].who /\ Known(s)
      BY <1>9 DEF CommitSms, CallerIsSigner, NobodyPc, Known
    <2>2. \A t \in Signers : signer'[t].status = "signed"
            => t = s \/ signer[t].status = "signed"
      BY <1>9, <2>1 DEF CommitSms
    <2>3. signature'[s] =
            [provider |-> "sms", valid |-> TRUE, hash |-> request[r].doc.hash]
      BY <1>9, <2>1 DEF CommitSms
    <2>4. ValidSignature(s)'
      BY <2>3, RowIsSignature DEF ValidSignature, Method, Call, DocumentRow
    <2>5. linked' = linked /\ \A t \in Signers : sessions'[t] # {} => sessions[t] # {} \/ Known(t)
      BY <1>9, <2>1 DEF CommitSms
    <2> QED BY <2>1, <2>2, <2>4, <2>5, <1>s, StillSigned DEF ValidSignature
  <1>10. ASSUME EcpInvalid(r)
         PROVE  SignedSignerHasSignature' /\ LinksAreForSigners'
    <2>1. PICK s \in Signers : s = request[r].who /\ Known(s)
      BY <1>10 DEF EcpInvalid, CallerIsSigner, NobodyPc, Known
    <2>2. \A t \in Signers : signer'[t].status = "signed" => signer[t].status = "signed"
      BY <1>10, <2>1 DEF EcpInvalid, SaveSigner, SignerRow
    <2>5. linked' = linked /\ \A t \in Signers : sessions'[t] # {} => sessions[t] # {} \/ Known(t)
      BY <1>10, <2>1 DEF EcpInvalid
    <2> QED BY <2>1, <2>2, <2>5, <1>s, StillSigned DEF ValidSignature
  <1>11. ASSUME CommitEcp(r)
         PROVE  SignedSignerHasSignature' /\ LinksAreForSigners'
    <2>1. PICK s \in Signers : s = request[r].who /\ Known(s)
      BY <1>11 DEF CommitEcp, CallerIsSigner, NobodyPc, Known
    <2>2. \A t \in Signers : signer'[t].status = "signed"
            => t = s \/ signer[t].status = "signed"
      BY <1>11, <2>1 DEF CommitEcp
    <2>3. signature'[s] =
            [provider |-> "ecp", valid |-> TRUE, hash |-> request[r].doc.hash]
      BY <1>11, <2>1 DEF CommitEcp, EcpSignature
    <2>4. ValidSignature(s)'
      BY <2>3, RowIsSignature DEF ValidSignature, Method, Call, DocumentRow
    <2>5. linked' = linked /\ \A t \in Signers : sessions'[t] # {} => sessions[t] # {} \/ Known(t)
      BY <1>11, <2>1 DEF CommitEcp
    <2> QED BY <2>1, <2>2, <2>4, <2>5, <1>s, StillSigned DEF ValidSignature
  <1>12. ASSUME SaveEgovMethod(r) \/ CreateEgovSession(r) \/ SaveEgovStatus(r)
         PROVE  SignedSignerHasSignature' /\ LinksAreForSigners'
    <2>1. PICK s \in Signers : s = request[r].who /\ Known(s)
      BY <1>12 DEF SaveEgovMethod, CreateEgovSession, SaveEgovStatus, CallerIsSigner,
                   NobodyPc, Known
    <2>2. \A t \in Signers : signer'[t].status = "signed" => signer[t].status = "signed"
      <3>1. CASE UNCHANGED signer
        BY <3>1
      <3>2. CASE SaveSigner(s, [signer[s] EXCEPT !.method = "egov_mobile"])
        BY <3>2, <2>1 DEF SaveSigner, SignerRow
      <3>3. CASE SaveSigner(s, [signer[s] EXCEPT !.status = "signing_started"])
        BY <3>3, <2>1 DEF SaveSigner, SignerRow
      <3> QED BY <1>12, <2>1, <3>1, <3>2, <3>3
              DEF SaveEgovMethod, CreateEgovSession, SaveEgovStatus
    <2>5. linked' = linked /\ \A t \in Signers : sessions'[t] # {} => sessions[t] # {} \/ Known(t)
      BY <1>12, <2>1 DEF SaveEgovMethod, CreateEgovSession, SaveEgovStatus
    <2> QED BY <2>1, <2>2, <2>5, <1>s, StillSigned DEF ValidSignature
  <1>13. ASSUME SaveEgovSignature(r)
         PROVE  SignedSignerHasSignature' /\ LinksAreForSigners'
    <2>1. PICK s \in Signers : s = request[r].who /\ Known(s)
      BY <1>13 DEF SaveEgovSignature, CallerIsSigner, NobodyPc, Known
    <2>2. \A t \in Signers : signer'[t].status = "signed" => signer[t].status = "signed"
      BY <1>13, <2>1 DEF SaveEgovSignature, SignerRow
    <2>5. linked' = linked /\ \A t \in Signers : sessions'[t] # {} => sessions[t] # {} \/ Known(t)
      BY <1>13, <2>1 DEF SaveEgovSignature
    <2> QED BY <2>1, <2>2, <2>5, <1>s, StillSigned DEF ValidSignature
  <1>14. ASSUME SaveEgovSigner(r)
         PROVE  SignedSignerHasSignature' /\ LinksAreForSigners'
    <2>1. PICK s \in Signers : s = request[r].who /\ Known(s)
      BY <1>14 DEF SaveEgovSigner, CallerIsSigner, NobodyPc, Known
    <2>2. \A t \in Signers : signer'[t].status = "signed"
            => t = s \/ signer[t].status = "signed"
      BY <1>14, <2>1 DEF SaveEgovSigner, SaveSigner
    <2>4. ValidSignature(s)'
      BY <1>14, <2>1, <1>s, SealsStay
         DEF SaveEgovSigner, EgovHasSignature, EgovPc
    <2>5. linked' = linked /\ \A t \in Signers : sessions'[t] # {} => sessions[t] # {} \/ Known(t)
      BY <1>14, <2>1 DEF SaveEgovSigner
    <2> QED BY <2>1, <2>2, <2>4, <2>5, <1>s, StillSigned DEF ValidSignature
  <1>15. ASSUME FillSigners(r)
         PROVE  SignedSignerHasSignature' /\ LinksAreForSigners'
    <2>1. \A t \in Signers : signer'[t].status = "signed" => signer[t].status = "signed"
      BY <1>15, FillWrites
    <2> QED BY <1>15, <2>1, <1>s, StillSigned DEF FillSigners
  <1>16. ASSUME InsertSigner(r)
         PROVE  SignedSignerHasSignature' /\ LinksAreForSigners'
    <2>2. \A t \in Signers : signer'[t].status = "signed" => signer[t].status = "signed"
      BY <1>16 DEF InsertSigner, InsertSigners, NoSigner, SignerRow
    <2> QED BY <1>16, <2>2, <1>s, StillSigned DEF InsertSigner
  <1> QED
    BY <1>1, <1>2, <1>3, <1>4, <1>5, <1>6, <1>7, <1>8, <1>9, <1>10, <1>11,
       <1>12, <1>13, <1>14, <1>15, <1>16 DEF Step, LinkStep, SmsStep,
       EcpStep, EgovStep, EditStep

-----------------------------------------------------------------------------
BecomesSigned == document.status # "signed" /\ document'.status = "signed"

(* The document becomes signed only when everybody on the roll has sealed.   *)
LEMMA StepSignsWhenComplete ==
  ASSUME IInv, NEW r \in Requests, Step(r)
  PROVE  BecomesSigned => Roll' \subseteq Sealed' /\ Sealed' # {}
  <1> USE DEF At, TypeOK
  <1>t. TypeOK /\ RequestInv(r) /\ LinksAreForSigners /\ SignedSignerHasSignature
    BY DEF IInv
  <1>s. Respects(r)
    BY StepRespects
  <1> USE <1>t DEF RequestInv, BecomesSigned
  <1>1. ASSUME NEW s \in Signers,
               \/ CreateAccessLink(r, s) \/ OpenPage(r, s)
               \/ ChooseMethod(r, s) \/ StartSms(r, s) \/ CompleteSms(r, s)
               \/ CompleteEcp(r, s) \/ StartEgov(r, s) \/ CompleteEgov(r, s)
               \/ AddSigner(r, s)
        PROVE  BecomesSigned => Roll' \subseteq Sealed' /\ Sealed' # {}
    BY <1>1 DEF CreateAccessLink, OpenPage, ChooseMethod, StartSms,
                CompleteSms, CompleteEcp, StartEgov, CompleteEgov, AddSigner,
                Load, db
  <1>2. ASSUME \/ FixContentHash(r) \/ LockForSigning(r) \/ IssueLink(r)
               \/ SaveOpened(r) \/ SaveMethod(r) \/ SaveSmsMethod(r)
               \/ DispatchCode(r) \/ CodeSent(r) \/ EcpInvalid(r)
               \/ EcpValid(r) \/ DuplicateSignature(r) \/ SaveEgovMethod(r)
               \/ CreateEgovSession(r) \/ SaveEgovStatus(r)
               \/ SaveEgovSignature(r) \/ SaveEgovSigner(r) \/ CountEgov(r)
               \/ OnlyOfficeCallback(r) \/ SaveCallback(r) \/ Fill(r)
               \/ FillSigners(r) \/ SaveFillStatus(r) \/ RenderDocx(r)
               \/ InsertSigner(r) \/ RollBack(r) \/ Refused(r)
        PROVE  BecomesSigned => Roll' \subseteq Sealed' /\ Sealed' # {}
    BY <1>2 DEF FixContentHash, LockForSigning, IssueLink, SaveOpened,
                SaveMethod, SaveSmsMethod, DispatchCode, CodeSent, EcpInvalid,
                EcpValid, DuplicateSignature, SaveEgovMethod, CreateEgovSession,
                SaveEgovStatus,
                SaveEgovSignature, SaveEgovSigner, CountEgov,
                OnlyOfficeCallback, SaveCallback, Fill, FillSigners,
                SaveFillStatus, RenderDocx, InsertSigner, RollBack, Refused,
                SaveDocument, DocumentRow, CopyForgesNothing, LoadedPc, db,
                Load, NewContent, StatusAfterEdit
  <1>3. ASSUME CommitSms(r)
        PROVE  BecomesSigned => Roll' \subseteq Sealed' /\ Sealed' # {}
    <2>1. PICK s \in Signers : s = request[r].who /\ Known(s)
      BY <1>3 DEF CommitSms, CallerIsSigner, NobodyPc, Known
    <2>2. BecomesSigned => Roll \subseteq Sealed \cup {s}
      BY <1>3, <2>1 DEF CommitSms, DocumentRow, CountHolds, Counted
    <2>3. signature'[s] = [provider |-> "sms", valid |-> TRUE, hash |-> request[r].doc.hash]
      BY <1>3, <2>1 DEF CommitSms
    <2>4. s \in Sealed'
      BY <2>3, RowIsSignature
         DEF Sealed, ValidSignature, Method, Call, DocumentRow
    <2>5. signer'[s].status # "absent" /\ \A t \in Signers \ {s} : signer'[t] = signer[t]
      BY <1>3, <2>1 DEF CommitSms, SignerRow
    <2>6. Roll' = Roll
      BY <1>3, <2>1, <2>5, RollKept DEF CommitSms
    <2> QED BY <2>2, <2>4, <2>6, <1>s, SealsStay
  <1>4. ASSUME CommitEcp(r)
        PROVE  BecomesSigned => Roll' \subseteq Sealed' /\ Sealed' # {}
    <2>1. PICK s \in Signers : s = request[r].who /\ Known(s)
      BY <1>4 DEF CommitEcp, CallerIsSigner, NobodyPc, Known
    <2>2. BecomesSigned => Roll \subseteq Sealed \cup {s}
      BY <1>4, <2>1
         DEF CommitEcp, SaveDocument, DocumentRow, CountHolds, Counted
    <2>3. signature'[s] = [provider |-> "ecp", valid |-> TRUE, hash |-> request[r].doc.hash]
      BY <1>4, <2>1 DEF CommitEcp, EcpSignature
    <2>4. s \in Sealed'
      BY <2>3, RowIsSignature
         DEF Sealed, ValidSignature, Method, Call, DocumentRow
    <2>5. signer'[s].status # "absent" /\ \A t \in Signers \ {s} : signer'[t] = signer[t]
      BY <1>4, <2>1 DEF CommitEcp, SignerRow
    <2>6. Roll' = Roll
      BY <1>4, <2>1, <2>5, RollKept DEF CommitEcp
    <2> QED BY <2>2, <2>4, <2>6, <1>s, SealsStay
  <1>5. ASSUME SaveEgovDocument(r)
        PROVE  BecomesSigned => Roll' \subseteq Sealed' /\ Sealed' # {}
    <2>1. PICK s \in Signers : s = request[r].who /\ ValidSignature(s)
      BY <1>5
         DEF SaveEgovDocument, CallerIsSigner, EgovHasSignature, NobodyPc,
             EgovPc, Known
    <2>2. BecomesSigned => Roll \subseteq Sealed \cup {s}
      BY <1>5, <2>1
         DEF SaveEgovDocument, SaveDocument, DocumentRow, CountHolds, Counted
    <2>3. Roll' = Roll /\ Sealed' = Sealed /\ s \in Sealed
      BY <1>5, <2>1 DEF SaveEgovDocument, Roll, Present, Sealed, ValidSignature
    <2> QED BY <2>2, <2>3
  <1> QED
    BY <1>1, <1>2, <1>3, <1>4, <1>5 DEF Step, LinkStep, SmsStep, EcpStep,
       EgovStep, EditStep

-----------------------------------------------------------------------------
(* The invariant holds in the initial states and after every step.         *)
LEMMA InitInv == Init => IInv
  <1> SUFFICES ASSUME Init PROVE IInv
    OBVIOUS
  <1>1. TypeOK
    <2>1. 0 \in Version /\ 1 \in Version
      BY SigningAssumption DEF Version
    <2>2. document \in DocumentRow
      <3>1. ASSUME NEW h \in {0, 1}
            PROVE  [status |-> "draft", content |-> 1, hash |-> h, locked |-> FALSE]
                     \in DocumentRow
        BY <2>1, <3>1 DEF DocumentRow, DocumentStatus
      <3>2. [status |-> "waiting_for_signers", content |-> 1, hash |-> 1, locked |-> TRUE]
              \in DocumentRow
        BY <2>1 DEF DocumentRow, DocumentStatus
      <3> QED BY <3>1, <3>2 DEF Init
    <2>3. [NoSigner EXCEPT !.status = "pending"] \in SignerRow
      BY DEF NoSigner, SignerRow, SignerStatus, Method
    <2>4. signer \in [Signers -> SignerRow]
      BY <2>3, EmptyCopies DEF Init
    <2>5. request \in [Requests -> Call]
      BY EmptyCopies DEF Init
    <2>6. linked \subseteq Signers
      BY DEF Init
    <2> QED BY <2>1, <2>2, <2>4, <2>5, <2>6 DEF Init, TypeOK
  <1>2. SignedSignerHasSignature /\ SignedDocumentIsComplete
    BY
       DEF Init, NoSigner, SignedSignerHasSignature, SignedDocumentIsComplete,
           Signed
  <1>3. LinksAreForSigners
    BY DEF Init, NoSigner, LinksAreForSigners, Known
  <1>4. ASSUME NEW r \in Requests
        PROVE  RequestInv(r)
    BY <1>4
       DEF Init, Idle, RequestInv, CallerIsSigner, CopyForgesNothing,
           LocksProtectCommit,
           EgovHasSignature, CountHolds, NobodyPc, LoadedPc, LockingPc, EgovPc, Counted
  <1> QED BY <1>1, <1>2, <1>3, <1>4 DEF IInv

(* The document is complete after every step when it was before.            *)
LEMMA StepComplete ==
  ASSUME IInv, NEW r \in Requests, Respects(r),
         BecomesSigned => Roll' \subseteq Sealed' /\ Sealed' # {}
  PROVE  SignedDocumentIsComplete'
  <1>1. CASE document.status = "signed"
    <2>1. Sealed # {} /\ Roll \subseteq Sealed
      BY <1>1 DEF IInv, SignedDocumentIsComplete
    <2>2. ~Unsigned
      BY <2>1 DEF Unsigned, Sealed, ValidSignature
    <2> QED BY <2>1, <2>2, SealsStay DEF Respects, SignedDocumentIsComplete
  <1>2. CASE document.status # "signed"
    BY <1>2 DEF SignedDocumentIsComplete, BecomesSigned
  <1> QED BY <1>1, <1>2

(* Next is a step of one request.                                          *)
LEMMA NextSteps ==
  ASSUME Next
  PROVE  \E r \in Requests : Step(r)
  BY DEF Step, Next, RefusedCompletion, RefusedSave, Crash

(* ... which respects the others.                                          *)
LEMMA NextRespects ==
  ASSUME IInv, Next
  PROVE  \E r \in Requests : Respects(r)
  BY NextSteps, StepRespects

(* The steps keep the invariant: for the request that moves by StepOwn, for *)
(* the others by OthersKeep.                                               *)
LEMMA NextInv == IInv /\ [Next]_vars => IInv'
  <1> SUFFICES ASSUME IInv, [Next]_vars PROVE IInv'
    OBVIOUS
  <1>1. CASE Next
    <2>1. PICK r \in Requests : Step(r)
      BY <1>1, NextSteps
    <2>2. TypeOK' /\ Respects(r) /\ RequestInv(r)'
      BY <2>1, StepTyped, StepRespects, StepOwn
    <2>3. SignedSignerHasSignature' /\ LinksAreForSigners'
      BY <2>1, StepSigners
    <2>4. SignedDocumentIsComplete'
      BY <2>1, <2>2, StepSignsWhenComplete, StepComplete
    <2>5. \A q \in Requests : RequestInv(q)'
      BY <2>2, OthersKeep
    <2> QED BY <2>2, <2>3, <2>4, <2>5 DEF IInv
  <1>2. CASE UNCHANGED vars
    BY <1>2
       DEF vars, IInv, TypeOK, SignedSignerHasSignature,
           SignedDocumentIsComplete,
           LinksAreForSigners, RequestInv, CallerIsSigner, CopyForgesNothing,
           LocksProtectCommit, EgovHasSignature, CountHolds, Known, Roll, Present, Sealed,
           Signed, ValidSignature
  <1> QED BY <1>1, <1>2

(* IInv is an invariant of the specification.                              *)
LEMMA Invariance == Spec => []IInv
  BY InitInv, NextInv, PTL DEF Spec

(* Every row and every copy of a row has its type, in every interleaving of *)
(* any number of requests about any number of signers.                      *)
THEOREM TypeCorrect == Spec => []TypeOK
  <1>1. IInv => TypeOK
    BY DEF IInv
  <1> QED BY Invariance, <1>1, PTL

(* Nobody is recorded as having signed without a valid signature row.       *)
THEOREM SignersHaveSignatures == Spec => []SignedSignerHasSignature
  <1>1. IInv => SignedSignerHasSignature
    BY DEF IInv
  <1> QED BY Invariance, <1>1, PTL

(* A signed document has been signed by everybody on the roll.              *)
THEOREM SignedMeansComplete == Spec => []SignedDocumentIsComplete
  <1>1. IInv => SignedDocumentIsComplete
    BY DEF IInv
  <1> QED BY Invariance, <1>1, PTL

(* No handler changes a signed document, however old its copy is.           *)
THEOREM SignedStaysUnchanged == Spec => SignedDocumentIsImmutable
  <1>1. IInv /\ [Next]_vars => [document.status = "signed" => UNCHANGED document]_vars
    BY NextRespects DEF Respects, vars
  <1> QED BY Invariance, <1>1, PTL DEF Spec, SignedDocumentIsImmutable

(* No completion replaces or removes a signature that exists.               *)
THEOREM SignaturesStay == Spec => SignaturesAreFinal
  <1>1. IInv /\ [Next]_vars
          => [\A s \in Signers : signature[s] # None => signature'[s] = signature[s]]_vars
    BY NextRespects DEF Respects, vars
  <1> QED BY Invariance, <1>1, PTL DEF Spec, SignaturesAreFinal

-----------------------------------------------------------------------------
(***************************************************************************)
(* Signing implements SignedContract.                                      *)
(***************************************************************************)
ContractStep ==
  \/ /\ Roll' = Roll
     /\ Sealed' = Sealed \/ \E s \in Signers : Sealed' = Sealed \cup {s}
  \/ /\ Unsigned
     /\ \E S \in SUBSET Signers : Roll' = Roll \cup S
     /\ UNCHANGED <<document, signature>>

(* Without a new signature the seals are the same ...                      *)
LEMMA SameSeals ==
  ASSUME UNCHANGED signature
  PROVE  /\ Sealed' = Sealed
         /\ Roll' = Roll => ContractStep
  BY DEF Sealed, ValidSignature, ContractStep

(* ... and without a change of signers the roll is.                        *)
LEMMA SameRoll ==
  ASSUME UNCHANGED <<signer, late>>
  PROVE  Roll' = Roll
  BY DEF Roll, Present

(* A step that leaves both alone is a step of the contract.                *)
LEMMA SameRows ==
  ASSUME UNCHANGED <<signer, signature, late>>
  PROVE  ContractStep
  BY SameSeals, SameRoll

(* One row of the signatures is one seal.                                  *)
LEMMA OneSeal ==
  ASSUME NEW r \in Requests, Respects(r), NEW s \in Signers, Roll' = Roll,
         \A t \in Signers \ {s} : signature'[t] = signature[t]
  PROVE  ContractStep
  <1>1. Sealed \subseteq Sealed' /\ Sealed' \subseteq Sealed \cup {s}
    BY SealsStay DEF Sealed, ValidSignature
  <1>2. Sealed' = Sealed \/ Sealed' = Sealed \cup {s}
    BY <1>1
  <1> QED BY <1>2 DEF ContractStep

(* A signer inserted is on the roll, or late.                              *)
LEMMA Insertion ==
  ASSUME TypeOK, NEW s \in Signers, s \notin Present, InsertSigners({s})
  PROVE  RollStep
  <1>1. Present' = Present \cup {s}
    BY DEF InsertSigners, Present, NoSigner
  <1> QED BY <1>1, Enrolment DEF InsertSigners

(* Every step enrolls, seals, finishes or does nothing.                     *)
LEMMA StepContract ==
  ASSUME IInv, NEW r \in Requests, Step(r)
  PROVE  ContractStep
  <1> USE DEF At, TypeOK
  <1>t. TypeOK /\ RequestInv(r) /\ LinksAreForSigners /\ SignedSignerHasSignature
    BY DEF IInv
  <1>s. Respects(r)
    BY StepRespects
  <1> USE <1>t DEF RequestInv
  <1>1. ASSUME NEW s \in Signers,
               \/ CreateAccessLink(r, s) \/ OpenPage(r, s)
               \/ ChooseMethod(r, s) \/ StartSms(r, s) \/ CompleteSms(r, s)
               \/ CompleteEcp(r, s) \/ StartEgov(r, s) \/ CompleteEgov(r, s)
               \/ AddSigner(r, s)
        PROVE  ContractStep
    BY <1>1, SameRows DEF CreateAccessLink, OpenPage, ChooseMethod, StartSms,
                          CompleteSms, CompleteEcp, StartEgov, CompleteEgov,
                          AddSigner, Load, db
  <1>2. ASSUME \/ FixContentHash(r) \/ LockForSigning(r) \/ IssueLink(r)
               \/ DispatchCode(r) \/ EcpValid(r) \/ DuplicateSignature(r)
               \/ CreateEgovSession(r) \/ CountEgov(r) \/ SaveEgovDocument(r) \/ OnlyOfficeCallback(r)
               \/ SaveCallback(r) \/ Fill(r) \/ SaveFillStatus(r)
               \/ RenderDocx(r) \/ RollBack(r) \/ Refused(r)
        PROVE  ContractStep
    BY <1>2, SameRows DEF FixContentHash, LockForSigning, IssueLink,
                          DispatchCode, EcpValid, DuplicateSignature,
                          CreateEgovSession, CountEgov, SaveEgovDocument, OnlyOfficeCallback,
                          SaveCallback, Fill, SaveFillStatus, RenderDocx,
                          RollBack, Refused, db, Load
  <1>3. ASSUME SaveOpened(r)
        PROVE  ContractStep
    <2>1. PICK s \in Signers : s = request[r].who /\ Known(s)
      BY <1>3 DEF SaveOpened, CallerIsSigner, NobodyPc, Known
    <2>2. signer'[s].status # "absent" /\ \A t \in Signers \ {s} : signer'[t] = signer[t]
      BY <1>3, <2>1 DEF SaveOpened, SaveSigner, Known, SignerRow
    <2> QED BY <1>3, <2>1, <2>2, RollKept, SameSeals DEF SaveOpened
  <1>4. ASSUME SaveMethod(r)
        PROVE  ContractStep
    <2>1. PICK s \in Signers : s = request[r].who /\ Known(s)
      BY <1>4 DEF SaveMethod, CallerIsSigner, NobodyPc, Known
    <2>2. signer'[s].status # "absent" /\ \A t \in Signers \ {s} : signer'[t] = signer[t]
      BY <1>4, <2>1
         DEF SaveMethod, SaveSigner, Known, SignerRow, CopyForgesNothing
    <2> QED BY <1>4, <2>1, <2>2, RollKept, SameSeals DEF SaveMethod
  <1>5. ASSUME SaveSmsMethod(r)
        PROVE  ContractStep
    <2>1. PICK s \in Signers : s = request[r].who /\ Known(s)
      BY <1>5 DEF SaveSmsMethod, CallerIsSigner, NobodyPc, Known
    <2>2. signer'[s].status # "absent" /\ \A t \in Signers \ {s} : signer'[t] = signer[t]
      BY <1>5, <2>1 DEF SaveSmsMethod, SaveSigner, Known, SignerRow
    <2> QED BY <1>5, <2>1, <2>2, RollKept, SameSeals DEF SaveSmsMethod
  <1>6. ASSUME CodeSent(r)
        PROVE  ContractStep
    <2>1. PICK s \in Signers : s = request[r].who /\ Known(s)
      BY <1>6 DEF CodeSent, CallerIsSigner, NobodyPc, Known
    <2>2. signer'[s].status # "absent" /\ \A t \in Signers \ {s} : signer'[t] = signer[t]
      BY <1>6, <2>1 DEF CodeSent, SaveSigner, Known, SignerRow
    <2> QED BY <1>6, <2>1, <2>2, RollKept, SameSeals DEF CodeSent
  <1>7. ASSUME CommitSms(r)
        PROVE  ContractStep
    <2>1. PICK s \in Signers : s = request[r].who /\ Known(s)
      BY <1>7 DEF CommitSms, CallerIsSigner, NobodyPc, Known
    <2>2. signer'[s].status # "absent" /\ \A t \in Signers \ {s} : signer'[t] = signer[t]
      BY <1>7, <2>1 DEF CommitSms, SignerRow
    <2>3. \A t \in Signers \ {s} : signature'[t] = signature[t]
      BY <1>7, <2>1 DEF CommitSms
    <2> QED BY <1>7, <2>1, <2>2, <2>3, <1>s, RollKept, OneSeal DEF CommitSms
  <1>8. ASSUME EcpInvalid(r)
        PROVE  ContractStep
    <2>1. PICK s \in Signers : s = request[r].who /\ Known(s)
      BY <1>8 DEF EcpInvalid, CallerIsSigner, NobodyPc, Known
    <2>2. signer'[s].status # "absent" /\ \A t \in Signers \ {s} : signer'[t] = signer[t]
      BY <1>8, <2>1 DEF EcpInvalid, SaveSigner, SignerRow
    <2>3. \A t \in Signers \ {s} : signature'[t] = signature[t]
      BY <1>8, <2>1 DEF EcpInvalid
    <2> QED BY <1>8, <2>1, <2>2, <2>3, <1>s, RollKept, OneSeal DEF EcpInvalid
  <1>9. ASSUME CommitEcp(r)
        PROVE  ContractStep
    <2>1. PICK s \in Signers : s = request[r].who /\ Known(s)
      BY <1>9 DEF CommitEcp, CallerIsSigner, NobodyPc, Known
    <2>2. signer'[s].status # "absent" /\ \A t \in Signers \ {s} : signer'[t] = signer[t]
      BY <1>9, <2>1 DEF CommitEcp, SignerRow
    <2>3. \A t \in Signers \ {s} : signature'[t] = signature[t]
      BY <1>9, <2>1 DEF CommitEcp
    <2> QED BY <1>9, <2>1, <2>2, <2>3, <1>s, RollKept, OneSeal DEF CommitEcp
  <1>10. ASSUME SaveEgovMethod(r) \/ SaveEgovStatus(r)
         PROVE  ContractStep
    <2>1. PICK s \in Signers : s = request[r].who /\ Known(s)
      BY <1>10 DEF SaveEgovMethod, SaveEgovStatus, CallerIsSigner, NobodyPc, Known
    <2>2. signer'[s].status # "absent" /\ \A t \in Signers \ {s} : signer'[t] = signer[t]
      BY <1>10, <2>1 DEF SaveEgovMethod, SaveEgovStatus, SaveSigner, Known, SignerRow
    <2> QED BY <1>10, <2>1, <2>2, RollKept, SameSeals DEF SaveEgovMethod, SaveEgovStatus
  <1>11. ASSUME SaveEgovSignature(r)
         PROVE  ContractStep
    <2>1. PICK s \in Signers : s = request[r].who /\ Known(s)
      BY <1>11 DEF SaveEgovSignature, CallerIsSigner, NobodyPc, Known
    <2>2. Roll' = Roll
      BY <1>11 DEF SaveEgovSignature, Roll, Present
    <2>3. \A t \in Signers \ {s} : signature'[t] = signature[t]
      BY <1>11, <2>1 DEF SaveEgovSignature
    <2> QED BY <2>1, <2>2, <2>3, <1>s, OneSeal
  <1>12. ASSUME SaveEgovSigner(r)
         PROVE  ContractStep
    <2>1. PICK s \in Signers : s = request[r].who /\ Known(s)
      BY <1>12 DEF SaveEgovSigner, CallerIsSigner, NobodyPc, Known
    <2>2. signer'[s].status # "absent" /\ \A t \in Signers \ {s} : signer'[t] = signer[t]
      BY <1>12, <2>1 DEF SaveEgovSigner, SaveSigner, Known, SignerRow
    <2> QED BY <1>12, <2>1, <2>2, RollKept, SameSeals DEF SaveEgovSigner
  <1>13. ASSUME FillSigners(r)
         PROVE  ContractStep
    <2>1. UNCHANGED <<document, signature>>
      BY <1>13 DEF FillSigners
    <2>2. RollStep
      BY <1>13, FillWrites
    <2> QED BY <2>1, <2>2, SameSeals DEF ContractStep, RollStep
  <1>14. ASSUME InsertSigner(r)
         PROVE  ContractStep
    <2>1. CASE UNCHANGED <<signer, late>>
      BY <1>14, <2>1, SameRows DEF InsertSigner
    <2>2. CASE request[r].who \notin Present /\ InsertSigners({request[r].who})
      <3>0. request[r].pc = "add"
        BY <1>14 DEF InsertSigner
      <3>1. PICK s \in Signers : s = request[r].who
        BY <3>0 DEF CallerIsSigner
      <3> QED BY <1>14, <2>2, <3>1, Insertion, SameSeals
                 DEF InsertSigner, ContractStep, RollStep
    <2> QED BY <1>14, <2>1, <2>2 DEF InsertSigner
  <1> QED
    BY <1>1, <1>2, <1>3, <1>4, <1>5, <1>6, <1>7, <1>8, <1>9, <1>10, <1>11,
       <1>12, <1>13, <1>14 DEF Step, LinkStep, SmsStep, EcpStep, EgovStep,
       EditStep

(* Initial states are initial states of the contract ...                   *)
LEMMA InitContract == Init => Contract!Init
  BY DEF Init, Contract!Init, Roll, Present, Sealed, ValidSignature

(* ... and every step is a step of the contract or a stutter.              *)
LEMMA NextContract == IInv /\ [Next]_vars => [Contract!Next]_(Contract!contract)
  <1> SUFFICES ASSUME IInv, [Next]_vars PROVE [Contract!Next]_(Contract!contract)
    OBVIOUS
  <1>1. CASE Next
    <2>1. PICK r \in Requests : Step(r)
      BY <1>1, NextSteps
    <2>2. ContractStep /\ Respects(r)
      BY <2>1, StepContract, StepRespects
    <2>3. BecomesSigned => Roll' \subseteq Sealed' /\ Sealed' # {}
      BY <2>1, StepSignsWhenComplete
    <2>4. (document'.status = "signed") = (document.status = "signed") \/ BecomesSigned
      BY <2>2 DEF Respects, BecomesSigned
    <2>5. CASE Roll' = Roll /\ Sealed' = Sealed
      BY <2>3, <2>4, <2>5
         DEF BecomesSigned, Contract!Next, Contract!Finish, Contract!MarkFinal, Contract!contract
    <2>6. CASE Roll' = Roll /\ \E s \in Signers : Sealed' = Sealed \cup {s}
      BY <2>3, <2>4, <2>6
         DEF BecomesSigned, Contract!Next, Contract!Seal, Contract!MarkFinal
    <2>7. CASE /\ Unsigned
               /\ \E S \in SUBSET Signers : Roll' = Roll \cup S
               /\ UNCHANGED <<document, signature>>
      <3>1. Sealed = {} /\ Sealed' = Sealed
        BY <2>7, SameSeals DEF Unsigned, Sealed, ValidSignature
      <3> QED BY <2>7, <3>1 DEF Contract!Next, Contract!Enroll
    <2> QED BY <2>2, <2>5, <2>6, <2>7 DEF ContractStep
  <1>2. CASE UNCHANGED vars
    BY <1>2 DEF vars, Contract!contract, Roll, Present, Sealed, ValidSignature
  <1> QED BY <1>1, <1>2

(* The interleaved requests keep what SignedContract promises: the roll is  *)
(* open until the first valid signature or count, seals are never taken     *)
(* back, and the document is marked signed, for good, when the roll sealed. *)
THEOREM SigningKeepsTheContract == Spec => KeepsTheContract
  BY Invariance, InitContract, NextContract, PTL
     DEF Spec, KeepsTheContract, Contract!Spec

-----------------------------------------------------------------------------
(* Four actions write signatures, the others leave them alone.             *)
LEMMA FourActionsSign ==
  ASSUME NEW r \in Requests, Step(r)
  PROVE  \/ UNCHANGED signature
         \/ CommitSms(r) \/ EcpInvalid(r) \/ CommitEcp(r) \/ SaveEgovSignature(r)
  <1>1. CASE LinkStep(r)
    BY <1>1
       DEF LinkStep, CreateAccessLink, OpenPage, ChooseMethod, FixContentHash,
       LockForSigning, IssueLink, SaveOpened, SaveMethod, Load, db
  <1>2. CASE SmsStep(r)
    BY <1>2
       DEF SmsStep, StartSms, CompleteSms, SaveSmsMethod, DispatchCode,
           CodeSent,
       Load, db
  <1>3. CASE EcpStep(r)
    BY <1>3 DEF EcpStep, CompleteEcp, EcpValid, DuplicateSignature, Load, db
  <1>4. CASE EgovStep(r)
    BY <1>4
       DEF EgovStep, StartEgov, CompleteEgov, SaveEgovMethod, CreateEgovSession,
       SaveEgovStatus, SaveEgovSigner,
           CountEgov,
       SaveEgovDocument, Load, db
  <1>5. CASE EditStep(r)
    BY <1>5 DEF EditStep, OnlyOfficeCallback, SaveCallback, Fill, FillSigners,
       SaveFillStatus, RenderDocx, AddSigner, InsertSigner, Load, db
  <1>6. CASE RollBack(r) \/ Refused(r)
    BY <1>6 DEF RollBack, Refused, db
  <1> QED BY <1>1, <1>2, <1>3, <1>4, <1>5, <1>6 DEF Step

CoversContent(s) ==
  (signature[s] = None /\ signature'[s] # None /\ signature'[s].provider = "sms")
    => signature'[s].hash = document'.content

(* An SMS signature is over the content of the document it commits with:    *)
(* the row lock taken before the comparison of hashes is held to the end.   *)
THEOREM SmsCoversContent == Spec => SmsSignatureCoversContent
  <1>1. ASSUME IInv, Next, NEW s \in Signers
        PROVE  CoversContent(s)
    <2>1. PICK r \in Requests : Step(r)
      BY <1>1, NextSteps
    <2>2. CASE UNCHANGED signature
      BY <2>2 DEF CoversContent
    <2>3. CASE CommitSms(r)
      <3>1. request[r].doc.hash = document.content /\ document \in DocumentRow
        BY <1>1, <2>3
           DEF CommitSms, At, IInv, RequestInv, LocksProtectCommit, TypeOK
      <3>2. document'.content = document.content
        BY <2>3, <3>1 DEF CommitSms, DocumentRow
      <3>3. \/ signature'[s] = signature[s]
            \/ signature'[s] = [provider |-> "sms", valid |-> TRUE,
                                hash |-> request[r].doc.hash]
        BY <1>1, <2>3 DEF CommitSms, IInv, TypeOK
      <3> QED BY <3>1, <3>2, <3>3 DEF CoversContent
    <2>4. CASE EcpInvalid(r) \/ CommitEcp(r) \/ SaveEgovSignature(r)
      <3>1. \/ signature'[s] = signature[s]
            \/ signature'[s].provider \in {"ecp", "egov_mobile"}
        BY <1>1, <2>4
           DEF EcpInvalid, CommitEcp, SaveEgovSignature, EcpSignature, IInv, TypeOK
      <3> QED BY <3>1 DEF CoversContent
    <2> QED BY <2>1, <2>2, <2>3, <2>4, FourActionsSign
  <1>2. IInv /\ [Next]_vars => [\A s \in Signers : CoversContent(s)]_vars
    BY <1>1
  <1> QED BY Invariance, <1>2, PTL
             DEF Spec, SmsSignatureCoversContent, CoversContent

-----------------------------------------------------------------------------
(***************************************************************************)
(* No completion by SMS is lost.                                           *)
(***************************************************************************)
AllBySms == \A s \in Present : signature[s] # None => signature[s].provider = "sms"

(* A recount of an SMS completion that finds everybody signed says so, and *)
(* goes on saying so until it is committed ...                             *)
SmsCounts(r) ==
  (/\ request[r].pc = "sms_commit"
   /\ Present \subseteq Signed \cup {request[r].who}
   /\ AllBySms)
    => request[r].doc.status = "signed"

(* ... and whoever completes by eGov Mobile is known to have done so before *)
(* his row is marked signed.                                               *)
EgovIsNotSms(r) ==
  request[r].pc = "egov_signer" => signature[request[r].who].provider = "egov_mobile"

Counting ==
  /\ NoLostCompletion
  /\ \A r \in Requests : SmsCounts(r) /\ EgovIsNotSms(r)

(* Three actions mark a signer as signed.                                  *)
LEMMA ThreeActionsFinish ==
  ASSUME IInv, NEW r \in Requests, Step(r)
  PROVE  \/ Signed' \subseteq Signed
         \/ CommitSms(r) \/ CommitEcp(r) \/ SaveEgovSigner(r)
  <1> USE DEF At, TypeOK
  <1>t. TypeOK /\ RequestInv(r)
    BY DEF IInv
  <1>w. request[r].pc \notin NobodyPc \cup {"add"} => request[r].who \in Signers
    BY <1>t DEF RequestInv, CallerIsSigner, Known
  <1>u. ASSUME \A t \in Signers : signer'[t].status = "signed" => signer[t].status = "signed"
        PROVE  Signed' \subseteq Signed
    BY <1>u DEF Signed
  <1> USE <1>t DEF RequestInv
  <1>1. CASE UNCHANGED signer
    BY <1>1, <1>u
  <1>2. CASE SaveOpened(r) \/ SaveSmsMethod(r) \/ CodeSent(r)
    <2>1. request[r].who \in Signers
      BY <1>2, <1>w DEF SaveOpened, SaveSmsMethod, CodeSent, NobodyPc
    <2>2. \A t \in Signers : signer'[t].status = "signed" => signer[t].status = "signed"
      BY <1>2, <2>1 DEF SaveOpened, SaveSmsMethod, CodeSent, SaveSigner, SignerRow
    <2> QED BY <2>2, <1>u
  <1>3. CASE SaveMethod(r)
    <2>1. request[r].who \in Signers
      BY <1>3, <1>w DEF SaveMethod, NobodyPc
    <2>2. \A t \in Signers : signer'[t].status = "signed" => signer[t].status = "signed"
      BY <1>3, <2>1 DEF SaveMethod, SaveSigner, CopyForgesNothing, SignerRow
    <2> QED BY <2>2, <1>u
  <1>4. CASE EcpInvalid(r) \/ SaveEgovMethod(r) \/ SaveEgovStatus(r)
    <2>1. PICK s \in Signers : s = request[r].who
      BY <1>4, <1>w DEF EcpInvalid, SaveEgovMethod, SaveEgovStatus, NobodyPc
    <2>2. /\ \A t \in Signers \ {s} : signer'[t] = signer[t]
          /\ signer'[s].status # "signed" \/ signer'[s].status = signer[s].status
      <3>1. CASE EcpInvalid(r)
        BY <2>1, <3>1 DEF EcpInvalid, SaveSigner, SignerRow
      <3>2. CASE SaveEgovMethod(r) \/ SaveEgovStatus(r)
        BY <2>1, <3>2 DEF SaveEgovMethod, SaveEgovStatus, SaveSigner, SignerRow
      <3> QED BY <1>4, <3>1, <3>2
    <2> QED BY <2>2, <1>u
  <1>5. CASE FillSigners(r)
    BY <1>5, <1>u, FillWrites
  <1>6. CASE InsertSigner(r)
    <2>1. \A t \in Signers : signer'[t].status = "signed" => signer[t].status = "signed"
      BY <1>6 DEF InsertSigner, InsertSigners, NoSigner, SignerRow
    <2> QED BY <2>1, <1>u
  <1>7. CASE LinkStep(r)
    <2>1. ASSUME NEW s \in Signers,
                 CreateAccessLink(r, s) \/ OpenPage(r, s) \/ ChooseMethod(r, s)
          PROVE  UNCHANGED signer
      BY <2>1 DEF CreateAccessLink, OpenPage, ChooseMethod, Load, db
    <2>2. CASE FixContentHash(r) \/ LockForSigning(r) \/ IssueLink(r)
      BY <1>1, <2>2 DEF FixContentHash, LockForSigning, IssueLink
    <2> QED BY <1>1, <1>2, <1>3, <1>7, <2>1, <2>2 DEF LinkStep
  <1>8. CASE SmsStep(r)
    <2>1. ASSUME NEW s \in Signers, StartSms(r, s) \/ CompleteSms(r, s)
          PROVE  UNCHANGED signer
      BY <2>1 DEF StartSms, CompleteSms, Load, db
    <2>2. CASE DispatchCode(r)
      BY <1>1, <2>2 DEF DispatchCode
    <2> QED BY <1>1, <1>2, <1>8, <2>1, <2>2 DEF SmsStep
  <1>9. CASE EcpStep(r)
    BY <1>1, <1>4, <1>9 DEF EcpStep, CompleteEcp, EcpValid, DuplicateSignature, Load, db
  <1>10. CASE EgovStep(r)
    BY <1>1, <1>4, <1>10
       DEF EgovStep, StartEgov, CompleteEgov, CreateEgovSession, SaveEgovSignature,
           CountEgov, SaveEgovDocument, Load, db
  <1>11. CASE EditStep(r)
    BY <1>1, <1>5, <1>6, <1>11
       DEF EditStep, OnlyOfficeCallback, SaveCallback, Fill, SaveFillStatus,
           RenderDocx, AddSigner, Load, db
  <1>12. CASE RollBack(r) \/ Refused(r)
    BY <1>1, <1>12 DEF RollBack, Refused, db
  <1> QED BY <1>7, <1>8, <1>9, <1>10, <1>11, <1>12 DEF Step

(* Only CompleteSms leads to an SMS recount, only EcpValid to that of ECP, *)
(* and only the eGov signature to the eGov signer.                         *)
LEMMA WaysToCommit ==
  ASSUME TypeOK, NEW r \in Requests, Step(r)
  PROVE  /\ \/ request'[r].pc # "sms_commit"
            \/ \E s \in Signers : CompleteSms(r, s)
         /\ \/ request'[r].pc # "ecp_commit"
            \/ EcpValid(r)
         /\ \/ request'[r].pc # "egov_signer"
            \/ SaveEgovSignature(r)
  <1> USE DEF TypeOK, Call, Idle
  <1>1. CASE LinkStep(r)
    BY <1>1
       DEF LinkStep, CreateAccessLink, OpenPage, ChooseMethod, FixContentHash,
       LockForSigning, IssueLink, SaveOpened, SaveMethod, Load, Proceed, Return
  <1>2. CASE SmsStep(r)
    <2>1. ASSUME NEW s \in Signers, CompleteSms(r, s)
          PROVE  request'[r].pc \notin {"ecp_commit", "egov_signer"}
      BY <2>1 DEF CompleteSms
    <2> QED
      BY <1>2, <2>1
         DEF SmsStep, StartSms, SaveSmsMethod, DispatchCode, CodeSent, CommitSms,
             Load, Goto, Proceed, Return
  <1>3. CASE EcpStep(r)
    <2>1. ASSUME NEW s \in Signers, CompleteEcp(r, s)
          PROVE  request'[r].pc \notin {"sms_commit", "ecp_commit", "egov_signer"}
      BY <2>1 DEF CompleteEcp, Load
    <2>2. CASE EcpValid(r)
      BY <2>2 DEF EcpValid, Proceed
    <2>3. CASE EcpInvalid(r) \/ CommitEcp(r) \/ DuplicateSignature(r)
      <3>1. Return(r)
        BY <2>3 DEF EcpInvalid, CommitEcp, DuplicateSignature
      <3> QED BY <3>1 DEF Return
    <2> QED BY <1>3, <2>1, <2>2, <2>3 DEF EcpStep
  <1>4. CASE EgovStep(r)
    BY <1>4
       DEF EgovStep, StartEgov, CompleteEgov, SaveEgovMethod, CreateEgovSession,
           SaveEgovStatus, SaveEgovSignature,
           SaveEgovSigner, CountEgov, SaveEgovDocument, Load, Goto, Proceed, Return
  <1>5. CASE EditStep(r)
    BY <1>5
       DEF EditStep, OnlyOfficeCallback, SaveCallback, Fill, FillSigners,
           SaveFillStatus, RenderDocx, AddSigner, InsertSigner, Load, Goto, Proceed,
           Return
  <1>6. CASE RollBack(r) \/ Refused(r)
    BY <1>6 DEF RollBack, Refused, Return
  <1> QED BY <1>1, <1>2, <1>3, <1>4, <1>5, <1>6 DEF Step

(* When nobody newly signed, everybody had signed before, all by SMS.      *)
LEMMA NobodyFinishes ==
  ASSUME NEW r \in Requests, Respects(r), Signed' \subseteq Signed, NEW S,
         Present' \subseteq Signed' \cup S, AllBySms'
  PROVE  Present \subseteq Signed \cup S /\ AllBySms
  <1>1. Present \subseteq Present'
    BY DEF Respects, Known, Present
  <1> QED BY <1>1 DEF Respects, AllBySms, Present

(* A signature by another provider on the document ends the matter.        *)
LEMMA OtherProvider ==
  ASSUME NEW s, Known(s)', signature'[s] # None, signature'[s].provider # "sms"
  PROVE  ~AllBySms'
  BY DEF AllBySms, Known, Present

(* What the request that completes by another provider leaves behind.      *)
LEMMA OthersSign ==
  ASSUME IInv, NEW r \in Requests, Respects(r), EgovIsNotSms(r),
         CommitEcp(r) \/ SaveEgovSigner(r)
  PROVE  ~AllBySms'
  <1>1. PICK s \in Signers : s = request[r].who /\ Known(s)
    BY DEF CommitEcp, SaveEgovSigner, At, IInv, RequestInv, CallerIsSigner, NobodyPc,
           Known
  <1>2. Known(s)'
    BY <1>1 DEF Respects
  <1>3. CASE CommitEcp(r)
    <2>1. signature'[s] =
            [provider |-> "ecp", valid |-> TRUE, hash |-> request[r].doc.hash]
      BY <1>1, <1>3 DEF CommitEcp, EcpSignature, IInv, TypeOK
    <2>2. signature'[s] # None
      BY <2>1, RowIsSignature DEF Method, IInv, TypeOK, Call, DocumentRow
    <2> QED BY <1>2, <2>1, <2>2, OtherProvider
  <1>4. CASE SaveEgovSigner(r)
    <2>1. ValidSignature(s) /\ signature[s].provider = "egov_mobile"
      BY <1>1, <1>4
         DEF SaveEgovSigner, At, IInv, RequestInv, EgovHasSignature, EgovPc,
             EgovIsNotSms
    <2> QED BY <1>2, <1>4, <2>1, OtherProvider DEF SaveEgovSigner, ValidSignature
  <1> QED BY <1>3, <1>4

(* The last signer's commit marks the document.                            *)
LEMMA SmsFinishes ==
  ASSUME IInv, NEW r \in Requests, Respects(r), SmsCounts(r), CommitSms(r)
  PROVE  NoLostCompletion'
  <1> SUFFICES ASSUME Present' \subseteq Signed', AllBySms'
               PROVE  document'.status = "signed"
    BY DEF NoLostCompletion, AllBySms
  <1>1. Present \subseteq Present'
    BY DEF Respects, Known, Present
  <1>2. Signed' \subseteq Signed \cup {request[r].who}
    BY DEF CommitSms, Signed, IInv, TypeOK
  <1>3. AllBySms
    BY <1>1 DEF Respects, AllBySms, Present
  <1>4. request[r].doc.status = "signed"
    BY <1>1, <1>2, <1>3 DEF SmsCounts, CommitSms, At
  <1> QED BY <1>4 DEF CommitSms, IInv, TypeOK, DocumentRow

(* Every step of a request keeps Counting.                                 *)
LEMMA StepCounting ==
  ASSUME IInv, Counting, NEW r \in Requests, Step(r)
  PROVE  Counting'
  <1>r. Respects(r)
    BY StepRespects
  <1>i. /\ TypeOK /\ LinksAreForSigners
        /\ \A q \in Requests : RequestInv(q) /\ SmsCounts(q) /\ EgovIsNotSms(q)
    BY DEF IInv, Counting
  <1>1. NoLostCompletion'
    <2>1. CASE Signed' \subseteq Signed
      <3> SUFFICES ASSUME Present' # {}, Present' \subseteq Signed', AllBySms'
                   PROVE  document'.status = "signed"
        BY DEF NoLostCompletion, AllBySms
      <3>1. Present \subseteq Signed /\ AllBySms
        BY <1>r, <2>1, NobodyFinishes, Present' \subseteq Signed' \cup {}
      <3>2. Present # {}
        BY <2>1 DEF Signed, Present
      <3>3. document.status = "signed"
        BY <3>1, <3>2 DEF Counting, NoLostCompletion, AllBySms
      <3> QED BY <1>r, <3>3 DEF Respects
    <2>2. CASE CommitSms(r)
      BY <1>i, <1>r, <2>2, SmsFinishes
    <2>3. CASE CommitEcp(r) \/ SaveEgovSigner(r)
      BY <1>i, <1>r, <2>3, OthersSign DEF NoLostCompletion, AllBySms
    <2> QED BY <2>1, <2>2, <2>3, ThreeActionsFinish
  <1>2. ASSUME NEW q \in Requests \ {r}
        PROVE  SmsCounts(q)'
    <2> SUFFICES ASSUME request'[q].pc = "sms_commit", AllBySms',
                        Present' \subseteq Signed' \cup {request'[q].who}
                 PROVE  request'[q].doc.status = "signed"
      BY DEF SmsCounts
    <2>1. request'[q] = request[q]
      BY <1>r DEF Respects
    <2>2. docLock = q
      BY <1>i, <2>1 DEF RequestInv, LocksProtectCommit
    <2>3. CASE Signed' \subseteq Signed
      BY <1>i, <1>r, <2>1, <2>3, NobodyFinishes DEF SmsCounts
    <2>4. ~CommitSms(r)
      BY <1>i, <2>2 DEF CommitSms, At, RequestInv, LocksProtectCommit
    <2>5. CASE CommitEcp(r) \/ SaveEgovSigner(r)
      BY <1>i, <1>r, <2>5, OthersSign
    <2> QED BY <2>3, <2>4, <2>5, ThreeActionsFinish
  <1>3. SmsCounts(r)'
    <2>1. ASSUME NEW s \in Signers, CompleteSms(r, s)
          PROVE  SmsCounts(r)'
      <3>1. /\ request'[r].who = s
            /\ request'[r].doc.status = RecalculatedStatus(Signed \cup {s})
        BY <1>i, <2>1 DEF CompleteSms, TypeOK, DocumentRow
      <3>2. UNCHANGED <<signer, signature>> /\ Present # {}
        BY <1>i, <2>1 DEF CompleteSms, db, LinksAreForSigners, Known, Present
      <3> QED BY <3>1, <3>2 DEF SmsCounts, RecalculatedStatus, Present, Signed
    <2> QED BY <1>i, <2>1, WaysToCommit DEF SmsCounts
  <1>4. ASSUME NEW q \in Requests \ {r}
        PROVE  EgovIsNotSms(q)'
    <2>1. request'[q] = request[q]
      BY <1>r DEF Respects
    <2>2. ASSUME request[q].pc = "egov_signer"
          PROVE  signature'[request[q].who] = signature[request[q].who]
      BY <1>i, <1>r, <2>2
         DEF RequestInv, EgovHasSignature, EgovPc, CallerIsSigner, NobodyPc, Known,
             ValidSignature, Respects
    <2> QED BY <1>i, <2>1, <2>2 DEF EgovIsNotSms
  <1>5. EgovIsNotSms(r)'
    <2>1. CASE SaveEgovSignature(r)
      <3>1. request[r].who \in Signers /\ request'[r].who = request[r].who
        BY <1>i, <2>1
           DEF SaveEgovSignature, At, Goto, Proceed, TypeOK, RequestInv,
               CallerIsSigner, NobodyPc, Known
      <3> QED BY <1>i, <2>1, <3>1 DEF SaveEgovSignature, EgovIsNotSms, TypeOK
    <2> QED BY <1>i, <2>1, WaysToCommit DEF EgovIsNotSms
  <1> QED BY <1>1, <1>2, <1>3, <1>4, <1>5 DEF Counting

LEMMA CountingInvariance == Spec => []Counting
  <1>1. Init => Counting
    BY DEF Init, Idle, NoSigner, Counting, NoLostCompletion, SmsCounts, EgovIsNotSms,
           Present, Signed
  <1>2. IInv /\ Counting /\ [Next]_vars => Counting'
    <2> SUFFICES ASSUME IInv, Counting, [Next]_vars PROVE Counting'
      OBVIOUS
    <2>1. CASE Next
      BY <2>1, NextSteps, StepCounting
    <2>2. CASE UNCHANGED vars
      BY <2>2
         DEF vars, Counting, NoLostCompletion, SmsCounts, EgovIsNotSms, AllBySms,
             Present, Signed
    <2> QED BY <2>1, <2>2
  <1> QED BY Invariance, <1>1, <1>2, PTL DEF Spec

(* Whatever editing and the other providers' requests do meanwhile, the    *)
(* last SMS completion marks the document as signed: its recount is taken  *)
(* and committed under the lock of the document's row.                     *)
THEOREM NoCompletionIsLost == Spec => []NoLostCompletion
  <1>1. Counting => NoLostCompletion
    BY DEF Counting
  <1> QED BY CountingInvariance, <1>1, PTL

-----------------------------------------------------------------------------
(***************************************************************************)
(* Requests that do not overlap.  With one slot for a request the checks   *)
(* of the handlers are as good as their saves: what is proved here is what *)
(* the edit check and the pages are meant to ensure, for any number of     *)
(* signers, every handler and every crash.                                 *)
(***************************************************************************)
OneAtATime == \A q, r \in Requests : q = r

(* Every valid signature with a hash carries the document's present one,   *)
(* and its signer is marked.                                               *)
HashIsFixed ==
  \A s \in Sealed : signature[s].hash # 0 =>
    s \in Signed /\ document.hash = signature[s].hash

EditingPc == {"callback", "fill", "fill_status", "fill_render", "add"}
UnsignedPc == {"open", "choose", "sms_start", "sms_kept", "sms_fix", "sms_lock",
               "sms_dispatch", "sms_sent", "egov_start", "egov_session", "egov_status",
               "ecp_verify"}

(* An edit in flight has seen nobody sign, a page or a session is that of  *)
(* a signer who has not signed, ...                                        *)
NobodySigned(r) ==
  /\ request[r].pc \in EditingPc => Signed = {}
  /\ request[r].pc \in UnsignedPc => request[r].who \notin Signed

(* ... and a copied hash is the document's, unless that is still empty.    *)
CopyIsFresh(r) ==
  /\ request[r].pc \in LoadedPc => request[r].doc = document
  /\ request[r].pc \in {"link_fix", "sms_fix"} => document.hash = 0
  /\ request[r].pc \in {"ecp_verify", "ecp_commit"} => request[r].doc.hash = document.hash
  /\ request[r].pc = "sms_commit" => document.hash \in {0, request[r].doc.hash}

SerialInv ==
  /\ HashIsFixed
  /\ \A r \in Requests : NobodySigned(r) /\ CopyIsFresh(r)

(* What a step leaves of the document, its signers and their signatures.   *)
NothingUndone ==
  /\ Signed \subseteq Signed'
  /\ Signed # {} => document'.content = document.content /\ Present' \subseteq Present
  /\ HashIsFixed'

(* A step that writes no row undoes nothing; nor does one that writes the  *)
(* document without its content or a hash that is fixed; nor one that      *)
(* writes a signer who is on the document and, unless his status stays,    *)
(* has not signed.                                                         *)
LEMMA QuietUndoesNothing ==
  ASSUME HashIsFixed, UNCHANGED <<document, signer, signature>>
  PROVE  NothingUndone
  BY DEF NothingUndone, HashIsFixed, Signed, Present, Sealed, ValidSignature

LEMMA DocumentUndoesNothing ==
  ASSUME HashIsFixed, UNCHANGED <<signer, signature>>,
         Signed # {} => document'.content = document.content,
         \/ Signed = {} \/ document.hash = 0
         \/ document'.hash = document.hash
  PROVE  NothingUndone
  BY DEF NothingUndone, HashIsFixed, Signed, Present, Sealed, ValidSignature

LEMMA SignerUndoesNothing ==
  ASSUME HashIsFixed, UNCHANGED <<document, signature>>, NEW s \in Signers, Known(s),
         \A t \in Signers \ {s} : signer'[t] = signer[t],
         s \notin Signed \/ signer'[s].status = signer[s].status
  PROVE  NothingUndone
  BY DEF NothingUndone, HashIsFixed, Signed, Present, Sealed, ValidSignature, Known

(* Every step of the only request undoes nothing.                          *)
LEMMA StepUndoesNothing ==
  ASSUME IInv, SerialInv, NEW r \in Requests, Step(r)
  PROVE  NothingUndone
  <1> USE DEF At, TypeOK
  <1>t. TypeOK /\ CallerIsSigner(r) /\ NobodySigned(r) /\ CopyIsFresh(r) /\ HashIsFixed
    BY DEF IInv, RequestInv, SerialInv
  <1>w. request[r].pc \notin NobodyPc \cup {"add"} => Known(request[r].who)
    BY <1>t DEF CallerIsSigner
  <1> USE <1>t
  <1>1. CASE UNCHANGED <<document, signer, signature>>
    BY <1>1, QuietUndoesNothing
  <1>2. CASE FixContentHash(r) \/ LockForSigning(r)
    <2>1. document'.content = document.content
      BY <1>2 DEF FixContentHash, LockForSigning, SaveDocument, DocumentRow
    <2>2. CASE FixContentHash(r)
      <3>1. document.hash = 0
        BY <2>2 DEF FixContentHash, CopyIsFresh
      <3> QED BY <2>1, <2>2, <3>1, DocumentUndoesNothing DEF FixContentHash
    <2>3. CASE LockForSigning(r)
      <3>1. request[r].doc = document
        BY <2>3 DEF LockForSigning, CopyIsFresh, LoadedPc
      <3>2. document'.hash = document.hash
        BY <2>3, <3>1 DEF LockForSigning, SaveDocument, DocumentRow
      <3> QED BY <2>1, <2>3, <3>2, DocumentUndoesNothing DEF LockForSigning
    <2> QED BY <1>2, <2>2, <2>3
  <1>3. CASE SaveEgovDocument(r) \/ SaveFillStatus(r)
    <2>1. document'.content = document.content /\ document'.hash = document.hash
      BY <1>3 DEF SaveEgovDocument, SaveFillStatus, SaveDocument, DocumentRow
    <2> QED BY <1>3, <2>1, DocumentUndoesNothing DEF SaveEgovDocument, SaveFillStatus
  <1>4. CASE SaveCallback(r) \/ RenderDocx(r)
    <2>1. Signed = {}
      BY <1>4 DEF SaveCallback, RenderDocx, NobodySigned, EditingPc
    <2> QED BY <1>4, <2>1, DocumentUndoesNothing DEF SaveCallback, RenderDocx
  <1>5. CASE SaveOpened(r) \/ SaveMethod(r) \/ SaveSmsMethod(r) \/ CodeSent(r)
             \/ SaveEgovMethod(r) \/ SaveEgovStatus(r)
    <2>1. /\ Known(request[r].who) /\ request[r].who \notin Signed
          /\ \A t \in Signers \ {request[r].who} : signer'[t] = signer[t]
          /\ UNCHANGED <<document, signature>>
      BY <1>5, <1>w
         DEF SaveOpened, SaveMethod, SaveSmsMethod, CodeSent, SaveEgovMethod,
             SaveEgovStatus, SaveSigner, NobodySigned, UnsignedPc, NobodyPc
    <2> QED BY <2>1, SignerUndoesNothing DEF Known
  <1>6. CASE FillSigners(r) \/ InsertSigner(r)
    <2>1. Signed = {} /\ UNCHANGED <<document, signature>>
      BY <1>6 DEF FillSigners, InsertSigner, NobodySigned, EditingPc
    <2> QED BY <2>1 DEF NothingUndone, HashIsFixed, Sealed, ValidSignature
  <1>7. CASE EcpInvalid(r)
    <2>1. /\ Known(request[r].who) /\ request[r].who \notin Signed
          /\ UNCHANGED document
          /\ signer' = [signer EXCEPT ![request[r].who].status = "failed"]
      BY <1>7, <1>w DEF EcpInvalid, SaveSigner, NobodySigned, UnsignedPc, NobodyPc, Known
    <2>2. Signed \subseteq Signed' /\ Present' \subseteq Present
      BY <2>1 DEF Known, Signed, Present
    <2>3. \A s \in Sealed' : s \in Sealed /\ signature'[s] = signature[s]
      BY <1>7 DEF EcpInvalid, EcpSignature, Sealed, ValidSignature
    <2> QED BY <2>1, <2>2, <2>3 DEF NothingUndone, HashIsFixed
  <1>f. ASSUME request[r].pc \notin NobodyPc \cup {"add"},
               signer' = [signer EXCEPT ![request[r].who].status = "signed"]
        PROVE  Signed' = Signed \cup {request[r].who} /\ Present' = Present
    BY <1>f, <1>w DEF Known, Signed, Present
  <1>8. CASE CommitSms(r)
    <2>1. /\ document'.content = document.content
          /\ document'.hash = request[r].doc.hash
          /\ document.hash \in {0, document'.hash}
      BY <1>8 DEF CommitSms, CopyIsFresh, DocumentRow
    <2>2. Signed' = Signed \cup {request[r].who} /\ Present' = Present
      BY <1>8, <1>f DEF CommitSms, NobodyPc
    <2>3. \A s \in Signers : \/ signature'[s] = signature[s]
                             \/ s = request[r].who /\ signature'[s].hash = document'.hash
      BY <1>8, <2>1 DEF CommitSms
    <2> QED BY <2>1, <2>2, <2>3 DEF NothingUndone, HashIsFixed, Sealed, ValidSignature
  <1>9. CASE CommitEcp(r)
    <2>1. /\ document'.content = document.content
          /\ document'.hash = request[r].doc.hash
          /\ document.hash = document'.hash
      BY <1>9 DEF CommitEcp, SaveDocument, CopyIsFresh, DocumentRow
    <2>2. Signed' = Signed \cup {request[r].who} /\ Present' = Present
      BY <1>9, <1>f DEF CommitEcp, NobodyPc
    <2>3. \A s \in Signers : \/ signature'[s] = signature[s]
                             \/ s = request[r].who /\ signature'[s].hash = document'.hash
      BY <1>9, <2>1 DEF CommitEcp, EcpSignature
    <2> QED BY <2>1, <2>2, <2>3 DEF NothingUndone, HashIsFixed, Sealed, ValidSignature
  <1>10. CASE SaveEgovSignature(r)
    <2>1. \A s \in Signers : signature'[s] = signature[s] \/ signature'[s].hash = 0
      BY <1>10 DEF SaveEgovSignature
    <2> QED BY <1>10, <2>1
        DEF SaveEgovSignature, NothingUndone, HashIsFixed, Sealed, ValidSignature, Signed,
            Present
  <1>11. CASE SaveEgovSigner(r)
    <2>1. Signed' = Signed \cup {request[r].who} /\ Present' = Present
      BY <1>11, <1>f DEF SaveEgovSigner, SaveSigner, NobodyPc
    <2> QED BY <1>11, <2>1
        DEF SaveEgovSigner, NothingUndone, HashIsFixed, Sealed, ValidSignature
  <1>12. CASE LinkStep(r)
    BY <1>12, <1>1, <1>2, <1>5
       DEF LinkStep, CreateAccessLink, OpenPage, ChooseMethod, IssueLink, Load, db
  <1>13. CASE SmsStep(r)
    BY <1>13, <1>1, <1>5, <1>8 DEF SmsStep, StartSms, CompleteSms, DispatchCode, Load, db
  <1>14. CASE EcpStep(r)
    BY <1>14, <1>1, <1>7, <1>9
       DEF EcpStep, CompleteEcp, EcpValid, DuplicateSignature, Load, db
  <1>15. CASE EgovStep(r)
    BY <1>15, <1>1, <1>3, <1>5, <1>10, <1>11
       DEF EgovStep, StartEgov, CompleteEgov, CreateEgovSession, CountEgov, Load, db
  <1>16. CASE EditStep(r)
    BY <1>16, <1>1, <1>3, <1>4, <1>6
       DEF EditStep, OnlyOfficeCallback, Fill, AddSigner, Load, db
  <1>17. CASE RollBack(r) \/ Refused(r)
    BY <1>17, <1>1 DEF RollBack, Refused, db
  <1> QED BY <1>12, <1>13, <1>14, <1>15, <1>16, <1>17 DEF Step

(* ... and the request has read, at each point, what it writes from.       *)
LEMMA StepReadsFresh ==
  ASSUME IInv, SerialInv, NEW r \in Requests, Step(r)
  PROVE  NobodySigned(r)' /\ CopyIsFresh(r)'
  <1> DEFINE Fresh == NobodySigned(r)' /\ CopyIsFresh(r)'
  <1> USE DEF At, TypeOK
  <1>t. TypeOK /\ CallerIsSigner(r) /\ NobodySigned(r) /\ CopyIsFresh(r)
    BY DEF IInv, RequestInv, SerialInv
  <1> USE <1>t
  <1>1. ASSUME request'[r].pc \notin EditingPc \cup UnsignedPc \cup LoadedPc
                                     \cup {"ecp_commit", "sms_commit"}
        PROVE  Fresh
    BY <1>1 DEF NobodySigned, CopyIsFresh, EditingPc, UnsignedPc, LoadedPc
  <1>2. ASSUME Return(r)
        PROVE  Fresh
    <2>1. request'[r].pc = "idle"
      BY <1>2 DEF Return, Idle
    <2> QED BY <1>1, <2>1 DEF EditingPc, UnsignedPc, LoadedPc
  <1>3. ASSUME NEW s \in Signers,
               CreateAccessLink(r, s) \/ OpenPage(r, s) \/ ChooseMethod(r, s)
        PROVE  Fresh
    <2>1. CASE CreateAccessLink(r, s)
      BY <2>1
         DEF CreateAccessLink, Load, db, NobodySigned, CopyIsFresh, EditingPc,
             UnsignedPc, LoadedPc
    <2>2. CASE OpenPage(r, s) \/ ChooseMethod(r, s)
      BY <2>2
         DEF OpenPage, FirstVisitOpens, ChooseMethod, Load, db, NobodySigned,
             CopyIsFresh, EditingPc, UnsignedPc, LoadedPc, Signed
    <2> QED BY <1>3, <2>1, <2>2
  <1>4. CASE FixContentHash(r) \/ LockForSigning(r)
    <2>1. UNCHANGED signer /\ request'[r].who = request[r].who
      BY <1>4 DEF FixContentHash, LockForSigning, Proceed
    <2>2. /\ request'[r].pc \notin EditingPc
          /\ request'[r].pc \in UnsignedPc => request[r].pc \in UnsignedPc
      BY <1>4
         DEF FixContentHash, LockForSigning, Proceed, EditingPc, UnsignedPc
    <2>4. NobodySigned(r)'
      BY <2>1, <2>2 DEF NobodySigned, Signed
    <2>3. CopyIsFresh(r)'
      BY <1>4
         DEF FixContentHash, LockForSigning, SaveDocument, Proceed, CopyIsFresh, LoadedPc
    <2> QED BY <2>3, <2>4
  <1>5. ASSUME NEW s \in Signers, StartSms(r, s) \/ CompleteSms(r, s)
        PROVE  Fresh
    <2>1. CASE StartSms(r, s)
      BY <2>1
         DEF StartSms, Load, db, NobodySigned, CopyIsFresh, EditingPc, UnsignedPc,
             LoadedPc, Signed
    <2>2. CASE CompleteSms(r, s)
      <3>1. /\ request'[r].pc = "sms_commit" /\ UNCHANGED document
            /\ document.hash # 0 => request'[r].doc.hash = document.hash
        BY <2>2 DEF CompleteSms, db, DocumentRow
      <3> QED BY <3>1 DEF NobodySigned, CopyIsFresh, EditingPc, UnsignedPc, LoadedPc
    <2> QED BY <1>5, <2>1, <2>2
  <1>6. CASE SaveSmsMethod(r)
    <2>1. UNCHANGED document /\ Signed' \subseteq Signed
      <3>1. CASE UNCHANGED signer
        BY <1>6, <3>1 DEF SaveSmsMethod, Signed
      <3>2. CASE SaveSigner(request[r].who, [signer[request[r].who] EXCEPT !.method = "sms"])
        BY <1>6, <3>2 DEF SaveSmsMethod, SaveSigner, Signed, SignerRow
      <3> QED BY <1>6, <3>1, <3>2 DEF SaveSmsMethod
    <2> QED BY <1>6, <1>2, <2>1
        DEF SaveSmsMethod, Goto, Proceed, NobodySigned, CopyIsFresh, EditingPc,
            UnsignedPc, LoadedPc
  <1>7. CASE DispatchCode(r)
    BY <1>7
       DEF DispatchCode, Goto, Proceed, NobodySigned, CopyIsFresh, EditingPc,
           UnsignedPc, LoadedPc, Signed
  <1>8. ASSUME NEW s \in Signers, CompleteEcp(r, s)
        PROVE  Fresh
    BY <1>8
       DEF CompleteEcp, Load, db, NobodySigned, CopyIsFresh, EditingPc,
           UnsignedPc, LoadedPc, Signed, NoDocument
  <1>9. CASE EcpValid(r)
    BY <1>9
       DEF EcpValid, Proceed, db, NobodySigned, CopyIsFresh, EditingPc,
           UnsignedPc, LoadedPc, DocumentRow
  <1>10. ASSUME NEW s \in Signers, StartEgov(r, s) \/ CompleteEgov(r, s)
         PROVE  Fresh
    BY <1>10
       DEF StartEgov, CompleteEgov, Load, db, NobodySigned, CopyIsFresh, EditingPc,
           UnsignedPc, LoadedPc, Signed
  <1>11. CASE SaveEgovSignature(r) \/ SaveEgovSigner(r) \/ CountEgov(r)
    BY <1>11, <1>1
       DEF SaveEgovSignature, SaveEgovSigner, CountEgov, Goto, Proceed, EditingPc,
           UnsignedPc, LoadedPc
  <1>21. CASE SaveEgovMethod(r) \/ CreateEgovSession(r)
    <2>1. UNCHANGED document /\ Signed' \subseteq Signed
      <3>1. CASE CreateEgovSession(r)
        BY <3>1 DEF CreateEgovSession, Signed
      <3>2. CASE SaveEgovMethod(r)
        BY <3>2 DEF SaveEgovMethod, SaveSigner, Signed, SignerRow
      <3> QED BY <1>21, <3>1, <3>2
    <2> QED BY <1>21, <1>2, <2>1
        DEF SaveEgovMethod, CreateEgovSession, Goto, Proceed, NobodySigned, CopyIsFresh,
            EditingPc, UnsignedPc, LoadedPc
  <1>12. CASE OnlyOfficeCallback(r) \/ Fill(r) \/ \E s \in Signers : AddSigner(r, s)
    BY <1>12
       DEF OnlyOfficeCallback, Fill, AddSigner, CanBeEdited, Load, db, NobodySigned,
           CopyIsFresh, EditingPc, UnsignedPc, LoadedPc, Signed
  <1>13. CASE FillSigners(r)
    <2>1. Signed = {} /\ request'[r].pc \in {"fill_status", "idle"}
      BY <1>13 DEF FillSigners, Proceed, Return, Idle, NobodySigned, EditingPc
    <2>2. ASSUME NEW s \in Signers
          PROVE  signer'[s].status \in {signer[s].status, "pending"}
      BY <1>13, FillWrites
    <2>3. Signed' = {}
      BY <2>1, <2>2 DEF Signed
    <2> QED BY <2>1, <2>3 DEF NobodySigned, CopyIsFresh, EditingPc, UnsignedPc, LoadedPc
  <1>14. CASE SaveFillStatus(r)
    BY <1>14
       DEF SaveFillStatus, Goto, Proceed, NobodySigned, CopyIsFresh, EditingPc,
           UnsignedPc, LoadedPc, Signed
  <1>15. CASE LinkStep(r)
    BY <1>15, <1>2, <1>3, <1>4 DEF LinkStep, IssueLink, SaveOpened, SaveMethod
  <1>16. CASE SmsStep(r)
    BY <1>16, <1>2, <1>4, <1>5, <1>6, <1>7 DEF SmsStep, CodeSent, CommitSms
  <1>17. CASE EcpStep(r)
    BY <1>17, <1>2, <1>8, <1>9 DEF EcpStep, EcpInvalid, CommitEcp, DuplicateSignature
  <1>18. CASE EgovStep(r)
    BY <1>18, <1>2, <1>10, <1>11, <1>21 DEF EgovStep, SaveEgovStatus, SaveEgovDocument
  <1>19. CASE EditStep(r)
    BY <1>19, <1>2, <1>12, <1>13, <1>14
       DEF EditStep, SaveCallback, RenderDocx, InsertSigner
  <1>20. CASE RollBack(r) \/ Refused(r)
    BY <1>20, <1>2 DEF RollBack, Refused
  <1> QED BY <1>15, <1>16, <1>17, <1>18, <1>19, <1>20 DEF Step

(* One request at a time keeps SerialInv.                                  *)
LEMMA SerialInvariance ==
  ASSUME OneAtATime
  PROVE  Spec => []SerialInv
  <1>1. Init => SerialInv
    BY
       DEF Init, Idle, SerialInv, HashIsFixed, NobodySigned, CopyIsFresh, Sealed,
           ValidSignature, EditingPc, UnsignedPc, LoadedPc
  <1>2. IInv /\ SerialInv /\ [Next]_vars => SerialInv'
    <2> SUFFICES ASSUME IInv, SerialInv, [Next]_vars PROVE SerialInv'
      OBVIOUS
    <2>1. CASE Next
      <3>1. PICK r \in Requests : Step(r)
        BY <2>1, NextSteps
      <3>2. NothingUndone /\ NobodySigned(r)' /\ CopyIsFresh(r)'
        BY <3>1, StepUndoesNothing, StepReadsFresh
      <3>3. \A q \in Requests : NobodySigned(q)' /\ CopyIsFresh(q)'
        BY <3>2, OneAtATime DEF OneAtATime
      <3> QED BY <3>2, <3>3 DEF NothingUndone, SerialInv
    <2>2. CASE UNCHANGED vars
      BY <2>2
         DEF vars, SerialInv, HashIsFixed, NobodySigned, CopyIsFresh, Sealed, Signed,
             ValidSignature
    <2> QED BY <2>1, <2>2
  <1> QED BY Invariance, <1>1, <1>2, PTL DEF Spec

(* ... and undoes nothing.                                                 *)
LEMMA SerialUndoesNothing ==
  IInv /\ SerialInv /\ [Next]_vars => [NothingUndone]_vars
  BY NextSteps, StepUndoesNothing

(* Of requests that do not overlap, all valid signatures that carry the    *)
(* document's hash carry the same one, whoever crashed before.             *)
THEOREM LoneSignaturesAgree ==
  ASSUME OneAtATime
  PROVE  Spec => []SignaturesAgree
  <1>1. SerialInv => SignaturesAgree
    BY DEF SerialInv, HashIsFixed, SignaturesAgree
  <1> QED BY SerialInvariance, <1>1, PTL

(* The edit check is enough where requests do not overlap: no content      *)
(* changes after the first signature ...                                   *)
THEOREM LoneEditsStop ==
  ASSUME OneAtATime
  PROVE  Spec => NoEditAfterFirstSignature
  <1>1. [NothingUndone]_vars => [Signed # {} => document'.content = document.content]_vars
    BY DEF NothingUndone
  <1> QED BY Invariance, SerialInvariance, SerialUndoesNothing, <1>1, PTL
          DEF Spec, NoEditAfterFirstSignature

(* ... and no signer is added.                                             *)
THEOREM LoneSignersStop ==
  ASSUME OneAtATime
  PROVE  Spec => NoSignerAfterFirstSignature
  <1>1. [NothingUndone]_vars => [Signed # {} => Present' \subseteq Present]_vars
    BY DEF NothingUndone
  <1> QED BY Invariance, SerialInvariance, SerialUndoesNothing, <1>1, PTL
          DEF Spec, NoSignerAfterFirstSignature

(* Nor does a signer who has signed lose his mark to a page, a choice of   *)
(* method or a failed code.                                                *)
THEOREM LoneSignersStaySigned ==
  ASSUME OneAtATime
  PROVE  Spec => SignedSignerStaysSigned
  <1>1. [NothingUndone]_vars => [Signed \subseteq Signed']_vars
    BY DEF NothingUndone
  <1> QED BY Invariance, SerialInvariance, SerialUndoesNothing, <1>1, PTL
          DEF Spec, SignedSignerStaysSigned

(* What a completion has counted is what it would count when it commits.   *)
CountIsFresh(r) ==
  request[r].pc \in LockingPc =>
    request[r].doc.status = RecalculatedStatus(Signed \cup {request[r].who})

(* The recounts of SMS and ECP are fresh when taken ...                    *)
LEMMA StepCountsFresh ==
  ASSUME IInv, NEW r \in Requests, Step(r)
  PROVE  CountIsFresh(r)'
  <1>t. TypeOK
    BY DEF IInv
  <1>1. ASSUME NEW s \in Signers, request'[r].who = s, UNCHANGED signer,
               request'[r].doc.status = RecalculatedStatus(Signed \cup {s})
        PROVE  CountIsFresh(r)'
    BY <1>1 DEF CountIsFresh, RecalculatedStatus, Present, Signed
  <1>2. ASSUME NEW s \in Signers, CompleteSms(r, s)
        PROVE  CountIsFresh(r)'
    <2>1. /\ request'[r].who = s /\ UNCHANGED signer
          /\ request'[r].doc.status = RecalculatedStatus(Signed \cup {s})
      BY <1>t, <1>2 DEF CompleteSms, db, TypeOK, DocumentRow
    <2> QED BY <1>1, <2>1
  <1>3. CASE EcpValid(r)
    <2>1. PICK s \in Signers : s = request[r].who
      BY <1>3 DEF EcpValid, At, IInv, RequestInv, CallerIsSigner, NobodyPc, Known
    <2>2. /\ request'[r].who = s /\ UNCHANGED signer
          /\ request'[r].doc.status = RecalculatedStatus(Signed \cup {s})
      BY <1>t, <1>3, <2>1 DEF EcpValid, Proceed, db, TypeOK, Call, DocumentRow
    <2> QED BY <1>1, <2>2
  <1> QED BY <1>t, <1>2, <1>3, WaysToCommit DEF CountIsFresh, LockingPc

(* ... and stay so until the only request commits them.                    *)
LEMMA CountsStayFresh ==
  ASSUME OneAtATime
  PROVE  Spec => [](\A r \in Requests : CountIsFresh(r))
  <1> DEFINE Fresh == \A r \in Requests : CountIsFresh(r)
  <1>1. Init => Fresh
    BY DEF Init, Idle, CountIsFresh, LockingPc
  <1>2. IInv /\ Fresh /\ [Next]_vars => Fresh'
    <2> SUFFICES ASSUME IInv, Fresh, [Next]_vars PROVE Fresh'
      OBVIOUS
    <2>1. CASE Next
      <3>1. PICK r \in Requests : Step(r)
        BY <2>1, NextSteps
      <3> QED BY <3>1, StepCountsFresh, OneAtATime DEF OneAtATime
    <2>2. CASE UNCHANGED vars
      BY <2>2 DEF vars, CountIsFresh, RecalculatedStatus, Present, Signed
    <2> QED BY <2>1, <2>2
  <1> QED BY Invariance, <1>1, <1>2, PTL DEF Spec

SignsDocument(s) ==
  (/\ s \notin Signed /\ s \in Signed'
   /\ Present' \subseteq Signed'
   /\ signature'[s].provider # "egov_mobile")
    => document'.status = "signed"

(* Of requests that do not overlap, the SMS or ECP completion of the last  *)
(* missing signer marks the document as signed, crashed and rejected       *)
(* attempts and eGov Mobile signatures before it notwithstanding.          *)
THEOREM LoneCompletionsSign ==
  ASSUME OneAtATime
  PROVE  Spec => LastCompletionSignsDocument
  <1> DEFINE Fresh == \A r \in Requests : CountIsFresh(r)
  <1>1. ASSUME IInv, Counting, Fresh, Next, NEW s \in Signers
        PROVE  SignsDocument(s)
    <2> SUFFICES ASSUME s \notin Signed, s \in Signed', Present' \subseteq Signed',
                        signature'[s].provider # "egov_mobile"
                 PROVE  document'.status = "signed"
      BY DEF SignsDocument
    <2>1. PICK r \in Requests : Step(r)
      BY <1>1, NextSteps
    <2>t. TypeOK /\ RequestInv(r) /\ EgovIsNotSms(r) /\ CountIsFresh(r) /\ Respects(r)
      BY <1>1, <2>1, StepRespects DEF IInv, Counting
    <2>2. CASE CommitSms(r) \/ CommitEcp(r)
      <3>1. /\ request[r].pc \in LockingPc
            /\ document'.status = request[r].doc.status
            /\ Signed' \subseteq Signed \cup {request[r].who}
        BY <2>2, <2>t
           DEF CommitSms, CommitEcp, SaveDocument, At, LockingPc, Signed, TypeOK,
               DocumentRow
      <3>2. Present \subseteq Signed \cup {request[r].who}
        BY <2>t, <3>1 DEF Respects, Known, Present
      <3>3. Present # {}
        BY <2>t, <3>1 DEF RequestInv, CallerIsSigner, Known, Present, NobodyPc, LockingPc
      <3> QED BY <2>t, <3>1, <3>2, <3>3 DEF CountIsFresh, RecalculatedStatus
    <2>3. CASE SaveEgovSigner(r)
      <3>1. s = request[r].who
        BY <2>3, <2>t DEF SaveEgovSigner, SaveSigner, Signed, TypeOK
      <3>2. signature'[s].provider = "egov_mobile"
        BY <2>3, <2>t, <3>1 DEF SaveEgovSigner, At, EgovIsNotSms
      <3> QED BY <3>2
    <2> QED BY <1>1, <2>1, <2>2, <2>3, ThreeActionsFinish
  <1>2. IInv /\ Counting /\ Fresh /\ [Next]_vars
          => [\A s \in Signers : SignsDocument(s)]_vars
    BY <1>1
  <1> QED BY Invariance, CountingInvariance, CountsStayFresh, <1>2, PTL
          DEF Spec, LastCompletionSignsDocument, SignsDocument

=============================================================================
