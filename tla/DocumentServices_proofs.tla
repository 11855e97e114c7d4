----------------------- MODULE DocumentServices_proofs -----------------------
(***************************************************************************)
(* Theorems about three services that read a file, work on it and write    *)
(* under a name they fixed before: submissions to the ledger, LawVision's  *)
(* reports and a template's file.  Each needs to know what a request's     *)
(* copy still says of the row that others have changed meanwhile.  Where   *)
(* nobody has, a template's file, schema and preview fit together.  Then   *)
(* theorems about MoneyWords: the words of any amount say that amount.     *)
(***************************************************************************)
EXTENDS Ledger, LawVision, Templates, MoneyWords, SequenceTheorems,
        WellFoundedInduction, TLAPS

-----------------------------------------------------------------------------
(***************************************************************************)
(* Ledger.  As long as no two submissions run beside each other, a         *)
(* submitted record points at the PDF the ledger holds, and the ledger     *)
(* holds it once, whatever fails, dies or is not heard.                    *)
(***************************************************************************)
(* Beyond the look at the record, nobody submits what is submitted.        *)
PastClaim == {"reset", "export", "store", "post", "apply", "fail"}

(* Who submits, does so alone.                                             *)
OneSubmission ==
  ~ldgContested =>
    \A q, r \in LdgRequests : Submitting(q) /\ Submitting(r) => q = r

(* Nobody is beyond the look at a record that says SUBMITTED.              *)
QuietOnceSubmitted ==
  ~ldgContested /\ ldgRecord.status = "submitted" =>
    \A r \in LdgRequests : ldgCall[r].pc \notin PastClaim

(* An answer comes from a ledger that has the PDF.                         *)
AnswersAreLedgered ==
  \A r \in LdgRequests : LdgAt(r, "apply") => ldgCall[r].pdf \in ldgEntries

(* Until the record says SUBMITTED no answer of the ledger was applied.    *)
UnsubmittedIsUnheard ==
  ~ldgContested /\ ldgRecord.status # "submitted" => ldgEntries \subseteq ldgUnheard

LdgInv ==
  /\ LdgTypeOK
  /\ OneSubmission
  /\ QuietOnceSubmitted
  /\ AnswersAreLedgered
  /\ UnsubmittedIsUnheard
  /\ SubmittedIsProven
  /\ LedgeredOnceUnlessUnheard

-----------------------------------------------------------------------------
LEMMA LdgIdleIsCall == LdgIdle \in LdgCall
BY LdgAssumption DEF LdgIdle, LdgCall, LdgPc, Pdfs

LEMMA NoRecordIsRecord == NoRecord \in LedgerRecord
BY LdgAssumption DEF NoRecord, LedgerRecord, RecordStatus, Verified, Pdfs

LEMMA LdgInitTypes == LdgInit => LdgTypeOK
<1> SUFFICES ASSUME LdgInit PROVE LdgTypeOK
  OBVIOUS
<1>1. ldgMissing \in 0 .. LdgSigners /\ ldgPdfs \in Pdfs
  BY LdgAssumption DEF LdgInit, Pdfs
<1>2. ldgRecord \in LedgerRecord
  BY NoRecordIsRecord DEF LdgInit
<1>3. ldgEntries \subseteq Pdfs /\ ldgUnheard \subseteq Pdfs /\ ldgContested \in BOOLEAN
  BY DEF LdgInit
<1>4. ldgCall \in [LdgRequests -> LdgCall]
  BY LdgIdleIsCall DEF LdgInit
<1> QED  BY <1>1, <1>2, <1>3, <1>4 DEF LdgTypeOK

LEMMA LdgStepTypes ==
  ASSUME LdgTypeOK, [LdgNext]_ldgVars
  PROVE  LdgTypeOK'
<1> USE LdgAssumption, LdgIdleIsCall DEF LdgTypeOK, LdgAt, LdgGoto, LdgReturn, LdgCall, LdgPc
<1>1. CASE UNCHANGED ldgVars
  BY <1>1 DEF ldgVars
<1>2. ASSUME NEW r \in LdgRequests, Complete(r) PROVE LdgTypeOK'
  BY <1>2 DEF Complete
<1>3. ASSUME NEW r \in LdgRequests, Callback(r) PROVE LdgTypeOK'
  BY <1>3 DEF Callback
<1>4. ASSUME NEW r \in LdgRequests, GetOrCreate(r) PROVE LdgTypeOK'
  BY <1>4, NoRecordIsRecord DEF GetOrCreate, LedgerRecord, RecordStatus
<1>5. ASSUME NEW r \in LdgRequests, ResetRecord(r) PROVE LdgTypeOK'
  BY <1>5 DEF ResetRecord, LedgerRecord, RecordStatus, Verified
<1>6. ASSUME NEW r \in LdgRequests, ExportPdf(r) PROVE LdgTypeOK'
  BY <1>6 DEF ExportPdf
<1>7. ASSUME NEW r \in LdgRequests, StorePdf(r) PROVE LdgTypeOK'
  BY <1>7 DEF StorePdf, RecordedPdf, LedgerRecord, Pdfs
<1>8. ASSUME NEW r \in LdgRequests, PostPdf(r) PROVE LdgTypeOK'
  BY <1>8 DEF PostPdf
<1>9. ASSUME NEW r \in LdgRequests, ApplySuccess(r) PROVE LdgTypeOK'
  BY <1>9 DEF ApplySuccess, RecordedPdf, LedgerRecord, RecordStatus, Verified
<1>10. ASSUME NEW r \in LdgRequests, MarkFailed(r) PROVE LdgTypeOK'
  BY <1>10 DEF MarkFailed, LedgerRecord, RecordStatus
<1>11. ASSUME NEW r \in LdgRequests, BeginVerify(r) PROVE LdgTypeOK'
  BY <1>11 DEF BeginVerify, LedgerRecord
<1>12. ASSUME NEW r \in LdgRequests, SaveVerification(r) PROVE LdgTypeOK'
  BY <1>12 DEF SaveVerification, LedgerRecord, Verified
<1>13. ASSUME NEW r \in LdgRequests, LdgCrash(r) PROVE LdgTypeOK'
  BY <1>13 DEF LdgCrash
<1> QED
  BY <1>1, <1>2, <1>3, <1>4, <1>5, <1>6, <1>7, <1>8, <1>9, <1>10, <1>11, <1>12, <1>13
  DEF LdgNext

-----------------------------------------------------------------------------
(* A request at rest submits nothing and has no answer.                    *)
LEMMA IdleSubmitsNothing ==
  ASSUME NEW r \in LdgRequests, ldgCall[r].pc \in {"idle", "callback", "verify"}
  PROVE  ~Submitting(r) /\ ldgCall[r].pc \notin PastClaim /\ ~LdgAt(r, "apply")
BY DEF Submitting, PastClaim, LdgAt

(* Two submissions run beside each other only after one saw the other.     *)
LEMMA StepOneSubmission ==
  ASSUME LdgInv, LdgTypeOK', [LdgNext]_ldgVars
  PROVE  OneSubmission'
<1> USE DEF LdgInv, LdgTypeOK, OneSubmission, Submitting, LdgAt, LdgGoto, LdgReturn, LdgCall, LdgIdle
<1>1. CASE UNCHANGED ldgVars
  BY <1>1 DEF ldgVars
<1>2. ASSUME NEW r \in LdgRequests, Callback(r) PROVE OneSubmission'
  <2>1. \A q \in LdgRequests \ {r} : ldgCall'[q] = ldgCall[q]
    BY <1>2 DEF Callback
  <2>2. CASE ldgMissing # 0
    <3>1. ldgCall'[r].pc = "idle" /\ ldgContested' = ldgContested
      BY <1>2, <2>2 DEF Callback
    <3> QED  BY <2>1, <3>1
  <2>3. CASE ldgMissing = 0
    <3>1. ~ldgContested' => \A q \in LdgRequests : ~Submitting(q)
      BY <1>2, <2>3 DEF Callback
    <3> QED  BY <2>1, <3>1
  <2> QED  BY <2>2, <2>3
<1>3. ASSUME NEW r \in LdgRequests,
             Complete(r) \/ BeginVerify(r) \/ SaveVerification(r) \/ LdgCrash(r)
      PROVE  OneSubmission'
  BY <1>3 DEF Complete, BeginVerify, SaveVerification, LdgCrash
<1>4. ASSUME NEW r \in LdgRequests,
             GetOrCreate(r) \/ ResetRecord(r) \/ ExportPdf(r) \/ StorePdf(r)
      PROVE  OneSubmission'
  BY <1>4 DEF GetOrCreate, ResetRecord, ExportPdf, StorePdf
<1>5. ASSUME NEW r \in LdgRequests,
             PostPdf(r) \/ ApplySuccess(r) \/ MarkFailed(r)
      PROVE  OneSubmission'
  BY <1>5 DEF PostPdf, ApplySuccess, MarkFailed
<1> QED
  BY <1>1, <1>2, <1>3, <1>4, <1>5 DEF LdgNext

(* Only the one who submits changes the record's status.                   *)
LEMMA StepQuiet ==
  ASSUME LdgInv, LdgTypeOK', [LdgNext]_ldgVars
  PROVE  QuietOnceSubmitted'
<1> USE DEF LdgInv, LdgTypeOK, OneSubmission, QuietOnceSubmitted, Submitting, PastClaim,
            LdgAt, LdgGoto, LdgReturn, LdgCall, LdgIdle
<1>1. CASE UNCHANGED ldgVars
  BY <1>1 DEF ldgVars
<1>2. ASSUME NEW r \in LdgRequests,
             Callback(r) \/ Complete(r) \/ BeginVerify(r) \/ LdgCrash(r)
      PROVE  QuietOnceSubmitted'
  BY <1>2 DEF Callback, Complete, BeginVerify, LdgCrash
<1>3. ASSUME NEW r \in LdgRequests, SaveVerification(r) PROVE QuietOnceSubmitted'
  BY <1>3 DEF SaveVerification, LedgerRecord
<1>4. ASSUME NEW r \in LdgRequests, GetOrCreate(r) PROVE QuietOnceSubmitted'
  <2>1. CASE ldgRecord.status = "absent"
    <3>1. ldgRecord'.status = "pending"
      BY <1>4, <2>1, NoRecordIsRecord DEF GetOrCreate, LedgerRecord
    <3> QED  BY <3>1
  <2>2. CASE ldgRecord.status # "absent"
    BY <1>4, <2>2 DEF GetOrCreate, NeedsSubmission
  <2> QED  BY <2>1, <2>2
<1>5. ASSUME NEW r \in LdgRequests, ResetRecord(r) PROVE QuietOnceSubmitted'
  BY <1>5 DEF ResetRecord, LedgerRecord
<1>6. ASSUME NEW r \in LdgRequests, ExportPdf(r) \/ PostPdf(r) PROVE QuietOnceSubmitted'
  BY <1>6 DEF ExportPdf, PostPdf
<1>7. ASSUME NEW r \in LdgRequests, StorePdf(r) PROVE QuietOnceSubmitted'
  BY <1>7 DEF StorePdf, LedgerRecord
<1>8. ASSUME NEW r \in LdgRequests, ApplySuccess(r) PROVE QuietOnceSubmitted'
  BY <1>8 DEF ApplySuccess
<1>9. ASSUME NEW r \in LdgRequests, MarkFailed(r) PROVE QuietOnceSubmitted'
  BY <1>9 DEF MarkFailed, LedgerRecord
<1> QED
  BY <1>1, <1>2, <1>3, <1>4, <1>5, <1>6, <1>7, <1>8, <1>9 DEF LdgNext

(* The ledger forgets nothing, and an answer is an answer to a post.       *)
LEMMA StepAnswers ==
  ASSUME LdgInv, LdgTypeOK', [LdgNext]_ldgVars
  PROVE  AnswersAreLedgered'
<1> USE DEF LdgInv, LdgTypeOK, AnswersAreLedgered, LdgAt, LdgGoto, LdgReturn, LdgCall, LdgIdle
<1>1. CASE UNCHANGED ldgVars
  BY <1>1 DEF ldgVars
<1>2. ASSUME NEW r \in LdgRequests,
             Callback(r) \/ Complete(r) \/ BeginVerify(r) \/ SaveVerification(r) \/ LdgCrash(r)
      PROVE  AnswersAreLedgered'
  BY <1>2 DEF Callback, Complete, BeginVerify, SaveVerification, LdgCrash
<1>3. ASSUME NEW r \in LdgRequests,
             GetOrCreate(r) \/ ResetRecord(r) \/ ExportPdf(r) \/ StorePdf(r)
      PROVE  AnswersAreLedgered'
  BY <1>3 DEF GetOrCreate, ResetRecord, ExportPdf, StorePdf
<1>4. ASSUME NEW r \in LdgRequests, PostPdf(r) PROVE AnswersAreLedgered'
  <2>1. ldgEntries \subseteq ldgEntries'
    BY <1>4 DEF PostPdf
  <2>2. ASSUME NEW q \in LdgRequests, ldgCall'[q].pc = "apply"
        PROVE  ldgCall'[q].pdf \in ldgEntries'
    <3>1. CASE q = r
      BY <1>4, <2>2, <3>1 DEF PostPdf
    <3>2. CASE q # r
      <4>1. ldgCall'[q] = ldgCall[q]
        BY <1>4, <3>2 DEF PostPdf
      <4> QED  BY <2>1, <2>2, <4>1
    <3> QED  BY <3>1, <3>2
  <2> QED  BY <2>2
<1>5. ASSUME NEW r \in LdgRequests, ApplySuccess(r) \/ MarkFailed(r)
      PROVE  AnswersAreLedgered'
  <2>1. ldgEntries' = ldgEntries /\ ldgCall' = [ldgCall EXCEPT ![r] = LdgIdle]
    BY <1>5 DEF ApplySuccess, MarkFailed
  <2> QED  BY <2>1
<1> QED
  BY <1>1, <1>2, <1>3, <1>4, <1>5 DEF LdgNext

(* What the record says of the ledger, as long as nobody competes.         *)
LEMMA StepRecord ==
  ASSUME LdgInv, LdgTypeOK', [LdgNext]_ldgVars
  PROVE  UnsubmittedIsUnheard' /\ SubmittedIsProven' /\ LedgeredOnceUnlessUnheard'
<1> DEFINE Goal == UnsubmittedIsUnheard /\ SubmittedIsProven /\ LedgeredOnceUnlessUnheard
<1> USE DEF LdgInv, LdgTypeOK, UnsubmittedIsUnheard, SubmittedIsProven,
            LedgeredOnceUnlessUnheard, LdgAt
<1>1. CASE UNCHANGED ldgVars
  BY <1>1 DEF ldgVars
<1>2. ASSUME NEW r \in LdgRequests,
             \/ Callback(r) \/ Complete(r) \/ BeginVerify(r) \/ ExportPdf(r) \/ LdgCrash(r)
      PROVE  Goal'
  BY <1>2 DEF Callback, Complete, BeginVerify, ExportPdf, LdgCrash
<1>3. ASSUME NEW r \in LdgRequests, SaveVerification(r) PROVE Goal'
  BY <1>3 DEF SaveVerification, LedgerRecord
<1>4. ASSUME NEW r \in LdgRequests, GetOrCreate(r) PROVE Goal'
  BY <1>4 DEF GetOrCreate, NoRecord, LedgerRecord
<1>5. ASSUME NEW r \in LdgRequests, ResetRecord(r) PROVE Goal'
  BY <1>5 DEF ResetRecord, LedgerRecord, QuietOnceSubmitted, PastClaim
<1>6. ASSUME NEW r \in LdgRequests, StorePdf(r) PROVE Goal'
  BY <1>6 DEF StorePdf, LedgerRecord, QuietOnceSubmitted, PastClaim
<1>7. ASSUME NEW r \in LdgRequests, PostPdf(r) PROVE Goal'
  BY <1>7 DEF PostPdf, QuietOnceSubmitted, PastClaim
<1>8. ASSUME NEW r \in LdgRequests, ApplySuccess(r) PROVE Goal'
  BY <1>8 DEF ApplySuccess, RecordedPdf, QuietOnceSubmitted, PastClaim, AnswersAreLedgered
<1>9. ASSUME NEW r \in LdgRequests, MarkFailed(r) PROVE Goal'
  BY <1>9 DEF MarkFailed, LedgerRecord, QuietOnceSubmitted, PastClaim
<1> QED
  BY <1>1, <1>2, <1>3, <1>4, <1>5, <1>6, <1>7, <1>8, <1>9 DEF LdgNext

-----------------------------------------------------------------------------
(* LdgInv is inductive.                                                    *)
THEOREM LedgerInvariant == LdgSpec => []LdgInv
<1>1. LdgInit => LdgInv
  <2> SUFFICES ASSUME LdgInit PROVE LdgInv
    OBVIOUS
  <2>1. \A r \in LdgRequests : ldgCall[r].pc = "idle"
    BY DEF LdgInit, LdgIdle
  <2>2. OneSubmission /\ QuietOnceSubmitted /\ AnswersAreLedgered
    BY <2>1 DEF OneSubmission, QuietOnceSubmitted, AnswersAreLedgered, Submitting, PastClaim, LdgAt
  <2>3. ldgRecord.status = "absent" /\ ldgEntries = {}
    BY DEF LdgInit, NoRecord
  <2>4. UnsubmittedIsUnheard /\ SubmittedIsProven /\ LedgeredOnceUnlessUnheard
    BY <2>3 DEF UnsubmittedIsUnheard, SubmittedIsProven, LedgeredOnceUnlessUnheard
  <2> QED  BY LdgInitTypes, <2>2, <2>4 DEF LdgInv
<1>2. LdgInv /\ [LdgNext]_ldgVars => LdgInv'
  <2> SUFFICES ASSUME LdgInv, [LdgNext]_ldgVars PROVE LdgInv'
    OBVIOUS
  <2>1. LdgTypeOK'
    BY LdgStepTypes DEF LdgInv
  <2> QED  BY <2>1, StepOneSubmission, StepQuiet, StepAnswers, StepRecord DEF LdgInv
<1> QED  BY <1>1, <1>2, PTL DEF LdgSpec

(* The tables of the ledger service keep their types.                      *)
THEOREM LedgerTypeCorrect == LdgSpec => []LdgTypeOK
<1>1. LdgInv => LdgTypeOK
  BY DEF LdgInv
<1> QED  BY <1>1, LedgerInvariant, PTL

(* Whatever failed or was lost, what a record that was never contested     *)
(* calls submitted is the PDF the ledger holds                             *)
(* (document_ledger_service.py:91-97, 201-252).                            *)
THEOREM SubmittedRecordsAreProven == LdgSpec => []SubmittedIsProven
<1>1. LdgInv => SubmittedIsProven
  BY DEF LdgInv
<1> QED  BY <1>1, LedgerInvariant, PTL

(* Without a competitor only an answer nobody heard puts a document into   *)
(* the ledger a second time (document_ledger_service.py:48-49).            *)
THEOREM DocumentsAreLedgeredOnce == LdgSpec => []LedgeredOnceUnlessUnheard
<1>1. LdgInv => LedgeredOnceUnlessUnheard
  BY DEF LdgInv
<1> QED  BY <1>1, LedgerInvariant, PTL

-----------------------------------------------------------------------------
(***************************************************************************)
(* LawVision                                                               *)
(***************************************************************************)
Reporting == {"create", "post", "success", "failure"}

(* A loaded content that is not the present one has been overlapped, ...   *)
CopyIsTold(r) ==
  lvCall[r].pc = "ensure" =>
    /\ lvCall[r].content # lvContent => lvContent \in lvOverlapped
    /\ lvCall[r].content \notin lvOverlapped
         => lvCall[r].hash \in {0, lvCall[r].content}

(* ... and so has one that is reported under the hash of another.          *)
KeyIsTold(r) ==
  lvCall[r].pc \in Reporting \cup {"lookup"} =>
    lvCall[r].content \in lvOverlapped \cup {lvCall[r].key}

(* Posts are counted from zero.                                            *)
PostsRemain(r) ==
  /\ lvCall[r].pc \in {"ensure", "lookup", "create"} => lvCall[r].posts = 0
  /\ lvCall[r].pc = "post" => lvCall[r].posts < RetryDelays

(* Only forced requests are about to replace a report that was successful  *)
(* before any other had looked for it.                                     *)
ForcedOnly(r) ==
  \A h \in LvVersion \ {0} :
    (/\ lvReport[h].status = "success"
     /\ ~lvReport[h].beside
     /\ lvCall[r].pc \in Reporting
     /\ lvCall[r].key = h)
      => lvCall[r].force

LvCallInv(r) == CopyIsTold(r) /\ KeyIsTold(r) /\ PostsRemain(r) /\ ForcedOnly(r)

LvInv ==
  /\ LvTypeOK
  /\ HashesTellContents
  /\ \A r \in LvRequests : LvCallInv(r)

LvStep(r) ==
  \/ LoadDocument(r) \/ EnsureContentHash(r) \/ LookUpReport(r) \/ StartReport(r)
  \/ PostForAnalysis(r) \/ SaveReport(r) \/ LvCrash(r)

(* Numbers that name a version.                                            *)
LEMMA LvVersions ==
  /\ 0 \in LvVersion /\ 1 \in LvVersion
  /\ \A v \in LvVersion : v < LvContents => v + 1 \in LvVersion
  BY LvAssumption DEF LvVersion

(* An idle slot is a call like any other.                                  *)
LEMMA LvIdleTyped == LvIdle \in LvCall
  BY LvAssumption, LvVersions DEF LvIdle, LvCall

(* A request that has returned relies on nothing.                          *)
LEMMA LvIdleKeeps ==
  ASSUME LvTypeOK, NEW r \in LvRequests, LvReturn(r)
  PROVE  LvCallInv(r)'
  BY
     DEF LvTypeOK, LvReturn, LvIdle, LvCallInv, CopyIsTold, KeyIsTold, PostsRemain,
         ForcedOnly, Reporting

(* The invariant holds initially.                                          *)
LEMMA LvInitInv == LvInit => LvInv
  <1> SUFFICES ASSUME LvInit PROVE LvInv
    OBVIOUS
  <1>1. LvTypeOK
    <2>1. NoReport \in LvReport
      BY LvVersions DEF NoReport, LvReport
    <2> QED BY <2>1, LvVersions, LvIdleTyped DEF LvInit, LvTypeOK
  <1>2. HashesTellContents
    BY DEF LvInit, HashesTellContents, NoReport
  <1>3. \A r \in LvRequests : LvCallInv(r)
    BY
       DEF LvInit, LvIdle, LvCallInv, CopyIsTold, KeyIsTold, PostsRemain, ForcedOnly,
           Reporting
  <1> QED BY <1>1, <1>2, <1>3 DEF LvInv

(* An edit is told to every request that has loaded the document and not   *)
(* yet saved its hash.                                                     *)
LEMMA EditKeeps ==
  ASSUME LvInv, LvEdit
  PROVE  LvInv'
  <1> USE DEF LvInv, LvTypeOK
  <1>1. lvContent' \in LvVersion \ {0} /\ lvHash' = lvContent'
    BY LvVersions DEF LvEdit, HashAfterEdit, LvVersion
  <1>2. lvOverlapped \subseteq lvOverlapped' /\ lvOverlapped' \subseteq LvVersion
    BY <1>1 DEF LvEdit
  <1>3. LvTypeOK'
    BY <1>1, <1>2 DEF LvEdit
  <1>4. HashesTellContents'
    BY <1>1, <1>2 DEF LvEdit, HashesTellContents
  <1>5. ASSUME NEW r \in LvRequests
        PROVE  LvCallInv(r)'
    <2>1. lvCall[r].pc = "ensure" => lvContent' \in lvOverlapped'
      BY DEF LvEdit, Ensuring, LvAt
    <2> QED
      BY <1>2, <2>1
         DEF LvEdit, LvCallInv, CopyIsTold, KeyIsTold, PostsRemain, ForcedOnly
  <1> QED BY <1>3, <1>4, <1>5

(* A signature closes the document and changes nothing a request relies on.*)
LEMMA SignKeeps ==
  ASSUME LvInv, LvSign
  PROVE  LvInv'
  BY
     DEF LvInv, LvSign, LvTypeOK, HashesTellContents, LvCallInv, CopyIsTold,
         KeyIsTold, PostsRemain, ForcedOnly

(* A step of one request leaves the others alone as long as it writes no   *)
(* report that another is about to replace unforced.                       *)
LEMMA OtherCallsKeep ==
  ASSUME LvInv, NEW r \in LvRequests, NEW q \in LvRequests \ {r},
         lvCall'[q] = lvCall[q], UNCHANGED <<lvContent, lvOverlapped>>,
         ForcedOnly(q)'
  PROVE  LvCallInv(q)'
  BY DEF LvInv, LvCallInv, CopyIsTold, KeyIsTold, PostsRemain

(* The type of what a request writes.                                      *)
LEMMA LvStepTyped ==
  ASSUME LvInv, NEW r \in LvRequests, LvStep(r)
  PROVE  LvTypeOK'
  <1> USE DEF LvInv, LvTypeOK
  <1>1. CASE LoadDocument(r)
    <2>1. ASSUME NEW force \in BOOLEAN
          PROVE  [LvIdle EXCEPT !.pc = "ensure", !.content = lvContent,
                                !.hash = lvHash, !.force = force] \in LvCall
      BY LvIdleTyped, <2>1 DEF LvCall, LvIdle
    <2> QED BY <1>1, <2>1 DEF LoadDocument
  <1>2. CASE EnsureContentHash(r)
    <2>1. ReportKey(lvCall[r]) \in LvVersion
      BY DEF ReportKey, LvCall
    <2> QED BY <1>2, <2>1 DEF EnsureContentHash, LvCall
  <1>3. CASE LookUpReport(r)
    BY <1>3, LvIdleTyped DEF LookUpReport, LvReturn, LvCall
  <1>4. CASE StartReport(r)
    BY <1>4 DEF StartReport, LvCall, LvReport
  <1>5. CASE PostForAnalysis(r)
    <2>1. lvCall[r].posts + 1 \in 0 .. RetryDelays
      BY <1>5, LvAssumption DEF PostForAnalysis, LvAt, LvCallInv, PostsRemain, LvCall
    <2> QED BY <1>5, <2>1 DEF PostForAnalysis, LvCall
  <1>6. CASE SaveReport(r)
    <2>1. lvCall' \in [LvRequests -> LvCall]
      BY <1>6, LvIdleTyped DEF SaveReport, LvReturn
    <2>2. Beside(r) \in BOOLEAN
      BY DEF Beside
    <2>3. [status |-> "success", of |-> lvCall[r].content, beside |-> Beside(r)] \in LvReport
      BY <2>2 DEF LvReport, LvCall
    <2>4. lvReport' \in [LvVersion \ {0} -> LvReport]
      <3>1. CASE LvAt(r, "success")
        BY <1>6, <2>3, <3>1 DEF SaveReport, LvAt
      <3>2. CASE LvAt(r, "failure")
        BY <1>6, <3>2 DEF SaveReport, LvAt, LvReport
      <3> QED BY <1>6, <3>1, <3>2 DEF SaveReport
    <2> QED BY <1>6, <2>1, <2>4 DEF SaveReport
  <1>7. CASE LvCrash(r)
    BY <1>7, LvIdleTyped DEF LvCrash, LvReturn
  <1> QED BY <1>1, <1>2, <1>3, <1>4, <1>5, <1>6, <1>7 DEF LvStep

(* The hash that a request saves is that of its copy, and a report is of   *)
(* the content that its key or an overlap tells.                           *)
LEMMA LvStepTells ==
  ASSUME LvInv, NEW r \in LvRequests, LvStep(r)
  PROVE  HashesTellContents'
  <1> USE DEF LvInv, LvTypeOK
  <1>1. CASE EnsureContentHash(r)
    <2>1. lvCall[r].content # lvContent => lvContent \in lvOverlapped
      BY <1>1 DEF EnsureContentHash, Ensuring, LvAt, LvCallInv, CopyIsTold
    <2> QED BY <1>1, <2>1 DEF EnsureContentHash, HashesTellContents
  <1>2. CASE SaveReport(r)
    <2>1. lvCall[r].content \in lvOverlapped \cup {lvCall[r].key}
      BY <1>2 DEF SaveReport, LvAt, LvCallInv, KeyIsTold, Reporting
    <2>2. ASSUME NEW h \in LvVersion \ {0}
          PROVE  \/ lvReport'[h].of = lvReport[h].of
                 \/ h = lvCall[r].key /\ lvReport'[h].of = lvCall[r].content
      <3>1. CASE LvAt(r, "success")
        BY <1>2, <3>1 DEF SaveReport, LvAt
      <3>2. CASE LvAt(r, "failure")
        BY <1>2, <3>2 DEF SaveReport, LvAt, LvReport
      <3> QED BY <1>2, <3>1, <3>2 DEF SaveReport
    <2> QED BY <1>2, <2>1, <2>2 DEF SaveReport, HashesTellContents
  <1>3. CASE StartReport(r)
    <2>1. \A h \in LvVersion \ {0} : lvReport'[h].of = lvReport[h].of
      BY <1>3 DEF StartReport, LvReport
    <2> QED BY <1>3, <2>1 DEF StartReport, HashesTellContents
  <1>4. CASE LoadDocument(r) \/ LookUpReport(r) \/ PostForAnalysis(r) \/ LvCrash(r)
    BY <1>4 DEF LoadDocument, LookUpReport, PostForAnalysis, LvCrash, HashesTellContents
  <1> QED BY <1>1, <1>2, <1>3, <1>4 DEF LvStep

(* What the request itself relies on afterwards.                           *)
LEMMA LvStepOwn ==
  ASSUME LvInv, NEW r \in LvRequests, LvStep(r)
  PROVE  LvCallInv(r)'
  <1> USE DEF LvInv, LvTypeOK
  <1>c. LvCallInv(r) /\ lvCall[r] \in LvCall
    OBVIOUS
  <1>1. CASE LoadDocument(r)
    <2>1. PICK force \in BOOLEAN :
            lvCall'[r] = [LvIdle EXCEPT !.pc = "ensure", !.content = lvContent,
                                        !.hash = lvHash, !.force = force]
      BY <1>1 DEF LoadDocument
    <2>2. /\ lvCall'[r].pc = "ensure" /\ lvCall'[r].posts = 0
          /\ lvCall'[r].content = lvContent /\ lvCall'[r].hash = lvHash
      BY <2>1 DEF LvIdle
    <2> QED
      BY <1>1, <2>2
         DEF LoadDocument, HashesTellContents, LvCallInv, CopyIsTold, KeyIsTold,
             PostsRemain, ForcedOnly, Reporting
  <1>2. CASE EnsureContentHash(r)
    <2>1. /\ lvCall'[r].pc = "lookup" /\ lvCall'[r].key = ReportKey(lvCall[r])
          /\ lvCall'[r].content = lvCall[r].content
          /\ lvCall'[r].posts = lvCall[r].posts
      BY <1>2, <1>c DEF EnsureContentHash, LvCall
    <2>2. lvCall[r].content \in lvOverlapped \cup {ReportKey(lvCall[r])}
      BY <1>2, <1>c
         DEF EnsureContentHash, Ensuring, LvAt, LvCallInv, CopyIsTold, ReportKey,
             FixesHash
    <2> QED
      BY <1>2, <1>c, <2>1, <2>2
         DEF EnsureContentHash, Ensuring, LvAt, LvCallInv, CopyIsTold, KeyIsTold,
             PostsRemain, ForcedOnly, Reporting
  <1>3. CASE LookUpReport(r)
    <2>1. CASE Cached(r)
      BY <1>3, <2>1, LvIdleKeeps DEF LookUpReport
    <2>2. CASE ~Cached(r)
      <3>1. lvCall'[r] = [lvCall[r] EXCEPT !.pc = "create"]
        BY <1>3, <2>2 DEF LookUpReport
      <3> QED
        BY <1>3, <1>c, <2>2, <3>1
           DEF LookUpReport, LvAt, Cached, LvCall, LvCallInv, CopyIsTold, KeyIsTold,
               PostsRemain, ForcedOnly, Reporting
    <2> QED BY <2>1, <2>2
  <1>4. CASE StartReport(r)
    <2>1. lvCall'[r] = [lvCall[r] EXCEPT !.pc = "post"]
      BY <1>4 DEF StartReport
    <2>2. \A h \in LvVersion \ {0} :
            lvReport'[h].status = "success" => h # lvCall[r].key
      BY <1>4 DEF StartReport, LvReport
    <2> QED
      BY <1>4, <1>c, <2>1, <2>2, LvAssumption
         DEF StartReport, LvAt, LvCall, LvCallInv, CopyIsTold, KeyIsTold,
             PostsRemain, ForcedOnly, Reporting
  <1>5. CASE PostForAnalysis(r)
    <2>1. PICK pc \in {"post", "success", "failure"} :
            /\ pc = "post" => lvCall[r].posts + 1 < RetryDelays
            /\ lvCall'[r] = [lvCall[r] EXCEPT !.pc = pc, !.posts = lvCall[r].posts + 1]
      BY <1>5 DEF PostForAnalysis
    <2> QED
      BY <1>5, <1>c, <2>1
         DEF PostForAnalysis, LvAt, LvCall, LvCallInv, CopyIsTold, KeyIsTold,
             PostsRemain, ForcedOnly, Reporting
  <1>6. CASE SaveReport(r) \/ LvCrash(r)
    BY <1>6, LvIdleKeeps DEF SaveReport, LvCrash
  <1> QED BY <1>1, <1>2, <1>3, <1>4, <1>5, <1>6 DEF LvStep

(* What the others rely on: a successful report that is saved beside none  *)
(* of them is replaced by none of them.                                    *)
LEMMA LvStepOthers ==
  ASSUME LvInv, NEW r \in LvRequests, LvStep(r), NEW q \in LvRequests \ {r}
  PROVE  LvCallInv(q)'
  <1> USE DEF LvInv, LvTypeOK
  <1>1. lvCall'[q] = lvCall[q] /\ UNCHANGED <<lvContent, lvOverlapped>>
    BY
       DEF LvStep, LoadDocument, EnsureContentHash, LookUpReport, StartReport,
           PostForAnalysis, SaveReport, LvCrash, LvReturn
  <1>2. ForcedOnly(q)'
    <2>1. CASE UNCHANGED lvReport
      BY <1>1, <2>1 DEF LvCallInv, ForcedOnly
    <2>2. CASE StartReport(r)
      <3>1. ASSUME NEW h \in LvVersion \ {0}, lvReport'[h].status = "success"
            PROVE  lvReport'[h] = lvReport[h]
        BY <2>2, <3>1 DEF StartReport, LvReport
      <3> QED BY <1>1, <3>1 DEF LvCallInv, ForcedOnly
    <2>3. CASE SaveReport(r)
      <3>1. ASSUME NEW h \in LvVersion \ {0}, lvReport'[h].status = "success"
            PROVE  \/ lvReport'[h] = lvReport[h]
                   \/ h = lvCall[r].key /\ lvReport'[h].beside = Beside(r)
        <4>1. CASE LvAt(r, "success")
          BY <2>3, <4>1 DEF SaveReport, LvAt
        <4>2. CASE LvAt(r, "failure")
          BY <2>3, <3>1, <4>2 DEF SaveReport, LvAt, LvReport
        <4> QED BY <2>3, <4>1, <4>2 DEF SaveReport
      <3> QED BY <1>1, <3>1 DEF LvCallInv, ForcedOnly, Beside, Reporting
    <2> QED
      BY <2>1, <2>2, <2>3
         DEF LvStep, LoadDocument, EnsureContentHash, LookUpReport, PostForAnalysis,
             LvCrash
  <1> QED BY <1>1, <1>2, OtherCallsKeep

(* Every step keeps the invariant.                                         *)
LEMMA LvNextInv == LvInv /\ [LvNext]_lvVars => LvInv'
  <1> SUFFICES ASSUME LvInv, [LvNext]_lvVars PROVE LvInv'
    OBVIOUS
  <1>1. ASSUME NEW r \in LvRequests, LvStep(r)
        PROVE  LvInv'
    BY <1>1, LvStepTyped, LvStepTells, LvStepOwn, LvStepOthers DEF LvInv
  <1>2. CASE UNCHANGED lvVars
    BY <1>2
       DEF lvVars, LvInv, LvTypeOK, HashesTellContents, LvCallInv, CopyIsTold,
           KeyIsTold, PostsRemain, ForcedOnly
  <1> QED BY <1>1, <1>2, EditKeeps, SignKeeps DEF LvNext, LvStep

(* The invariant that the two theorems about LawVision rest on.            *)
THEOREM LawVisionInvariant == LvSpec => []LvInv
  BY LvInitInv, LvNextInv, PTL DEF LvSpec

(* The hash of a document and the reports kept under a hash are of the     *)
(* content they name, but for the contents an edit put in place while a    *)
(* request was about to save the hash it had computed, for any number of   *)
(* requests, contents and posts.                                           *)
THEOREM HashesAreTold == LvSpec => []HashesTellContents
  <1>1. LvInv => HashesTellContents
    BY DEF LvInv
  <1> QED BY LawVisionInvariant, <1>1, PTL

KeepsSuccess(h) ==
  lvReport[h].status = "success" /\ ~lvReport[h].beside =>
    \/ lvReport'[h].status = "success"
    \/ \E r \in LvRequests : lvCall[r].force /\ lvCall[r].key = h

(* A successful report is taken away by forced requests only, unless       *)
(* another had looked for it before it was there.                          *)
THEOREM ReportsAreKept == LvSpec => SuccessIsKept
  <1>1. ASSUME LvInv, LvNext, NEW h \in LvVersion \ {0}
        PROVE  KeepsSuccess(h)
    <2>1. CASE UNCHANGED lvReport
      BY <2>1 DEF KeepsSuccess
    <2>2. ASSUME NEW r \in LvRequests, StartReport(r) \/ SaveReport(r)
          PROVE  KeepsSuccess(h)
      <3>1. lvCall[r].pc \in Reporting /\ ForcedOnly(r)
        BY <1>1, <2>2 DEF StartReport, SaveReport, LvAt, Reporting, LvInv, LvCallInv
      <3>2. h # lvCall[r].key => lvReport'[h] = lvReport[h]
        BY <1>1, <2>2 DEF StartReport, SaveReport, LvInv, LvTypeOK
      <3> QED BY <1>1, <3>1, <3>2 DEF KeepsSuccess, ForcedOnly
    <2> QED
      BY <1>1, <2>1, <2>2
         DEF LvNext, LvEdit, LvSign, LoadDocument, EnsureContentHash, LookUpReport,
             PostForAnalysis, LvCrash
  <1>2. LvInv /\ [LvNext]_lvVars => [\A h \in LvVersion \ {0} : KeepsSuccess(h)]_lvVars
    BY <1>1
  <1> QED BY LawVisionInvariant, <1>2, PTL DEF LvSpec, SuccessIsKept, KeepsSuccess

-----------------------------------------------------------------------------
(***************************************************************************)
(* Templates                                                               *)
(***************************************************************************)
Replacing == {"download", "store", "save_file", "delete_old"}
NewFile(r) == tpCall[r].row.preview
OldFile(r) == tpCall[r].row.file

(* A callback that has stored its text holds a file nobody has named yet;  *)
(* one that is about to delete the file it replaced holds a file the row   *)
(* will not name again.                                                    *)
CallbackFiles(r) ==
  /\ tpCall[r].pc \in Replacing => OldFile(r) <= tpFiles
  /\ tpCall[r].pc = "save_file" =>
       /\ NewFile(r) \in tpStored
       /\ NewFile(r) <= tpFiles
       /\ NewFile(r) # tpRow.file
  /\ tpCall[r].pc = "delete_old" => OldFile(r) # tpRow.file

(* Nobody else will delete that new file, or store under its name.         *)
FilesApart(r, q) ==
  tpCall[r].pc = "save_file" =>
    /\ tpCall[q].pc \in Replacing => NewFile(r) # OldFile(q)
    /\ (q # r /\ tpCall[q].pc = "save_file") => NewFile(r) # NewFile(q)

TpInv ==
  /\ TpTypeOK
  /\ TemplateFileExists
  /\ tpRow.file <= tpFiles
  /\ \A r \in TpRequests : CallbackFiles(r)
  /\ \A r, q \in TpRequests : FilesApart(r, q)

(* Steps that leave files, storage and the row's file alone.               *)
FilesStay == UNCHANGED <<tpFiles, tpStored>> /\ tpRow'.file = tpRow.file

(* An idle slot and the part of a row it keeps have their types.           *)
LEMMA TpIdleTyped == NoRow \in TpRow /\ TpIdle \in TpCall
  BY TpAssumption DEF NoRow, TpIdle, TpRow, TpCall, TpPc, TpFile

(* The invariant holds initially: the first file is there, no other.       *)
LEMMA TpInitInv == TpInit => TpInv
  <1> SUFFICES ASSUME TpInit PROVE TpInv
    OBVIOUS
  <1>1. TpTypeOK
    <2>1. 1 \in TpFile
      BY TpAssumption DEF TpFile
    <2>2. PICK text \in SUBSET FileNames :
            /\ tpText = [f \in TpFile |-> IF f = 1 THEN text ELSE {}]
            /\ tpRow = [NoRow EXCEPT !.variables = text]
      BY DEF TpInit
    <2>3. tpRow \in TpRow
      BY <2>1, <2>2 DEF NoRow, TpRow, TpNames
    <2>4. tpText \in [TpFile -> SUBSET FileNames]
      BY <2>2
    <2>5. tpParty \in TpParty /\ tpDoc \in TpDocument
      BY DEF TpInit, TpParty, TpDocument, NoDocument
    <2> QED BY <2>1, <2>3, <2>4, <2>5, TpIdleTyped DEF TpInit, TpTypeOK
  <1>2. tpRow.file = 1
    BY DEF TpInit, NoRow
  <1> QED
    BY <1>1, <1>2
       DEF TpInit, TpIdle, TpInv, TemplateFileExists, CallbackFiles, FilesApart,
           Replacing

(* A request that is not a callback, or has ended, keeps no file.          *)
LEMMA OutsideCallback ==
  ASSUME TpInv, NEW r \in TpRequests, FilesStay,
         \A q \in TpRequests \ {r} : tpCall'[q] = tpCall[q],
         tpCall'[r].pc \notin Replacing
  PROVE  /\ TemplateFileExists' /\ (tpRow.file <= tpFiles)'
         /\ \A s \in TpRequests : CallbackFiles(s)'
         /\ \A s, q \in TpRequests : FilesApart(s, q)'
  <1>1. ASSUME NEW s \in TpRequests
        PROVE  CallbackFiles(s)'
    <2>1. CASE s = r
      BY <2>1 DEF CallbackFiles, Replacing
    <2>2. CASE s # r
      BY <2>2 DEF FilesStay, TpInv, CallbackFiles, NewFile, OldFile
    <2> QED BY <2>1, <2>2
  <1>2. ASSUME NEW s \in TpRequests, NEW q \in TpRequests
        PROVE  FilesApart(s, q)'
    <2>1. CASE s = r \/ q = r
      BY <2>1 DEF FilesApart, Replacing
    <2>2. CASE s # r /\ q # r
      BY <2>2 DEF TpInv, FilesApart, NewFile, OldFile
    <2> QED BY <2>1, <2>2
  <1> QED BY <1>1, <1>2 DEF TpInv, FilesStay, TemplateFileExists

(* Types of what is written.                                               *)
LEMMA BeginTyped ==
  ASSUME TpTypeOK, NEW r \in TpRequests, NEW pc \in TpPc, NEW row \in TpRow,
         TpBegin(r, pc, row)
  PROVE  /\ tpCall' \in [TpRequests -> TpCall]
         /\ tpCall'[r].pc = pc /\ tpCall'[r].row = row
         /\ \A q \in TpRequests \ {r} : tpCall'[q] = tpCall[q]
  <1> DEFINE call == [TpIdle EXCEPT !.pc = pc, !.row = row]
  <1>1. call \in TpCall /\ call.pc = pc /\ call.row = row
    BY TpIdleTyped DEF TpCall
  <1> HIDE DEF call
  <1>2. tpCall' = [tpCall EXCEPT ![r] = call]
    BY DEF TpBegin, call
  <1> QED BY <1>1, <1>2 DEF TpTypeOK

(* A request that returns keeps no file.                                   *)
LEMMA TpReturnTyped ==
  ASSUME TpTypeOK, NEW r \in TpRequests, TpReturn(r)
  PROVE  /\ tpCall' \in [TpRequests -> TpCall]
         /\ tpCall'[r].pc \notin Replacing
         /\ \A q \in TpRequests \ {r} : tpCall'[q] = tpCall[q]
  BY TpIdleTyped DEF TpReturn, TpTypeOK, TpIdle, Replacing

(* The part of the row that a request copies names the file of the row.    *)
LEMMA OnlyFileTyped ==
  ASSUME TpTypeOK
  PROVE  /\ OnlyFile \in TpRow /\ OnlyFile.file = tpRow.file
         /\ [OnlyFile EXCEPT !.schema = tpRow.schema] \in TpRow
         /\ [OnlyFile EXCEPT !.schema = tpRow.schema].file = tpRow.file
  BY DEF TpTypeOK, OnlyFile, NoRow, TpRow

(* The names collected are names of the template.                          *)
LEMMA WordsAreNames ==
  ASSUME NEW fields
  PROVE  InWords(fields) \in SUBSET FileNames
  BY TpAssumption DEF InWords

(* More fields are said in more words.                                     *)
LEMMA WordsGrow ==
  ASSUME NEW fields, NEW more, fields \subseteq more
  PROVE  InWords(fields) \subseteq InWords(more)
  BY DEF InWords

LEMMA CollectedTyped ==
  ASSUME TpTypeOK, NEW text \in SUBSET FileNames, NEW schema \in SUBSET SchemaNames
  PROVE  Collected(text, schema) \in SUBSET TpNames
  BY WordsAreNames DEF TpTypeOK, TpParty, Collected, TpNames

(* The callback, step by step: it reads the row ...                        *)
LEMMA BeginCallbackKeeps ==
  ASSUME TpInv, NEW r \in TpRequests, BeginCallback(r)
  PROVE  TpInv'
  <1>1. /\ tpCall' \in [TpRequests -> TpCall]
        /\ tpCall'[r].pc = "download" /\ tpCall'[r].row.file = tpRow.file
        /\ \A q \in TpRequests \ {r} : tpCall'[q] = tpCall[q]
    BY OnlyFileTyped, BeginTyped DEF BeginCallback, TpInv, TpPc
  <1>2. TpTypeOK'
    BY <1>1 DEF TpInv, TpTypeOK, BeginCallback
  <1>3. ASSUME NEW s \in TpRequests
        PROVE  CallbackFiles(s)'
    BY <1>1 DEF TpInv, CallbackFiles, BeginCallback, NewFile, OldFile
  <1>4. ASSUME NEW s \in TpRequests, NEW q \in TpRequests
        PROVE  FilesApart(s, q)'
    BY <1>1 DEF TpInv, CallbackFiles, FilesApart, NewFile, OldFile
  <1> QED BY <1>2, <1>3, <1>4 DEF TpInv, BeginCallback, TemplateFileExists

(* ... has the text or gives up ...                                        *)
LEMMA DownloadKeeps ==
  ASSUME TpInv, NEW r \in TpRequests, Download(r)
  PROVE  TpInv'
  <1>1. CASE TpReturn(r)
    <2>1. TpTypeOK' /\ FilesStay
      BY <1>1, TpReturnTyped DEF TpInv, TpTypeOK, Download, FilesStay
    <2> QED BY <1>1, <2>1, TpReturnTyped, OutsideCallback DEF TpInv
  <1>2. ASSUME NEW text \in SUBSET FileNames,
               tpCall' = [tpCall EXCEPT ![r].pc = "store", ![r].text = text]
        PROVE  TpInv'
    <2>1. /\ tpCall' \in [TpRequests -> TpCall]
          /\ tpCall'[r].pc = "store" /\ tpCall'[r].row = tpCall[r].row
          /\ \A q \in TpRequests \ {r} : tpCall'[q] = tpCall[q]
      BY <1>2 DEF TpInv, TpTypeOK, TpCall, TpPc
    <2>2. TpTypeOK'
      BY <2>1 DEF TpInv, TpTypeOK, Download
    <2>3. ASSUME NEW s \in TpRequests
          PROVE  CallbackFiles(s)'
      BY <2>1
         DEF TpInv, CallbackFiles, Download, TpAt, NewFile, OldFile, Replacing
    <2>4. ASSUME NEW s \in TpRequests, NEW q \in TpRequests
          PROVE  FilesApart(s, q)'
      BY <2>1 DEF TpInv, FilesApart, Download, TpAt, NewFile, OldFile, Replacing
    <2> QED BY <2>2, <2>3, <2>4 DEF TpInv, Download, TemplateFileExists
  <1> QED BY <1>1, <1>2 DEF Download

(* ... stores it under a number that is greater than all others ...        *)
LEMMA StoreTextKeeps ==
  ASSUME TpInv, NEW r \in TpRequests, StoreText(r)
  PROVE  TpInv'
  <1> DEFINE new == tpFiles + 1
  <1>0. new \in TpFile /\ tpFiles \in Nat /\ new > tpFiles /\ tpFiles' = new
    BY DEF StoreText, TpInv, TpTypeOK, TpFile
  <1>n. TpFile \subseteq Nat
    BY DEF TpFile
  <1>1. Collected(tpCall[r].text, TpCopy(r).schema) \in SUBSET TpNames
    BY CollectedTyped DEF TpInv, TpTypeOK, TpCall, TpRow, TpCopy
  <1>2. /\ tpCall' \in [TpRequests -> TpCall]
        /\ tpCall'[r].pc = "save_file" /\ NewFile(r)' = new /\ OldFile(r)' = OldFile(r)
        /\ \A q \in TpRequests \ {r} : tpCall'[q] = tpCall[q]
    <2> DEFINE names == Collected(tpCall[r].text, TpCopy(r).schema)
               row == [tpCall[r].row EXCEPT !.variables = names, !.preview = new]
               call == [tpCall[r] EXCEPT !.pc = "save_file", !.row = row]
    <2>1. tpCall[r] \in TpCall /\ tpCall[r].row \in TpRow
      BY DEF TpInv, TpTypeOK, TpCall
    <2>2. row \in TpRow /\ row.preview = new /\ row.file = tpCall[r].row.file
      BY <1>0, <1>1, <2>1 DEF TpRow
    <2>3. call \in TpCall /\ call.pc = "save_file" /\ call.row = row
      BY <2>1, <2>2 DEF TpCall, TpPc
    <2>4. tpCall' = [tpCall EXCEPT ![r] = call]
      BY <2>1 DEF StoreText, TpInv, TpTypeOK, TpCall, TpRow
    <2> HIDE DEF call, row
    <2> QED BY <2>2, <2>3, <2>4 DEF TpInv, TpTypeOK, NewFile, OldFile
  <1>3. tpStored' = tpStored \cup {new}
    BY DEF StoreText, WithNewFile
  <1>4. TpTypeOK'
    <2>1. tpCall[r].text \in SUBSET FileNames
      BY DEF TpInv, TpTypeOK, TpCall
    <2>2. tpText' \in [TpFile -> SUBSET FileNames]
      BY <2>1 DEF StoreText, TpInv, TpTypeOK
    <2> QED BY <1>0, <1>2, <1>3, <2>2 DEF StoreText, TpInv, TpTypeOK
  <1>5. \A s \in TpRequests : OldFile(s) \in Nat /\ NewFile(s) \in Nat
    <2>1. ASSUME NEW s \in TpRequests
          PROVE  tpCall[s].row \in TpRow
      BY DEF TpInv, TpTypeOK, TpCall
    <2>2. ASSUME NEW row \in TpRow
          PROVE  row.file \in Nat /\ row.preview \in Nat
      <3>1. row.file \in TpFile /\ (row.preview = 0 \/ row.preview \in TpFile)
        BY DEF TpRow
      <3> QED BY <3>1 DEF TpFile
    <2> QED BY <2>1, <2>2 DEF OldFile, NewFile
  <1>6. tpRow.file \in Nat /\ tpRow' = tpRow /\ tpRow.file <= tpFiles
    BY <1>n DEF StoreText, TpInv, TpTypeOK, TpRow
  <1>7. \A s \in TpRequests \ {r} : OldFile(s)' = OldFile(s) /\ NewFile(s)' = NewFile(s)
    BY <1>2 DEF OldFile, NewFile
  <1>8. ASSUME NEW s \in TpRequests
        PROVE  CallbackFiles(s)'
    <2>1. CASE s = r
      BY <1>0, <1>2, <1>3, <1>5, <1>6, <2>1
         DEF TpInv, CallbackFiles, StoreText, TpAt, Replacing
    <2>2. CASE s # r
      BY <1>0, <1>2, <1>3, <1>5, <1>6, <1>7, <2>2 DEF TpInv, CallbackFiles
    <2> QED BY <2>1, <2>2
  <1>9. ASSUME NEW s \in TpRequests, NEW q \in TpRequests
        PROVE  FilesApart(s, q)'
    <2>1. (tpCall[q].pc \in Replacing => OldFile(q) # new)
          /\ (tpCall[q].pc = "save_file" => NewFile(q) # new)
      BY <1>0, <1>5 DEF TpInv, CallbackFiles
    <2>2. (tpCall[s].pc \in Replacing => OldFile(s) # new)
          /\ (tpCall[s].pc = "save_file" => NewFile(s) # new)
      BY <1>0, <1>5 DEF TpInv, CallbackFiles
    <2>3. tpCall[r].pc = "store"
      BY DEF StoreText, TpAt
    <2>4. FilesApart(s, q)
      BY DEF TpInv
    <2> QED
      BY <1>2, <1>7, <2>1, <2>2, <2>3, <2>4 DEF FilesApart, Replacing
  <1> QED
    BY <1>0, <1>3, <1>4, <1>6, <1>8, <1>9 DEF TpInv, TemplateFileExists

(* ... names it in the row ...                                             *)
LEMMA SaveFileKeeps ==
  ASSUME TpInv, NEW r \in TpRequests, SaveFile(r)
  PROVE  TpInv'
  <1>1. /\ tpCall' \in [TpRequests -> TpCall]
        /\ tpCall'[r].pc = "delete_old" /\ tpCall'[r].row = tpCall[r].row
        /\ \A q \in TpRequests \ {r} : tpCall'[q] = tpCall[q]
    BY DEF SaveFile, TpGoto, TpInv, TpTypeOK, TpCall, TpPc
  <1>2. NewFile(r) \in TpFile /\ NewFile(r) \in tpStored /\ NewFile(r) <= tpFiles
    BY DEF SaveFile, TpAt, TpInv, TpTypeOK, CallbackFiles
  <1>3. tpRow'.file = NewFile(r) /\ tpRow' \in TpRow
    BY <1>2 DEF SaveFile, TpCopy, NewFile, TpInv, TpTypeOK, TpRow, TpCall
  <1>4. TpTypeOK'
    BY <1>1, <1>3 DEF SaveFile, TpInv, TpTypeOK
  <1>5. ASSUME NEW s \in TpRequests
        PROVE  CallbackFiles(s)'
    <2>1. FilesApart(r, s) /\ FilesApart(s, r) /\ CallbackFiles(s)
      BY DEF TpInv
    <2> QED
      BY <1>1, <1>3, <2>1
         DEF SaveFile, TpAt, CallbackFiles, FilesApart, NewFile, OldFile, Replacing
  <1>6. ASSUME NEW s \in TpRequests, NEW q \in TpRequests
        PROVE  FilesApart(s, q)'
    <2>1. FilesApart(s, q)
      BY DEF TpInv
    <2> QED
      BY <1>1, <2>1 DEF SaveFile, TpAt, FilesApart, NewFile, OldFile, Replacing
  <1> QED BY <1>2, <1>3, <1>4, <1>5, <1>6 DEF TpInv, SaveFile, TemplateFileExists

(* ... and deletes the one it replaced.                                    *)
LEMMA DeleteOldKeeps ==
  ASSUME TpInv, NEW r \in TpRequests, DeleteOldFile(r)
  PROVE  TpInv'
  <1>1. /\ tpCall' \in [TpRequests -> TpCall]
        /\ tpCall'[r].pc \notin Replacing
        /\ \A q \in TpRequests \ {r} : tpCall'[q] = tpCall[q]
    BY TpReturnTyped DEF DeleteOldFile, TpInv
  <1>2. tpStored' = tpStored \ {OldFile(r)} /\ OldFile(r) # tpRow.file
    BY DEF DeleteOldFile, TpCopy, TpAt, OldFile, TpInv, CallbackFiles
  <1>3. TpTypeOK'
    BY <1>1 DEF DeleteOldFile, TpInv, TpTypeOK
  <1>4. ASSUME NEW s \in TpRequests
        PROVE  CallbackFiles(s)'
    <2>1. CASE s = r
      BY <1>1, <2>1 DEF CallbackFiles, Replacing
    <2>2. CASE s # r
      <3>1. CallbackFiles(s) /\ FilesApart(s, r)
        BY DEF TpInv
      <3> QED
        BY <1>1, <1>2, <2>2, <3>1
           DEF DeleteOldFile, TpAt, CallbackFiles, FilesApart, NewFile, OldFile,
               Replacing
    <2> QED BY <2>1, <2>2
  <1>5. ASSUME NEW s \in TpRequests, NEW q \in TpRequests
        PROVE  FilesApart(s, q)'
    <2>1. FilesApart(s, q)
      BY DEF TpInv
    <2> QED BY <1>1, <2>1 DEF FilesApart, NewFile, OldFile, Replacing
  <1> QED BY <1>2, <1>3, <1>4, <1>5 DEF TpInv, DeleteOldFile, TemplateFileExists

(* The other handlers keep the file, whatever else of the row they save.   *)
OtherTpStep(r) ==
  \/ BeginSave(r) \/ SaveSchema(r) \/ BeginPreview(r) \/ SavePreview(r)
  \/ CreateParty(r) \/ CreateSystemFields(r) \/ PartyRequest(r)
  \/ BeginDocument(r) \/ CreateDocument(r) \/ CreateFieldValues(r)
  \/ BeginFill(r) \/ RenderDocument(r) \/ TpBreakOff(r)

(* What they save is well typed ...                                        *)
LEMMA OthersTyped ==
  ASSUME TpInv, NEW r \in TpRequests, OtherTpStep(r)
  PROVE  TpTypeOK'
  <1> USE DEF TpInv, TpTypeOK
  <1>1. CASE BeginSave(r) \/ BeginPreview(r) \/ BeginFill(r)
    <2>1. tpCall' \in [TpRequests -> TpCall]
      BY <1>1, OnlyFileTyped, BeginTyped DEF BeginSave, BeginPreview, BeginFill, TpPc
    <2> QED BY <1>1, <2>1 DEF BeginSave, BeginPreview, BeginFill
  <1>2. CASE BeginDocument(r)
    <2>1. tpCall' \in [TpRequests -> TpCall]
      BY <1>2, BeginTyped DEF BeginDocument, TpPc
    <2> QED BY <1>2, <2>1 DEF BeginDocument
  <1>3. CASE CreateParty(r)
    <2>1. tpCall' \in [TpRequests -> TpCall]
      BY <1>3, TpIdleTyped, BeginTyped DEF CreateParty, TpPc
    <2>2. tpParty' \in TpParty
      BY <1>3 DEF CreateParty, TpParty
    <2> QED BY <1>3, <2>1, <2>2 DEF CreateParty
  <1>4. CASE SaveSchema(r)
    <2>1. tpCall' \in [TpRequests -> TpCall]
      BY <1>4, TpReturnTyped DEF SaveSchema
    <2>2. ASSUME NEW schema \in SUBSET SchemaNames
          PROVE  Collected(tpText[TpCopy(r).file], schema) \in SUBSET TpNames
      <3>1. TpCopy(r).file \in TpFile
        BY DEF TpCopy, TpCall, TpRow
      <3>2. tpText[TpCopy(r).file] \in SUBSET FileNames
        BY <3>1
      <3> QED BY <3>2, CollectedTyped
    <2>3. ASSUME NEW schema \in SUBSET SchemaNames, NEW variables \in SUBSET TpNames
          PROVE  [tpRow EXCEPT !.schema = schema, !.variables = variables] \in TpRow
      BY DEF TpRow
    <2>4. tpRow' \in TpRow
      <3>1. CASE UNCHANGED tpRow
        BY <3>1
      <3>2. ASSUME NEW schema \in SUBSET SchemaNames,
                   tpRow' = [tpRow EXCEPT !.schema = schema,
                               !.variables = Collected(tpText[TpCopy(r).file], schema)]
            PROVE  tpRow' \in TpRow
        <4>1. Collected(tpText[TpCopy(r).file], schema) \in SUBSET TpNames
          BY <2>2
        <4> QED BY <2>3, <3>2, <4>1
      <3> QED BY <1>4, <3>1, <3>2 DEF SaveSchema
    <2> QED BY <1>4, <2>1, <2>4 DEF SaveSchema
  <1>5. CASE SavePreview(r)
    <2>1. tpCall' \in [TpRequests -> TpCall]
      BY <1>5, TpReturnTyped DEF SavePreview
    <2>2. tpRow' \in TpRow
      BY <1>5 DEF SavePreview, TpCopy, TpCall, TpRow
    <2> QED BY <1>5, <2>1, <2>2 DEF SavePreview
  <1>6. CASE CreateSystemFields(r)
    <2>1. tpCall' \in [TpRequests -> TpCall]
      BY <1>6, TpReturnTyped DEF CreateSystemFields
    <2>2. tpParty' \in TpParty
      BY <1>6 DEF CreateSystemFields, TpParty
    <2> QED BY <1>6, <2>1, <2>2 DEF CreateSystemFields
  <1>7. CASE PartyRequest(r)
    <2>1. tpParty' \in TpParty
      <3>1. tpParty.fields \subseteq SystemNames \cup OwnNames
        BY DEF TpParty
      <3>2. ASSUME NEW fields \in SUBSET (SystemNames \cup OwnNames),
                   tpParty' = [tpParty EXCEPT !.fields = fields]
            PROVE  tpParty' \in TpParty
        BY <3>2 DEF TpParty
      <3>3. [present |-> FALSE, fields |-> {}] \in TpParty
        BY DEF TpParty
      <3>4. ASSUME NEW name \in OwnNames
            PROVE  /\ tpParty.fields \cup {name} \in SUBSET (SystemNames \cup OwnNames)
                   /\ tpParty.fields \ {name} \in SUBSET (SystemNames \cup OwnNames)
        BY <3>1
      <3>5. CASE \E name \in OwnNames :
                    tpParty' = [tpParty EXCEPT !.fields = tpParty.fields \cup {name}]
        BY <3>2, <3>4, <3>5
      <3>6. CASE \E name \in OwnNames :
                    tpParty' = [tpParty EXCEPT !.fields = tpParty.fields \ {name}]
        BY <3>2, <3>4, <3>6
      <3> QED BY <1>7, <3>3, <3>5, <3>6 DEF PartyRequest
    <2> QED BY <1>7, <2>1 DEF PartyRequest
  <1>8. CASE CreateDocument(r)
    <2>1. tpCall' \in [TpRequests -> TpCall]
      BY <1>8 DEF CreateDocument, TpGoto, TpCall, TpPc
    <2>2. tpDoc' \in TpDocument
      BY <1>8 DEF CreateDocument, NoDocument, TpDocument, TpCopy, TpCall, TpRow
    <2> QED BY <1>8, <2>1, <2>2 DEF CreateDocument
  <1>9. CASE CreateFieldValues(r)
    <2>1. tpCall' \in [TpRequests -> TpCall]
      BY <1>9, TpReturnTyped DEF CreateFieldValues
    <2>2. FieldsOf(TpCopy(r)) \in SUBSET TpNames
      BY WordsAreNames DEF FieldsOf, TpCopy, TpCall, TpRow, TpParty, TpNames
    <2>3. tpDoc' \in TpDocument
      BY <1>9, <2>2 DEF CreateFieldValues, TpDocument
    <2> QED BY <1>9, <2>1, <2>3 DEF CreateFieldValues
  <1>10. CASE RenderDocument(r)
    <2>1. tpCall' \in [TpRequests -> TpCall]
      BY <1>10, TpReturnTyped DEF RenderDocument
    <2>2. tpDoc' \in TpDocument
      BY <1>10 DEF RenderDocument, TpDocument, TpCopy, TpCall, TpRow
    <2> QED BY <1>10, <2>1, <2>2 DEF RenderDocument
  <1>11. CASE TpBreakOff(r)
    BY <1>11, TpReturnTyped DEF TpBreakOff
  <1> QED
    BY <1>1, <1>2, <1>3, <1>4, <1>5, <1>6, <1>7, <1>8, <1>9, <1>10, <1>11
       DEF OtherTpStep

(* ... and says nothing about files.                                       *)
LEMMA OthersKeepFiles ==
  ASSUME TpInv, NEW r \in TpRequests, OtherTpStep(r)
  PROVE  TpInv'
  <1>1. FilesStay
    BY
       DEF OtherTpStep, BeginSave, SaveSchema, BeginPreview, SavePreview, CreateParty,
           CreateSystemFields, PartyRequest, BeginDocument, CreateDocument,
           CreateFieldValues, BeginFill, RenderDocument, TpBreakOff, FilesStay, TpInv,
           TpTypeOK, TpRow
  <1>2. /\ \A q \in TpRequests \ {r} : tpCall'[q] = tpCall[q]
        /\ tpCall'[r].pc \notin Replacing
    <2>1. CASE BeginSave(r) \/ BeginPreview(r) \/ BeginFill(r)
      BY <2>1, OnlyFileTyped, BeginTyped
         DEF BeginSave, BeginPreview, BeginFill, TpPc, Replacing, TpInv
    <2>2. CASE BeginDocument(r) \/ CreateParty(r)
      BY <2>2, TpIdleTyped, BeginTyped
         DEF BeginDocument, CreateParty, TpPc, Replacing, TpInv, TpTypeOK
    <2>3. CASE \/ SaveSchema(r) \/ SavePreview(r) \/ CreateSystemFields(r)
               \/ CreateFieldValues(r) \/ RenderDocument(r) \/ TpBreakOff(r)
      BY <2>3, TpReturnTyped
         DEF SaveSchema, SavePreview, CreateSystemFields, CreateFieldValues,
             RenderDocument, TpBreakOff, TpInv
    <2>4. CASE PartyRequest(r)
      BY <2>4
         DEF PartyRequest, MayBegin, TpIdle, Replacing
    <2>5. CASE CreateDocument(r)
      BY <2>5 DEF CreateDocument, TpGoto, Replacing, TpInv, TpTypeOK, TpCall
    <2> QED BY <2>1, <2>2, <2>3, <2>4, <2>5, OtherTpStep(r) DEF OtherTpStep
  <1>3. TpTypeOK'
    BY OthersTyped
  <1> QED BY <1>1, <1>2, <1>3, OutsideCallback DEF TpInv

(* Every step keeps the invariant.                                         *)
LEMMA TpNextInv == TpInv /\ [TpNext]_tpVars => TpInv'
  <1> SUFFICES ASSUME TpInv, [TpNext]_tpVars PROVE TpInv'
    OBVIOUS
  <1>1. ASSUME NEW r \in TpRequests, OtherTpStep(r)
        PROVE  TpInv'
    BY <1>1, OthersKeepFiles
  <1>2. CASE UNCHANGED tpVars
    BY <1>2
       DEF tpVars, TpInv, TpTypeOK, TemplateFileExists, CallbackFiles, FilesApart,
           NewFile, OldFile
  <1> QED
    BY <1>1, <1>2, BeginCallbackKeeps, DownloadKeeps, StoreTextKeeps, SaveFileKeeps,
       DeleteOldKeeps DEF TpNext, OtherTpStep

(* The invariant that the theorem about template files rests on.           *)
THEOREM TemplatesInvariant == TpSpec => []TpInv
  BY TpInitInv, TpNextInv, PTL DEF TpSpec

(* However many callbacks overlap, each deleting the file that the row     *)
(* named when it was read, the row names a file that is in storage.        *)
THEOREM TemplatesHaveFiles == TpSpec => []TemplateFileExists
  <1>1. TpInv => TemplateFileExists
    BY DEF TpInv
  <1> QED BY TemplatesInvariant, <1>1, PTL

-----------------------------------------------------------------------------
(***************************************************************************)
(* Templates whose requests do not overlap.  What a request has read is    *)
(* still so, and storage holds what the row names and what the callback    *)
(* has in hand.                                                            *)
(***************************************************************************)
TpBusy(r) == tpCall[r] # TpIdle

OneTpRequest == \A q, r \in TpRequests : TpBusy(q) /\ TpBusy(r) => q = r

VariablesCover == tpText[tpRow.file] \cup tpRow.schema \subseteq tpRow.variables

PreviewIsPresent == tpRow.preview \in {0, tpRow.file}

FieldsCover ==
  tpDoc.complete =>
    /\ tpDoc.made_of \in TpFile /\ tpDoc.made_of <= tpFiles
    /\ tpText[tpDoc.made_of] \subseteq tpDoc.fields \cup InWords(tpDoc.fields)

CopyAgrees(r) ==
  /\ tpCall[r].pc \notin {"idle", "system_fields", "delete_old", "fields"} =>
       OldFile(r) = tpRow.file
  /\ tpCall[r].pc \in {"download", "store"} => tpCall[r].row.schema = tpRow.schema
  /\ tpCall[r].pc = "save_file" =>
       tpText[NewFile(r)] \cup tpRow.schema \subseteq tpCall[r].row.variables
  /\ tpCall[r].pc = "create" => tpRow.variables \subseteq tpCall[r].row.variables
  /\ tpCall[r].pc = "fields" =>
       /\ tpDoc.made_of = OldFile(r) /\ OldFile(r) <= tpFiles
       /\ tpText[OldFile(r)] \subseteq tpCall[r].row.variables

(* The file that a callback has made, or has still to delete.              *)
InHand(r) ==
  IF tpCall[r].pc = "save_file" THEN {NewFile(r)}
  ELSE IF tpCall[r].pc = "delete_old" THEN {OldFile(r)} ELSE {}

StoreIsClean ==
  /\ \A r \in TpRequests : TpBusy(r) => tpStored = {tpRow.file} \cup InHand(r)
  /\ (\A r \in TpRequests : ~TpBusy(r)) => tpStored = {tpRow.file}

(* What all requests rely on.                                              *)
Agreement == VariablesCover /\ PreviewIsPresent /\ FieldsCover

TpSerialInv ==
  tpSerial =>
    /\ OneTpRequest
    /\ Agreement
    /\ \A r \in TpRequests : CopyAgrees(r)
    /\ ~tpBroken => StoreIsClean

(* The step of the only request, and what it has to show.                  *)
TpOnly(r) == \A q \in TpRequests \ {r} : ~TpBusy(q) /\ tpCall'[q] = tpCall[q]

LEMMA OnlyStep ==
  ASSUME NEW r \in TpRequests, TpOnly(r), Agreement', CopyAgrees(r)',
         ~tpBroken' => tpStored' = ({tpRow.file} \cup InHand(r))',
         tpCall'[r] = TpIdle => InHand(r)' = {}
  PROVE  TpSerialInv'
  <1>1. \A q \in TpRequests \ {r} : ~TpBusy(q)' /\ tpCall'[q].pc = "idle"
    BY DEF TpOnly, TpBusy, TpIdle
  <1>2. OneTpRequest'
    BY <1>1 DEF OneTpRequest
  <1>3. \A q \in TpRequests : CopyAgrees(q)'
    BY <1>1 DEF CopyAgrees
  <1>4. ~tpBroken' => StoreIsClean'
    BY <1>1 DEF StoreIsClean, TpBusy
  <1> QED BY <1>2, <1>3, <1>4 DEF TpSerialInv

(* A request that begins is alone, and one that is under way is, too.      *)
LEMMA BeginsAlone ==
  ASSUME TpSerialInv, tpSerial, NEW r \in TpRequests, MayBegin(r),
         \A q \in TpRequests \ {r} : tpCall'[q] = tpCall[q]
  PROVE  TpOnly(r) /\ Agreement /\ (~tpBroken => tpStored = {tpRow.file})
  BY DEF MayBegin, TpOnly, TpBusy, TpSerialInv, StoreIsClean

LEMMA GoesOnAlone ==
  ASSUME TpSerialInv, tpSerial, NEW r \in TpRequests, tpCall[r].pc # "idle",
         \A q \in TpRequests \ {r} : tpCall'[q] = tpCall[q]
  PROVE  /\ TpOnly(r) /\ Agreement /\ CopyAgrees(r)
         /\ ~tpBroken => tpStored = {tpRow.file} \cup InHand(r)
  <1>1. TpBusy(r)
    BY DEF TpBusy, TpIdle
  <1> QED BY <1>1 DEF TpOnly, TpSerialInv, OneTpRequest, StoreIsClean

(* A request that returns leaves no file in hand.                          *)
LEMMA ReturnAgrees ==
  ASSUME TpTypeOK, NEW r \in TpRequests, TpReturn(r), TpOnly(r), Agreement',
         ~tpBroken' => tpStored' = {tpRow'.file}
  PROVE  TpSerialInv'
  <1>1. tpCall'[r].pc = "idle"
    BY DEF TpReturn, TpTypeOK, TpIdle
  <1>2. InHand(r)' = {} /\ CopyAgrees(r)'
    BY <1>1 DEF InHand, CopyAgrees
  <1> QED BY <1>2, OnlyStep

(* Nothing that Agreement is about has changed.                            *)
LEMMA AgreementStays ==
  ASSUME Agreement, UNCHANGED <<tpRow, tpText, tpFiles, tpDoc>>
  PROVE  Agreement'
  BY DEF Agreement, VariablesCover, PreviewIsPresent, FieldsCover

(* The beginnings: what has been read is so.                               *)
LEMMA BeginsAgree ==
  ASSUME TpTypeOK, TpSerialInv, tpSerial, NEW r \in TpRequests,
         \/ BeginCallback(r) \/ BeginSave(r) \/ BeginPreview(r) \/ BeginFill(r)
         \/ BeginDocument(r)
  PROVE  TpSerialInv'
  <1>1. /\ MayBegin(r) /\ UNCHANGED <<tpRow, tpText, tpFiles, tpDoc, tpStored, tpBroken>>
        /\ \A q \in TpRequests \ {r} : tpCall'[q] = tpCall[q]
    BY
       DEF BeginCallback, BeginSave, BeginPreview, BeginFill, BeginDocument, TpBegin,
           TpTypeOK
  <1>2. TpOnly(r) /\ Agreement' /\ (~tpBroken => tpStored = {tpRow.file})
    BY <1>1, BeginsAlone, AgreementStays
  <1>3. ASSUME NEW pc \in {"save_schema", "save_preview", "render"},
               TpBegin(r, pc, OnlyFile)
        PROVE  TpSerialInv'
    <2>1. tpCall'[r].pc = pc /\ OldFile(r)' = tpRow.file
      BY <1>3, OnlyFileTyped, BeginTyped DEF TpPc, OldFile
    <2>2. CopyAgrees(r)' /\ InHand(r)' = {} /\ tpCall'[r] # TpIdle
      BY <1>1, <2>1 DEF CopyAgrees, InHand, TpIdle
    <2> QED BY <1>1, <1>2, <2>2, OnlyStep
  <1>4. CASE BeginCallback(r)
    <2> DEFINE row == [OnlyFile EXCEPT !.schema = tpRow.schema]
    <2>1. row.schema = tpRow.schema
      BY DEF OnlyFile, NoRow
    <2>2. /\ tpCall'[r].pc = "download" /\ OldFile(r)' = tpRow.file
          /\ tpCall'[r].row.schema = tpRow.schema
      BY <1>4, <2>1, OnlyFileTyped, BeginTyped DEF BeginCallback, TpPc, OldFile
    <2>3. CopyAgrees(r)' /\ InHand(r)' = {} /\ tpCall'[r] # TpIdle
      BY <1>1, <2>2 DEF CopyAgrees, InHand, TpIdle
    <2> QED BY <1>1, <1>2, <2>3, OnlyStep
  <1>5. CASE BeginDocument(r)
    <2>1. tpCall'[r].pc = "create" /\ tpCall'[r].row = tpRow
      BY <1>5, BeginTyped DEF BeginDocument, TpPc, TpTypeOK
    <2>2. CopyAgrees(r)' /\ InHand(r)' = {} /\ tpCall'[r] # TpIdle
      BY <1>1, <2>1 DEF CopyAgrees, OldFile, InHand, TpIdle
    <2> QED BY <1>1, <1>2, <2>2, OnlyStep
  <1> QED BY <1>3, <1>4, <1>5 DEF BeginSave, BeginPreview, BeginFill, BeginDocument

(* The callback.                                                           *)
LEMMA DownloadAgrees ==
  ASSUME TpTypeOK, TpSerialInv, tpSerial, NEW r \in TpRequests, Download(r)
  PROVE  TpSerialInv'
  <1>1. /\ tpCall[r].pc = "download"
        /\ UNCHANGED <<tpRow, tpText, tpFiles, tpDoc, tpStored, tpBroken>>
        /\ \A q \in TpRequests \ {r} : tpCall'[q] = tpCall[q]
    BY DEF Download, TpAt, TpReturn, TpTypeOK
  <1>2. /\ TpOnly(r) /\ Agreement' /\ CopyAgrees(r)
        /\ ~tpBroken => tpStored = {tpRow.file}
    BY <1>1, GoesOnAlone, AgreementStays DEF InHand
  <1>3. CASE TpReturn(r)
    BY <1>1, <1>2, <1>3, ReturnAgrees
  <1>4. CASE ~TpReturn(r)
    <2>1. tpCall'[r].pc = "store" /\ tpCall'[r].row = tpCall[r].row
      BY <1>4 DEF Download, TpTypeOK, TpCall
    <2>2. CopyAgrees(r)' /\ InHand(r)' = {} /\ tpCall'[r] # TpIdle
      BY <1>1, <1>2, <2>1 DEF CopyAgrees, OldFile, InHand, TpIdle
    <2> QED BY <1>1, <1>2, <2>2, OnlyStep
  <1> QED BY <1>3, <1>4

LEMMA StoreTextAgrees ==
  ASSUME TpInv, TpSerialInv, tpSerial, NEW r \in TpRequests, StoreText(r)
  PROVE  TpSerialInv'
  <1> DEFINE new == tpFiles + 1
  <1> USE DEF TpInv
  <1>1. /\ tpCall[r].pc = "store" /\ UNCHANGED <<tpRow, tpDoc, tpBroken>>
        /\ \A q \in TpRequests \ {r} : tpCall'[q] = tpCall[q]
    BY DEF StoreText, TpAt, TpTypeOK
  <1>2. /\ TpOnly(r) /\ Agreement /\ CopyAgrees(r)
        /\ ~tpBroken => tpStored = {tpRow.file}
    BY <1>1, GoesOnAlone DEF InHand
  <1>3. new \in TpFile /\ tpFiles' = new /\ tpFiles < new
        /\ tpRow.file < new
    BY DEF StoreText, TpTypeOK, TpFile, TpRow
  <1>4. /\ tpText'[new] = tpCall[r].text
        /\ \A f \in TpFile : f # new => tpText'[f] = tpText[f]
    BY <1>3 DEF StoreText, TpTypeOK
  <1>5. tpRow.file \in TpFile /\ tpRow.file # new
    BY <1>3 DEF TpTypeOK, TpRow, TpFile
  <1>6. Agreement'
    <2>1. VariablesCover' /\ PreviewIsPresent'
      BY <1>1, <1>2, <1>4, <1>5 DEF Agreement, VariablesCover, PreviewIsPresent
    <2>2. FieldsCover'
      BY <1>1, <1>2, <1>3, <1>4 DEF Agreement, FieldsCover, TpTypeOK, TpFile
    <2> QED BY <2>1, <2>2 DEF Agreement
  <1>7. /\ tpCall'[r].pc = "save_file" /\ NewFile(r)' = new /\ OldFile(r)' = OldFile(r)
        /\ tpCall'[r].row.variables = Collected(tpCall[r].text, TpCopy(r).schema)
    BY DEF StoreText, TpTypeOK, TpCall, TpRow, NewFile, OldFile
  <1>8. CopyAgrees(r)'
    BY <1>1, <1>2, <1>4, <1>7 DEF CopyAgrees, Collected, TpCopy
  <1>9. ~tpBroken' => tpStored' = ({tpRow.file} \cup InHand(r))'
    BY <1>1, <1>2, <1>7 DEF StoreText, WithNewFile, InHand
  <1>10. tpCall'[r] # TpIdle
    BY <1>7 DEF TpIdle
  <1> QED BY <1>2, <1>6, <1>8, <1>9, <1>10, OnlyStep

LEMMA SaveFileAgrees ==
  ASSUME TpInv, TpSerialInv, tpSerial, NEW r \in TpRequests, SaveFile(r)
  PROVE  TpSerialInv'
  <1> USE DEF TpInv
  <1>1. /\ tpCall[r].pc = "save_file"
        /\ UNCHANGED <<tpText, tpFiles, tpDoc, tpStored, tpBroken>>
        /\ tpCall'[r].pc = "delete_old" /\ tpCall'[r].row = tpCall[r].row
        /\ \A q \in TpRequests \ {r} : tpCall'[q] = tpCall[q]
    BY DEF SaveFile, TpAt, TpGoto, TpTypeOK, TpCall
  <1>2. /\ TpOnly(r) /\ Agreement /\ CopyAgrees(r)
        /\ ~tpBroken => tpStored = {tpRow.file, NewFile(r)}
    BY <1>1, GoesOnAlone DEF InHand
  <1>3. /\ tpRow'.file = NewFile(r) /\ tpRow'.preview = 0
        /\ tpRow'.variables = tpCall[r].row.variables /\ tpRow'.schema = tpRow.schema
    BY DEF SaveFile, TpCopy, NewFile, TpTypeOK, TpRow
  <1>4. OldFile(r) = tpRow.file /\ OldFile(r)' = OldFile(r)
    BY <1>1, <1>2 DEF CopyAgrees, OldFile
  <1>5. Agreement'
    BY <1>1, <1>2, <1>3
       DEF Agreement, VariablesCover, PreviewIsPresent, FieldsCover, CopyAgrees
  <1>6. CopyAgrees(r)'
    BY <1>1 DEF CopyAgrees
  <1>7. ~tpBroken' => tpStored' = ({tpRow.file} \cup InHand(r))'
    BY <1>1, <1>2, <1>3, <1>4 DEF InHand
  <1>8. tpCall'[r] # TpIdle
    BY <1>1 DEF TpIdle
  <1> QED BY <1>2, <1>5, <1>6, <1>7, <1>8, OnlyStep

LEMMA DeleteOldAgrees ==
  ASSUME TpInv, TpSerialInv, tpSerial, NEW r \in TpRequests, DeleteOldFile(r)
  PROVE  TpSerialInv'
  <1>1. /\ tpCall[r].pc = "delete_old" /\ TpReturn(r)
        /\ UNCHANGED <<tpRow, tpText, tpFiles, tpDoc, tpBroken>>
        /\ \A q \in TpRequests \ {r} : tpCall'[q] = tpCall[q]
    BY DEF DeleteOldFile, TpAt, TpReturn, TpInv, TpTypeOK
  <1>2. /\ TpOnly(r) /\ Agreement'
        /\ ~tpBroken => tpStored = {tpRow.file, OldFile(r)}
    BY <1>1, GoesOnAlone, AgreementStays DEF InHand
  <1>3. OldFile(r) # tpRow.file /\ tpStored' = tpStored \ {OldFile(r)}
    BY <1>1 DEF DeleteOldFile, TpCopy, OldFile, TpInv, CallbackFiles
  <1>4. ~tpBroken' => tpStored' = {tpRow'.file}
    BY <1>1, <1>2, <1>3
  <1> QED BY <1>1, <1>2, <1>4, ReturnAgrees DEF TpInv

(* The form and the preview, of the file that the row still names.         *)
LEMMA SavesAgree ==
  ASSUME TpTypeOK, TpSerialInv, tpSerial, NEW r \in TpRequests,
         SaveSchema(r) \/ SavePreview(r)
  PROVE  TpSerialInv'
  <1>1. /\ tpCall[r].pc \in {"save_schema", "save_preview"} /\ TpReturn(r)
        /\ UNCHANGED <<tpText, tpFiles, tpDoc, tpStored, tpBroken>>
        /\ \A q \in TpRequests \ {r} : tpCall'[q] = tpCall[q]
    BY DEF SaveSchema, SavePreview, TpAt, TpReturn, TpTypeOK
  <1>2. /\ TpOnly(r) /\ Agreement /\ OldFile(r) = tpRow.file
        /\ ~tpBroken => tpStored = {tpRow.file}
    BY <1>1, GoesOnAlone DEF InHand, CopyAgrees
  <1>3. /\ tpRow'.file = tpRow.file
        /\ tpText[tpRow.file] \cup tpRow'.schema \subseteq tpRow'.variables
        /\ tpRow'.preview \in {0, tpRow.file}
    <2>1. CASE UNCHANGED tpRow
      BY <1>2, <2>1 DEF Agreement, VariablesCover, PreviewIsPresent
    <2>2. ASSUME NEW schema \in SUBSET SchemaNames,
                 tpRow' = [tpRow EXCEPT !.schema = schema,
                             !.variables = Collected(tpText[tpRow.file], schema)]
          PROVE  /\ tpRow'.file = tpRow.file
                 /\ tpText[tpRow.file] \cup tpRow'.schema \subseteq tpRow'.variables
                 /\ tpRow'.preview \in {0, tpRow.file}
      BY <1>2, <2>2 DEF Agreement, PreviewIsPresent, Collected, TpTypeOK, TpRow
    <2>3. CASE tpRow' = [tpRow EXCEPT !.preview = tpRow.file]
      BY <1>2, <2>3 DEF Agreement, VariablesCover, TpTypeOK, TpRow
    <2> QED
      BY <1>2, <2>1, <2>2, <2>3 DEF SaveSchema, SavePreview, TpCopy, OldFile
  <1>4. Agreement'
    BY <1>1, <1>2, <1>3 DEF Agreement, VariablesCover, PreviewIsPresent, FieldsCover
  <1>5. ~tpBroken' => tpStored' = {tpRow'.file}
    BY <1>1, <1>2, <1>3
  <1> QED BY <1>1, <1>2, <1>4, <1>5, ReturnAgrees

(* The parties, of which template.variables are not collected again.       *)
LEMMA PartiesAgree ==
  ASSUME TpTypeOK, TpSerialInv, tpSerial, NEW r \in TpRequests,
         CreateParty(r) \/ CreateSystemFields(r) \/ PartyRequest(r)
  PROVE  TpSerialInv'
  <1>1. /\ UNCHANGED <<tpRow, tpText, tpFiles, tpDoc, tpStored, tpBroken>>
        /\ \A q \in TpRequests \ {r} : tpCall'[q] = tpCall[q]
    BY
       DEF CreateParty, CreateSystemFields, PartyRequest, TpBegin, TpReturn, TpTypeOK
  <1>2. CASE CreateParty(r)
    <2>1. TpOnly(r) /\ Agreement' /\ (~tpBroken => tpStored = {tpRow.file})
      BY <1>1, <1>2, BeginsAlone, AgreementStays DEF CreateParty, TpBegin
    <2>2. tpCall'[r].pc = "system_fields"
      BY <1>2, TpIdleTyped, BeginTyped DEF CreateParty, TpPc
    <2>3. CopyAgrees(r)' /\ InHand(r)' = {} /\ tpCall'[r] # TpIdle
      BY <2>2 DEF CopyAgrees, InHand, TpIdle
    <2> QED BY <1>1, <2>1, <2>3, OnlyStep
  <1>3. CASE CreateSystemFields(r)
    <2>1. TpOnly(r) /\ Agreement' /\ (~tpBroken => tpStored = {tpRow.file})
      BY <1>1, <1>3, GoesOnAlone, AgreementStays DEF CreateSystemFields, TpAt, InHand
    <2> QED BY <1>1, <1>3, <2>1, ReturnAgrees DEF CreateSystemFields
  <1>4. CASE PartyRequest(r)
    <2>1. TpOnly(r) /\ Agreement' /\ (~tpBroken => tpStored = {tpRow.file})
      BY <1>1, <1>4, BeginsAlone, AgreementStays DEF PartyRequest
    <2>2. tpCall'[r].pc = "idle"
      BY <1>4 DEF PartyRequest, MayBegin, TpIdle
    <2>3. CopyAgrees(r)' /\ InHand(r)' = {}
      BY <2>2 DEF CopyAgrees, InHand
    <2> QED BY <1>1, <2>1, <2>3, OnlyStep
  <1> QED BY <1>2, <1>3, <1>4

(* The document gets the fields of the row that was read for it.           *)
LEMMA CreateDocumentAgrees ==
  ASSUME TpInv, TpSerialInv, tpSerial, NEW r \in TpRequests, CreateDocument(r)
  PROVE  TpSerialInv'
  <1> USE DEF TpInv
  <1>1. /\ tpCall[r].pc = "create"
        /\ UNCHANGED <<tpRow, tpText, tpFiles, tpStored, tpBroken>>
        /\ tpCall'[r].pc = "fields" /\ tpCall'[r].row = tpCall[r].row
        /\ \A q \in TpRequests \ {r} : tpCall'[q] = tpCall[q]
    BY DEF CreateDocument, TpAt, TpGoto, TpTypeOK, TpCall
  <1>2. /\ TpOnly(r) /\ Agreement /\ CopyAgrees(r)
        /\ ~tpBroken => tpStored = {tpRow.file}
    BY <1>1, GoesOnAlone DEF InHand
  <1>3. tpDoc'.made_of = OldFile(r) /\ ~tpDoc'.complete
    BY DEF CreateDocument, NoDocument, TpCopy, OldFile
  <1>4. Agreement'
    BY <1>1, <1>2, <1>3 DEF Agreement, VariablesCover, PreviewIsPresent, FieldsCover
  <1>5. CopyAgrees(r)'
    BY <1>1, <1>2, <1>3 DEF CopyAgrees, OldFile, Agreement, VariablesCover
  <1>6. InHand(r)' = {} /\ tpCall'[r] # TpIdle
    BY <1>1 DEF InHand, TpIdle
  <1> QED BY <1>1, <1>2, <1>4, <1>5, <1>6, OnlyStep

LEMMA CreateFieldsAgrees ==
  ASSUME TpTypeOK, TpSerialInv, tpSerial, NEW r \in TpRequests, CreateFieldValues(r)
  PROVE  TpSerialInv'
  <1>1. /\ tpCall[r].pc = "fields" /\ TpReturn(r)
        /\ UNCHANGED <<tpRow, tpText, tpFiles, tpStored, tpBroken>>
        /\ \A q \in TpRequests \ {r} : tpCall'[q] = tpCall[q]
    BY DEF CreateFieldValues, TpAt, TpReturn, TpTypeOK
  <1>2. /\ TpOnly(r) /\ Agreement /\ CopyAgrees(r)
        /\ ~tpBroken => tpStored = {tpRow.file}
    BY <1>1, GoesOnAlone DEF InHand
  <1>3. OldFile(r) \in TpFile
    BY DEF OldFile, TpTypeOK, TpCall, TpRow
  <1>4. /\ tpDoc'.made_of = tpDoc.made_of
        /\ tpCall[r].row.variables \subseteq tpDoc'.fields \cup InWords(tpDoc'.fields)
    <2> DEFINE fields == tpCall[r].row.schema \cup tpParty.fields
    <2>1. /\ tpDoc'.made_of = tpDoc.made_of
          /\ tpDoc'.fields = (tpCall[r].row.variables \ InWords(fields)) \cup fields
      BY DEF CreateFieldValues, FieldsOf, TpCopy, TpTypeOK, TpDocument
    <2>2. InWords(fields) \subseteq InWords(tpDoc'.fields)
      BY <2>1, WordsGrow
    <2> QED BY <2>1, <2>2
  <1>5. FieldsCover'
    BY <1>1, <1>2, <1>3, <1>4 DEF FieldsCover, CopyAgrees, InWords
  <1>6. Agreement'
    BY <1>1, <1>2, <1>5 DEF Agreement, VariablesCover, PreviewIsPresent
  <1> QED BY <1>1, <1>2, <1>6, ReturnAgrees

LEMMA RenderAgrees ==
  ASSUME TpTypeOK, TpSerialInv, tpSerial, NEW r \in TpRequests, RenderDocument(r)
  PROVE  TpSerialInv'
  <1>1. /\ tpCall[r].pc = "render" /\ TpReturn(r)
        /\ UNCHANGED <<tpRow, tpText, tpFiles, tpStored, tpBroken>>
        /\ \A q \in TpRequests \ {r} : tpCall'[q] = tpCall[q]
    BY DEF RenderDocument, TpAt, TpReturn, TpTypeOK
  <1>2. TpOnly(r) /\ Agreement /\ (~tpBroken => tpStored = {tpRow.file})
    BY <1>1, GoesOnAlone DEF InHand
  <1>3. /\ tpDoc'.made_of = tpDoc.made_of /\ tpDoc'.fields = tpDoc.fields
        /\ tpDoc'.complete = tpDoc.complete
    BY DEF RenderDocument, TpTypeOK, TpDocument
  <1>4. Agreement'
    BY <1>1, <1>2, <1>3 DEF Agreement, VariablesCover, PreviewIsPresent, FieldsCover
  <1> QED BY <1>1, <1>2, <1>4, ReturnAgrees

LEMMA BreakOffAgrees ==
  ASSUME TpTypeOK, TpSerialInv, tpSerial, NEW r \in TpRequests, TpBreakOff(r)
  PROVE  TpSerialInv'
  <1>1. /\ TpReturn(r) /\ tpBroken' /\ TpBusy(r)
        /\ UNCHANGED <<tpRow, tpText, tpFiles, tpDoc>>
        /\ \A q \in TpRequests \ {r} : tpCall'[q] = tpCall[q]
    BY DEF TpBreakOff, TpBusy, TpReturn, TpTypeOK
  <1>2. TpOnly(r) /\ Agreement'
    BY <1>1, AgreementStays DEF TpOnly, TpSerialInv, OneTpRequest
  <1> QED BY <1>1, <1>2, ReturnAgrees

LEMMA TpSerialInit == TpInit => TpSerialInv
  <1> SUFFICES ASSUME TpInit PROVE TpSerialInv
    OBVIOUS
  <1>1. \A r \in TpRequests : ~TpBusy(r) /\ tpCall[r].pc = "idle"
    BY DEF TpInit, TpBusy, TpIdle
  <1>2. 1 \in TpFile
    BY TpAssumption DEF TpFile
  <1>3. /\ tpRow.file = 1 /\ tpRow.preview = 0 /\ tpRow.schema = {}
        /\ tpText[1] = tpRow.variables
    BY <1>2 DEF TpInit, NoRow
  <1>4. Agreement
    BY <1>3
       DEF TpInit, NoDocument, Agreement, VariablesCover, PreviewIsPresent, FieldsCover
  <1> QED
    BY <1>1, <1>3, <1>4
       DEF TpInit, TpSerialInv, OneTpRequest, CopyAgrees, StoreIsClean

LEMMA TpSerialStep ==
  ASSUME TpInv, TpSerialInv, [TpNext]_tpVars
  PROVE  TpSerialInv'
  <1>0. TpTypeOK
    BY DEF TpInv
  <1>1. tpSerial' = tpSerial
    BY
       DEF TpNext, tpVars, BeginCallback, Download, StoreText, SaveFile, DeleteOldFile,
           BeginSave, SaveSchema, BeginPreview, SavePreview, CreateParty,
           CreateSystemFields, PartyRequest, BeginDocument, CreateDocument,
           CreateFieldValues, BeginFill, RenderDocument, TpBreakOff
  <1>2. CASE ~tpSerial
    BY <1>1, <1>2 DEF TpSerialInv
  <1>3. CASE UNCHANGED tpVars
    BY <1>3
       DEF tpVars, TpSerialInv, OneTpRequest, Agreement, VariablesCover,
           PreviewIsPresent, FieldsCover, CopyAgrees, StoreIsClean, TpBusy, InHand,
           NewFile, OldFile
  <1>4. CASE tpSerial /\ TpNext
    <2>1. PICK r \in TpRequests :
            \/ \/ BeginCallback(r) \/ BeginSave(r) \/ BeginPreview(r) \/ BeginFill(r)
               \/ BeginDocument(r)
            \/ Download(r) \/ StoreText(r) \/ SaveFile(r) \/ DeleteOldFile(r)
            \/ SaveSchema(r) \/ SavePreview(r)
            \/ CreateParty(r) \/ CreateSystemFields(r) \/ PartyRequest(r)
            \/ CreateDocument(r) \/ CreateFieldValues(r) \/ RenderDocument(r)
            \/ TpBreakOff(r)
      BY <1>4 DEF TpNext
    <2> QED
      BY <1>0, <1>4, <2>1, BeginsAgree, DownloadAgrees, StoreTextAgrees, SaveFileAgrees,
         DeleteOldAgrees, SavesAgree, PartiesAgree, CreateDocumentAgrees,
         CreateFieldsAgrees, RenderAgrees, BreakOffAgrees
  <1> QED BY <1>2, <1>3, <1>4

(* TpSerialInv is inductive on top of TpInv.                               *)
THEOREM LoneTemplatesInvariant == TpSpec => []TpSerialInv
  <1>1. TpInv /\ TpSerialInv /\ [TpNext]_tpVars => TpSerialInv'
    BY TpSerialStep
  <1> QED BY TpSerialInit, <1>1, TemplatesInvariant, PTL DEF TpSpec

(* Requests that do not overlap leave variables that cover the text and    *)
(* the schema, whichever was saved last, a preview of the present file,    *)
(* and, when none of them broke off, no other file                         *)
(* (documents/views.py:227-244, 298-309, 930-952, 971-981).                *)
THEOREM LoneTemplatesAgree == TpSpec => []LoneRequestsAgree
  <1>1. TpSerialInv => LoneRequestsAgree
    BY
       DEF TpSerialInv, LoneRequestsAgree, Agreement, VariablesCover, PreviewIsPresent,
           StoreIsClean, TpBusy
  <1> QED BY LoneTemplatesInvariant, <1>1, PTL

(* A document is rendered with a field for every name in the text, where   *)
(* requests do not overlap, its creation was not broken off and the text   *)
(* is the one it was made of (documents/views.py:176-215, 1363).           *)
THEOREM RenderedDocumentsHaveFields == TpSpec => []RenderedNamesHaveFields
  <1>1. TpSerialInv => RenderedNamesHaveFields
    BY DEF TpSerialInv, RenderedNamesHaveFields, Agreement, FieldsCover
  <1> QED BY LoneTemplatesInvariant, <1>1, PTL

-----------------------------------------------------------------------------
(***************************************************************************)
(* MoneyWords                                                              *)
(*                                                                         *)
(* A set that has 0 and with every number the next has all of them; from   *)
(* this, what the recursive functions Thousands and ReadAloud return.      *)
(***************************************************************************)
LEMMA WordsAreWellFounded ==
  \E R : /\ IsWellFoundedOn(R, Nat)
         /\ \A x, y \in Nat : <<x, y>> \in R <=> x < y
<1>1. IsWellFoundedOn({p \in Nat \X Nat : p[1] < p[2]}, Nat)
  BY NatLessThanWellFounded DEF OpToRel
<1>2. \A x, y \in Nat : <<x, y>> \in {p \in Nat \X Nat : p[1] < p[2]} <=> x < y
  OBVIOUS
<1> QED  BY <1>1, <1>2

LEMMA WordsInduction ==
  ASSUME NEW T, 0 \in T, \A n \in Nat : n \in T => n + 1 \in T
  PROVE  \A n \in Nat : n \in T
<1> DEFINE rest == Nat \ T
<1> SUFFICES ASSUME rest # {} PROVE FALSE
  OBVIOUS
<1>1. PICK R : /\ IsWellFoundedOn(R, Nat)
               /\ \A x, y \in Nat : <<x, y>> \in R <=> x < y
  BY WordsAreWellFounded
<1>2. IsWellFoundedOn(R, Nat) /\ rest \subseteq Nat
  BY <1>1
<1>3. \E n \in rest : \A m \in rest : ~ (<<m, n>> \in R)
  <2> HIDE DEF rest
  <2> QED  BY <1>2, WFMin, Zenon
<1>4. PICK n \in rest : \A m \in rest : ~ (m < n)
  BY <1>1, <1>3
<1>5. n # 0 /\ n - 1 \in Nat /\ n - 1 \in T
  BY <1>4
<1> QED  BY <1>4, <1>5

(* f goes on from start, at each k by what step does there.                *)
Steps(f, start, last, step) ==
  f[0] = start /\ \A k \in 1 .. last : f[k] = step[k - 1][f[k - 1]]

(* A function that is computed step by step from a first value exists.     *)
LEMMA StepwiseFunction ==
  ASSUME NEW S, NEW start \in S, NEW last \in Nat, NEW step \in [Nat -> [S -> S]]
  PROVE  \E f \in [0 .. last -> S] : Steps(f, start, last, step)
<1> USE DEF Steps
<1> DEFINE Computes(n, f) ==
             f[0] = start /\ \A k \in 1 .. n : f[k] = step[k - 1][f[k - 1]]
           T == {n \in Nat : \E f \in [0 .. n -> S] : Computes(n, f)}
<1>1. 0 \in T
  <2> DEFINE f == [k \in 0 .. 0 |-> start]
  <2>1. f \in [0 .. 0 -> S] /\ Computes(0, f)
    OBVIOUS
  <2> QED  BY <2>1
<1>2. ASSUME NEW n \in Nat, n \in T PROVE n + 1 \in T
  <2>1. PICK f \in [0 .. n -> S] : Computes(n, f)
    BY <1>2
  <2> DEFINE g == [k \in 0 .. (n + 1) |-> IF k <= n THEN f[k] ELSE step[n][f[n]]]
  <2>2. g \in [0 .. (n + 1) -> S]
    OBVIOUS
  <2>3. g[0] = start
    BY <2>1
  <2>4. ASSUME NEW k \in 1 .. (n + 1) PROVE g[k] = step[k - 1][g[k - 1]]
    <3>1. CASE k <= n
      BY <2>1, <3>1
    <3>2. CASE k = n + 1
      BY <3>2
    <3> QED  BY <3>1, <3>2
  <2>5. Computes(n + 1, g)
    BY <2>3, <2>4
  <2> HIDE DEF g, Computes
  <2> QED  BY <2>2, <2>5
<1>3. last \in T
  <2> HIDE DEF T
  <2> QED  BY <1>1, <1>2, WordsInduction
<1> QED  BY <1>3

LEMMA ThousandsDefined ==
  /\ Thousands \in [0 .. (Scales + 1) -> Nat]
  /\ Thousands[0] = 1
  /\ \A k \in 1 .. (Scales + 1) : Thousands[k] = 1000 * Thousands[k - 1]
<1> DEFINE step == [k \in Nat |-> [n \in Nat |-> 1000 * n]]
           Is(f) == f = [k \in 0 .. (Scales + 1) |-> IF k = 0 THEN 1 ELSE 1000 * f[k - 1]]
<1>1. step \in [Nat -> [Nat -> Nat]] /\ Scales + 1 \in Nat /\ 1 \in Nat
  BY MwAssumption
<1>2. \A k \in 1 .. (Scales + 1), n \in Nat : step[k - 1][n] = 1000 * n
  BY MwAssumption
<1> HIDE DEF step
<1>3. \E f \in [0 .. (Scales + 1) -> Nat] : Steps(f, 1, Scales + 1, step)
  BY <1>1, StepwiseFunction, Zenon
<1>4. PICK f \in [0 .. (Scales + 1) -> Nat] :
        f[0] = 1 /\ \A k \in 1 .. (Scales + 1) : f[k] = step[k - 1][f[k - 1]]
  BY <1>3 DEF Steps
<1>5. \A k \in 1 .. (Scales + 1) : f[k] = 1000 * f[k - 1]
  <2> TAKE k \in 1 .. (Scales + 1)
  <2>1. f[k - 1] \in Nat
    BY MwAssumption
  <2>2. step[k - 1][f[k - 1]] = 1000 * f[k - 1]
    <3> DEFINE Times(n) == 1000 * n
    <3>1. \A j \in 1 .. (Scales + 1), n \in Nat : step[j - 1][n] = Times(n)
      BY <1>2
    <3> HIDE DEF Times
    <3>2. step[k - 1][f[k - 1]] = Times(f[k - 1])
      BY <2>1, <3>1, Zenon
    <3> QED  BY <3>2 DEF Times
  <2> QED  BY <1>4, <2>2
<1>6. Is(f)
  BY <1>4, <1>5, MwAssumption
<1>7. Thousands = CHOOSE g : Is(g)
  BY DEF Thousands
<1> HIDE DEF Is
<1>8. Is(Thousands)
  BY <1>6, <1>7, Zenon
<1>9. Thousands = [k \in 0 .. (Scales + 1) |-> IF k = 0 THEN 1 ELSE 1000 * Thousands[k - 1]]
  BY <1>8 DEF Is
<1>10. Thousands[0] = 1
  BY <1>9, MwAssumption
<1>11. \A k \in 1 .. (Scales + 1) : Thousands[k] = 1000 * Thousands[k - 1]
  <2> TAKE k \in 1 .. (Scales + 1)
  <2>1. k \in 0 .. (Scales + 1) /\ k # 0
    BY MwAssumption
  <2> QED  BY <1>9, <2>1, MwAssumption
<1> DEFINE T == {k \in Nat : k <= Scales + 1 => Thousands[k] \in Nat}
<1>12. \A k \in Nat : k \in T
  <2>1. 0 \in T
    BY <1>10
  <2>2. ASSUME NEW k \in Nat, k \in T, k + 1 <= Scales + 1 PROVE Thousands[k + 1] \in Nat
    <3>1. k + 1 \in 1 .. (Scales + 1) /\ (k + 1) - 1 = k /\ Thousands[k] \in Nat
      BY <2>2, MwAssumption
    <3> QED  BY <3>1, <1>11
  <2>3. \A k \in Nat : k \in T => k + 1 \in T
    BY <2>2
  <2> HIDE DEF T
  <2> QED  BY <2>1, <2>3, WordsInduction
<1>13. \A k \in 0 .. (Scales + 1) : Thousands[k] \in Nat
  BY <1>12, MwAssumption
<1>14. Thousands \in [0 .. (Scales + 1) -> Nat]
  BY <1>9, <1>13
<1> QED  BY <1>10, <1>11, <1>14

(* What is said, and what is heard.                                        *)
Books == {"hundreds", "tens", "teens", "units", "hundred", "scale"}
Endings == {""} \cup Genders \cup Forms
Spoken ==
  {word \in [book : Books, key : Nat, form : Endings] :
     word.book = "scale" => word.key \in 1 .. Scales}
Heard == [total : Nat, group : Nat]

LEMMA ReadWordHeard ==
  ASSUME NEW read \in Heard, NEW word \in Spoken
  PROVE  ReadWord(read, word) \in Heard
<1>1. NumberOf(word) \in Nat
  BY DEF NumberOf, Spoken
<1>2. CASE word.book = "scale"
  <2>1. Thousands[word.key] \in Nat
    BY <1>2, ThousandsDefined, MwAssumption DEF Spoken
  <2> QED  BY <1>2, <2>1 DEF ReadWord, Heard
<1>3. CASE word.book # "scale"
  BY <1>1, <1>3 DEF ReadWord, Heard
<1> QED  BY <1>2, <1>3

LEMMA ReadAloudDefined ==
  ASSUME NEW words \in Seq(Spoken)
  PROVE  /\ ReadAloud(words) \in [0 .. Len(words) -> Heard]
         /\ ReadAloud(words)[0] = Silence
         /\ \A k \in 1 .. Len(words) :
              ReadAloud(words)[k] = ReadWord(ReadAloud(words)[k - 1], words[k])
<1> DEFINE last == Len(words)
           step == [k \in Nat |-> [read \in Heard |->
                     IF k + 1 \in 1 .. last THEN ReadWord(read, words[k + 1]) ELSE read]]
           Is(f) == f = [k \in 0 .. last |->
                          IF k = 0 THEN Silence ELSE ReadWord(f[k - 1], words[k])]
           value == ReadAloud(words)
<1>1. last \in Nat /\ Silence \in Heard
  BY DEF Heard, Silence
<1>2. step \in [Nat -> [Heard -> Heard]]
  <2>1. ASSUME NEW k \in Nat, NEW read \in Heard, k + 1 \in 1 .. last
        PROVE  ReadWord(read, words[k + 1]) \in Heard
    <3>1. words[k + 1] \in Spoken
      BY <2>1
    <3> QED  BY <3>1, ReadWordHeard
  <2> QED  BY <2>1
<1>3. \A k \in 1 .. last, read \in Heard : step[k - 1][read] = ReadWord(read, words[k])
  <2> TAKE k \in 1 .. last, read \in Heard
  <2>1. k - 1 \in Nat /\ (k - 1) + 1 = k
    BY <1>1
  <2> QED  BY <2>1
<1>4. ReadAloud(words) = CHOOSE f : Is(f)
  BY DEF ReadAloud
<1> HIDE DEF step, last
<1>5. \E f \in [0 .. last -> Heard] : Steps(f, Silence, last, step)
  BY <1>1, <1>2, StepwiseFunction, Zenon
<1>6. PICK f \in [0 .. last -> Heard] : Steps(f, Silence, last, step)
  BY <1>5
<1>7. \A k \in 1 .. last : f[k] = ReadWord(f[k - 1], words[k])
  <2> TAKE k \in 1 .. last
  <2>1. f[k - 1] \in Heard
    BY <1>1
  <2>2. step[k - 1][f[k - 1]] = ReadWord(f[k - 1], words[k])
    BY <1>3, <2>1, Zenon
  <2> QED  BY <1>6, <2>2 DEF Steps
<1>8. Is(f)
  BY <1>1, <1>6, <1>7 DEF Steps
<1> HIDE DEF Is
<1>9. Is(ReadAloud(words))
  BY <1>4, <1>8, Zenon
<1> HIDE DEF value
<1>10. value = [k \in 0 .. last |->
                  IF k = 0 THEN Silence ELSE ReadWord(value[k - 1], words[k])]
  BY <1>9 DEF Is, value
<1>11. value[0] = Silence
  BY <1>1, <1>10
<1>12. \A k \in 1 .. last : value[k] = ReadWord(value[k - 1], words[k])
  <2> TAKE k \in 1 .. last
  <2>1. k \in 0 .. last /\ k # 0
    BY <1>1
  <2> QED  BY <1>10, <2>1
<1> DEFINE T == {k \in Nat : k <= last => value[k] \in Heard}
<1>13. \A k \in Nat : k \in T
  <2>1. 0 \in T
    BY <1>1, <1>11
  <2>2. ASSUME NEW k \in Nat, k \in T, k + 1 <= last PROVE value[k + 1] \in Heard
    <3>1. k + 1 \in 1 .. last /\ (k + 1) - 1 = k /\ value[k] \in Heard
      BY <1>1, <2>2
    <3>2. words[k + 1] \in Spoken
      BY <3>1 DEF last
    <3> QED  BY <3>1, <3>2, <1>12, ReadWordHeard
  <2>3. \A k \in Nat : k \in T => k + 1 \in T
    BY <2>2
  <2> HIDE DEF T
  <2> QED  BY <2>1, <2>3, WordsInduction
<1>14. \A k \in 0 .. last : value[k] \in Heard
  BY <1>1, <1>13
<1>15. value \in [0 .. last -> Heard]
  BY <1>10, <1>14
<1> QED  BY <1>11, <1>12, <1>15 DEF value, last

HeardOf(words) == ReadAloud(words)[Len(words)]

LEMMA SilenceHeard == HeardOf(<<>>) = Silence
<1>1. <<>> \in Seq(Spoken) /\ Len(<<>>) = 0
  OBVIOUS
<1> QED  BY <1>1, ReadAloudDefined DEF HeardOf

(* The beginning of what is said is heard as if it was all.                *)
LEMMA BeginningHeard ==
  ASSUME NEW front \in Seq(Spoken), NEW words \in Seq(Spoken)
  PROVE  \A k \in Nat : k <= Len(front) =>
           ReadAloud(front \o words)[k] = ReadAloud(front)[k]
<1> DEFINE all == front \o words
           T == {k \in Nat : k <= Len(front) => ReadAloud(all)[k] = ReadAloud(front)[k]}
<1>1. /\ all \in Seq(Spoken) /\ Len(all) = Len(front) + Len(words)
      /\ \A k \in 1 .. Len(front) : all[k] = front[k]
      /\ Len(front) \in Nat /\ Len(words) \in Nat
  OBVIOUS
<1> HIDE DEF all
<1>2. 0 \in T
  BY <1>1, ReadAloudDefined
<1>3. ASSUME NEW k \in Nat, k \in T, k + 1 <= Len(front)
      PROVE  ReadAloud(all)[k + 1] = ReadAloud(front)[k + 1]
  <2>1. k + 1 \in 1 .. Len(all) /\ k + 1 \in 1 .. Len(front) /\ (k + 1) - 1 = k
    BY <1>1, <1>3
  <2>2. ReadAloud(all)[k + 1] = ReadWord(ReadAloud(all)[k], all[k + 1])
    BY <1>1, <2>1, ReadAloudDefined
  <2>3. ReadAloud(front)[k + 1] = ReadWord(ReadAloud(front)[k], front[k + 1])
    BY <2>1, ReadAloudDefined
  <2> QED  BY <1>1, <1>3, <2>1, <2>2, <2>3
<1>4. \A k \in Nat : k \in T => k + 1 \in T
  BY <1>3
<1> HIDE DEF T
<1>5. \A k \in Nat : k \in T
  BY <1>2, <1>4, WordsInduction
<1> QED  BY <1>5 DEF T, all

(* The word that is said last goes with what was heard before it.          *)
LEMMA SayWord ==
  ASSUME NEW words \in Seq(Spoken), NEW word \in Spoken
  PROVE  /\ words \o <<word>> \in Seq(Spoken)
         /\ HeardOf(words \o <<word>>) = ReadWord(HeardOf(words), word)
<1> DEFINE all == words \o <<word>>
           n == Len(words)
<1>1. /\ all \in Seq(Spoken) /\ Len(all) = n + 1 /\ all[n + 1] = word
      /\ n \in Nat
  OBVIOUS
<1>2. ReadAloud(all)[n] = ReadAloud(words)[n]
  <2>1. <<word>> \in Seq(Spoken)
    OBVIOUS
  <2>2. \A k \in Nat : k <= n => ReadAloud(all)[k] = ReadAloud(words)[k]
    BY <2>1, BeginningHeard
  <2> HIDE DEF all, n
  <2> QED  BY <1>1, <2>2
<1> HIDE DEF all, n
<1>3. ReadAloud(all)[n + 1] = ReadWord(ReadAloud(all)[n], all[n + 1])
  <2>1. n + 1 \in 1 .. Len(all) /\ (n + 1) - 1 = n
    BY <1>1
  <2> QED  BY <1>1, <2>1, ReadAloudDefined
<1> QED  BY <1>1, <1>2, <1>3 DEF HeardOf, all, n

(* Once a group is closed, the words that follow are heard as if nothing   *)
(* but a number had been said before.                                      *)
LEMMA SayAfterwards ==
  ASSUME NEW front \in Seq(Spoken), NEW words \in Seq(Spoken),
         HeardOf(front).group = 0
  PROVE  HeardOf(front \o words)
           = [HeardOf(words) EXCEPT !.total = HeardOf(front).total + @]
<1> DEFINE all == front \o words
           n == Len(front)
           m == Len(words)
           sum == HeardOf(front).total
           After(k) == ReadAloud(all)[n + k] =
                         [total |-> sum + ReadAloud(words)[k].total,
                          group |-> ReadAloud(words)[k].group]
           T == {k \in Nat : k <= m => After(k)}
<1>1. /\ all \in Seq(Spoken) /\ Len(all) = n + m
      /\ \A k \in 1 .. m : all[n + k] = words[k]
      /\ n \in Nat /\ m \in Nat
  OBVIOUS
<1>2. HeardOf(front) \in Heard /\ HeardOf(front) = [total |-> sum, group |-> 0] /\ sum \in Nat
  <2>1. HeardOf(front) \in Heard
    BY <1>1, ReadAloudDefined DEF HeardOf
  <2> QED  BY <2>1 DEF Heard
<1>3. ReadAloud(all)[n] = HeardOf(front)
  BY <1>1, BeginningHeard DEF HeardOf
<1>4. \A k \in 0 .. m : ReadAloud(words)[k] \in Heard
  BY ReadAloudDefined
<1> HIDE DEF all, n, m, sum
<1>5. 0 \in T
  <2>1. ReadAloud(words)[0] = Silence
    BY ReadAloudDefined
  <2> QED  BY <1>1, <1>2, <1>3, <2>1 DEF Silence
<1>6. ASSUME NEW k \in Nat, k + 1 <= m, After(k)
      PROVE  After(k + 1)
  <2>1. /\ n + (k + 1) \in 1 .. Len(all) /\ (n + (k + 1)) - 1 = n + k
        /\ k + 1 \in 1 .. m /\ (k + 1) - 1 = k /\ k \in 0 .. m
    <3>1. k + 1 <= m
      BY <1>6
    <3> HIDE DEF After
    <3> QED  BY <1>1, <3>1
  <2>2. ReadAloud(all)[n + (k + 1)] = ReadWord(ReadAloud(all)[n + k], words[k + 1])
    BY <1>1, <2>1, ReadAloudDefined
  <2>3. ReadAloud(words)[k + 1] = ReadWord(ReadAloud(words)[k], words[k + 1])
    BY <2>1, ReadAloudDefined DEF m
  <2>4. words[k + 1] \in Spoken /\ ReadAloud(words)[k] \in Heard
    BY <1>4, <2>1 DEF m
  <2> DEFINE heard == ReadAloud(words)[k]
             word == words[k + 1]
  <2>5. ReadWord([total |-> sum + heard.total, group |-> heard.group], word)
          = [total |-> sum + ReadWord(heard, word).total,
             group |-> ReadWord(heard, word).group]
    <3> HIDE DEF heard, word
    <3>1. heard \in Heard /\ word \in Spoken
      BY <2>4 DEF heard, word
    <3>2. CASE word.book = "scale"
      <4>1. Thousands[word.key] \in Nat
        BY <3>1, <3>2, ThousandsDefined, MwAssumption DEF Spoken
      <4>2. heard.group * Thousands[word.key] \in Nat
        BY <3>1, <4>1 DEF Heard
      <4> QED  BY <1>2, <3>1, <3>2, <4>1, <4>2 DEF ReadWord, Heard
    <3>3. CASE word.book # "scale"
      BY <1>2, <3>1, <3>3 DEF ReadWord, Heard
    <3> QED  BY <3>2, <3>3
  <2> QED  BY <1>6, <2>2, <2>3, <2>5
<1>7. \A k \in Nat : k \in T => k + 1 \in T
  <2>1. \A k \in Nat : k + 1 <= m => k <= m
    BY <1>1
  <2> HIDE DEF After
  <2> QED  BY <1>6, <2>1
<1>8. After(m)
  <2> HIDE DEF T
  <2>1. \A k \in Nat : k \in T
    BY <1>5, <1>7, WordsInduction
  <2> QED  BY <1>1, <2>1 DEF T
<1>9. HeardOf(words) \in Heard /\ HeardOf(words) = ReadAloud(words)[m]
  BY <1>1, <1>4 DEF HeardOf, m
<1> QED  BY <1>1, <1>8, <1>9 DEF HeardOf, Heard, all, n, m, sum

-----------------------------------------------------------------------------
LEMMA BookIsSpoken ==
  ASSUME NEW book \in Books, NEW keys \in SUBSET Nat, NEW form \in Endings,
         book = "scale" => keys \subseteq 1 .. Scales
  PROVE  Book(book, keys, form) \subseteq Spoken
<1>1. ASSUME NEW key \in keys PROVE Word(book, key, form) \in Spoken
  <2>1. key \in Nat /\ (book = "scale" => key \in 1 .. Scales)
    OBVIOUS
  <2> QED  BY <2>1 DEF Word, Spoken
<1> QED  BY <1>1, Zenon DEF Book

LEMMA WordsAreSpoken == RuWords \subseteq Spoken /\ KkWords \subseteq Spoken
<1>1. /\ 1 .. 9 \in SUBSET Nat /\ 2 .. 9 \in SUBSET Nat /\ 10 .. 19 \in SUBSET Nat
      /\ 1 .. Scales \in SUBSET Nat /\ {1} \in SUBSET Nat
  BY MwAssumption
<1>2. "" \in Endings /\ Genders \subseteq Endings /\ Forms \subseteq Endings
  BY DEF Endings
<1>3. /\ Book("hundreds", 1 .. 9, "") \subseteq Spoken
      /\ Book("tens", 2 .. 9, "") \subseteq Spoken
      /\ Book("teens", 10 .. 19, "") \subseteq Spoken
      /\ \A gender \in Genders : Book("units", 1 .. 9, gender) \subseteq Spoken
      /\ \A form \in Forms : Book("scale", 1 .. Scales, form) \subseteq Spoken
  BY <1>1, <1>2, BookIsSpoken DEF Books
<1>4. /\ Book("units", 1 .. 9, "") \subseteq Spoken
      /\ Book("tens", 1 .. 9, "") \subseteq Spoken
      /\ Book("hundred", {1}, "") \subseteq Spoken
      /\ Book("scale", 1 .. Scales, "") \subseteq Spoken
  BY <1>1, <1>2, BookIsSpoken DEF Books
<1>5. RuWords \subseteq Spoken
  <2>1. UNION {Book("units", 1 .. 9, gender) : gender \in Genders} \subseteq Spoken
    BY <1>3
  <2>2. UNION {Book("scale", 1 .. Scales, form) : form \in Forms} \subseteq Spoken
    BY <1>3
  <2> QED  BY <1>3, <2>1, <2>2, Zenon DEF RuWords
<1>6. KkWords \subseteq Spoken
  BY <1>4 DEF KkWords
<1> QED  BY <1>5, <1>6

LEMMA DigitsOf ==
  ASSUME NEW number \in 0 .. 999
  PROVE  /\ number \div 100 \in 0 .. 9
         /\ number % 100 \in 0 .. 99
         /\ (number % 100) \div 10 \in 0 .. 9
         /\ (number % 100) % 10 \in 0 .. 9
         /\ number % 10 = (number % 100) % 10
         /\ number = 100 * (number \div 100) + (number % 100)
         /\ number % 100 = 10 * ((number % 100) \div 10) + ((number % 100) % 10)
OBVIOUS

(* The words are heard as a number, no group of them is closed.            *)
Says(words, number) ==
  words \in Seq(Spoken) /\ HeardOf(words) = [total |-> 0, group |-> number]

LEMMA NothingSaid == Says(<<>>, 0)
<1>1. <<>> \in Seq(Spoken)
  OBVIOUS
<1> QED  BY <1>1, SilenceHeard DEF Says, Silence

LEMMA SayNumber ==
  ASSUME NEW words, NEW sum \in Nat, Says(words, sum),
         NEW word \in Spoken, word.book \notin {"scale", "hundred"}
  PROVE  Says(words \o <<word>>, sum + NumberOf(word))
<1>1. words \in Seq(Spoken) /\ HeardOf(words) = [total |-> 0, group |-> sum]
  BY DEF Says
<1>2. /\ words \o <<word>> \in Seq(Spoken)
      /\ HeardOf(words \o <<word>>) = ReadWord(HeardOf(words), word)
  BY <1>1, SayWord
<1>3. ReadWord(HeardOf(words), word) = [HeardOf(words) EXCEPT !.group = @ + NumberOf(word)]
  BY DEF ReadWord
<1> QED  BY <1>1, <1>2, <1>3 DEF Says

LEMMA SayDigit ==
  ASSUME NEW words, NEW sum \in Nat, Says(words, sum), NEW key \in Nat,
         NEW form \in Endings, NEW book \in {"hundreds", "tens", "teens", "units"}
  PROVE  Says(words \o WordOrNone(book, key, form), sum + NumberOf(Word(book, key, form)))
<1>1. CASE key = 0
  <2>1. WordOrNone(book, key, form) = <<>>
    BY <1>1 DEF WordOrNone
  <2>2. NumberOf(Word(book, key, form)) = 0
    BY <1>1 DEF NumberOf, Word
  <2>3. words \o <<>> = words
    BY ConcatEmptySeq DEF Says
  <2>4. sum + NumberOf(Word(book, key, form)) = sum
    BY <2>2
  <2> QED  BY <2>1, <2>3, <2>4
<1>2. CASE key # 0
  <2>1. Word(book, key, form) \in Spoken /\ Word(book, key, form).book = book
    BY DEF Word, Spoken, Books
  <2>2. WordOrNone(book, key, form) = <<Word(book, key, form)>>
    BY <1>2 DEF WordOrNone
  <2>3. Says(words \o <<Word(book, key, form)>>, sum + NumberOf(Word(book, key, form)))
    BY <2>1, SayNumber
  <2> QED  BY <2>2, <2>3, Zenon
<1> QED  BY <1>1, <1>2

LEMMA SayHundreds ==
  ASSUME NEW words, NEW sum \in Nat, Says(words, sum), NEW key \in Nat
  PROVE  Says(words \o WordOrNone("hundreds", key, ""), sum + 100 * key)
<1>1. Says(words \o WordOrNone("hundreds", key, ""), sum + NumberOf(Word("hundreds", key, "")))
  BY SayDigit DEF Endings
<1>2. NumberOf(Word("hundreds", key, "")) = 100 * key
  BY DEF NumberOf, Word
<1> QED  BY <1>1, <1>2, Zenon

LEMMA SayTens ==
  ASSUME NEW words, NEW sum \in Nat, Says(words, sum), NEW key \in Nat
  PROVE  Says(words \o WordOrNone("tens", key, ""), sum + 10 * key)
<1>1. Says(words \o WordOrNone("tens", key, ""), sum + NumberOf(Word("tens", key, "")))
  BY SayDigit DEF Endings
<1>2. NumberOf(Word("tens", key, "")) = 10 * key
  BY DEF NumberOf, Word
<1> QED  BY <1>1, <1>2, Zenon

LEMMA SayTeens ==
  ASSUME NEW words, NEW sum \in Nat, Says(words, sum), NEW key \in Nat
  PROVE  Says(words \o WordOrNone("teens", key, ""), sum + key)
<1>1. Says(words \o WordOrNone("teens", key, ""), sum + NumberOf(Word("teens", key, "")))
  BY SayDigit DEF Endings
<1>2. NumberOf(Word("teens", key, "")) = key
  BY DEF NumberOf, Word
<1> QED  BY <1>1, <1>2, Zenon

LEMMA SayUnits ==
  ASSUME NEW words, NEW sum \in Nat, Says(words, sum), NEW key \in Nat, NEW gender \in Endings
  PROVE  Says(words \o WordOrNone("units", key, gender), sum + key)
<1>1. Says(words \o WordOrNone("units", key, gender), sum + NumberOf(Word("units", key, gender)))
  BY SayDigit
<1>2. NumberOf(Word("units", key, gender)) = key
  BY DEF NumberOf, Word
<1> QED  BY <1>1, <1>2, Zenon

LEMMA SaidIsSequence ==
  ASSUME NEW key \in Nat, NEW form \in Endings,
         NEW book \in {"hundreds", "tens", "teens", "units"}
  PROVE  WordOrNone(book, key, form) \in Seq(Spoken)
<1>1. Word(book, key, form) \in Spoken
  BY DEF Word, Spoken, Books
<1> QED  BY <1>1 DEF WordOrNone

(* The words of a group of digits are heard as its number.                 *)
LEMMA DigitsSay ==
  ASSUME NEW h \in Nat, NEW rest \in Nat, NEW d \in Nat, NEW u \in Nat, rest = 10 * d + u,
         NEW gender \in Genders
  PROVE  Says(WordOrNone("hundreds", h, "") \o
                (IF IsTeen(rest) THEN <<Word("teens", rest, "")>>
                 ELSE WordOrNone("tens", d, "") \o WordOrNone("units", u, gender)),
              100 * h + rest)
<1> DEFINE a == WordOrNone("hundreds", h, "")
           b == WordOrNone("tens", d, "")
           c == WordOrNone("units", u, gender)
           t == WordOrNone("teens", rest, "")
<1>1. gender \in Endings /\ "" \in Endings
  BY DEF Endings
<1>2. a \in Seq(Spoken) /\ b \in Seq(Spoken) /\ c \in Seq(Spoken)
  BY <1>1, SaidIsSequence
<1>3. 0 \in Nat /\ 100 * h \in Nat /\ 10 * d \in Nat /\ 0 + 100 * h = 100 * h
  OBVIOUS
<1>4. 100 * h + 10 * d \in Nat /\ (100 * h + 10 * d) + u = 100 * h + rest
  OBVIOUS
<1>5. Says(a, 100 * h)
  <2>1. <<>> \o a = a
    BY <1>2, ConcatEmptySeq
  <2>2. Says(<<>> \o a, 0 + 100 * h)
    BY <1>3, NothingSaid, SayHundreds, Zenon
  <2> HIDE DEF a
  <2> QED  BY <1>3, <2>1, <2>2, Zenon
<1> HIDE DEF a
<1>6. CASE IsTeen(rest)
  <2>1. t = <<Word("teens", rest, "")>>
    <3>1. rest # 0
      BY <1>6 DEF IsTeen
    <3> QED  BY <3>1, Zenon DEF WordOrNone
  <2>2. Says(a \o t, 100 * h + rest)
    BY <1>3, <1>5, SayTeens, Zenon
  <2> QED  BY <1>6, <2>1, <2>2, Zenon DEF a
<1>7. CASE ~IsTeen(rest)
  <2>1. Says(a \o b, 100 * h + 10 * d)
    BY <1>3, <1>5, SayTens, Zenon
  <2>2. Says((a \o b) \o c, (100 * h + 10 * d) + u)
    <3> HIDE DEF b
    <3> QED  BY <1>1, <1>4, <2>1, SayUnits, Zenon
  <2>3. (a \o b) \o c = a \o (b \o c)
    <3> HIDE DEF b, c
    <3> QED  BY <1>2, ConcatAssociative
  <2>4. Says(a \o (b \o c), 100 * h + rest)
    BY <1>4, <2>2, <2>3, Zenon
  <2> QED  BY <1>7, <2>4, Zenon DEF a
<1> QED  BY <1>6, <1>7

(* The numbers that one turn of the loop says.                             *)
Triplets == 0 .. 999

LEMMA TripletRuSays ==
  ASSUME NEW number \in Triplets, NEW gender \in Genders
  PROVE  Says(TripletRu(number, gender), number)
<1>1. PICK h \in Nat, rest \in Nat, d \in Nat, u \in Nat :
        /\ h = number \div 100 /\ rest = number % 100
        /\ d = (number % 100) \div 10 /\ u = (number % 100) % 10
        /\ rest = 10 * d + u /\ number = 100 * h + rest
  BY DigitsOf DEF Triplets
<1>2. TripletRu(number, gender)
        = WordOrNone("hundreds", h, "") \o
            (IF IsTeen(rest) THEN <<Word("teens", rest, "")>>
             ELSE WordOrNone("tens", d, "") \o WordOrNone("units", u, gender))
  BY <1>1, Zenon DEF TripletRu
<1>3. rest = 10 * d + u /\ number = 100 * h + rest
  BY <1>1
<1>4. Says(WordOrNone("hundreds", h, "") \o
             (IF IsTeen(rest) THEN <<Word("teens", rest, "")>>
              ELSE WordOrNone("tens", d, "") \o WordOrNone("units", u, gender)),
           100 * h + rest)
  BY <1>3, DigitsSay, Zenon
<1> QED  BY <1>2, <1>3, <1>4, Zenon

LEMMA SayHundred ==
  ASSUME NEW words, NEW sum \in Nat, Says(words, sum)
  PROVE  Says(words \o <<Word("hundred", 1, "")>>, 100 * (IF sum = 0 THEN 1 ELSE sum))
<1> DEFINE word == Word("hundred", 1, "")
<1>1. word \in Spoken /\ word.book = "hundred"
  BY DEF Word, Spoken, Books, Endings
<1>2. words \in Seq(Spoken) /\ HeardOf(words) = [total |-> 0, group |-> sum]
  BY DEF Says
<1> HIDE DEF word
<1>3. /\ words \o <<word>> \in Seq(Spoken)
      /\ HeardOf(words \o <<word>>) = ReadWord(HeardOf(words), word)
  BY <1>1, <1>2, SayWord
<1>4. ReadWord(HeardOf(words), word) = [total |-> 0, group |-> 100 * (IF sum = 0 THEN 1 ELSE sum)]
  BY <1>1, <1>2 DEF ReadWord
<1> QED  BY <1>3, <1>4 DEF Says, word

LEMMA TripletKkSays ==
  ASSUME NEW number \in Triplets
  PROVE  Says(TripletKk(number), number)
<1>1. PICK h \in Nat, d \in Nat, u \in Nat :
        /\ h = number \div 100 /\ d = (number % 100) \div 10 /\ u = (number % 100) % 10
        /\ number = (100 * h + 10 * d) + u
  BY DigitsOf DEF Triplets
<1> DEFINE a == IF h > 1 THEN <<Word("units", h, "")>> ELSE <<>>
           b == IF h > 0 THEN <<Word("hundred", 1, "")>> ELSE <<>>
           c == WordOrNone("tens", d, "")
           e == WordOrNone("units", u, "")
<1>2. TripletKk(number) = ((a \o b) \o c) \o e
  BY <1>1, Zenon DEF TripletKk
<1>3. number = (100 * h + 10 * d) + u /\ 100 * h \in Nat /\ 100 * h + 10 * d \in Nat
  BY <1>1
<1>4. Says(a \o b, 100 * h)
  <2>1. CASE h = 0
    <3>1. a = <<>> /\ b = <<>> /\ <<>> \o <<>> = <<>> /\ 100 * h = 0
      BY <2>1
    <3> QED  BY <3>1, NothingSaid
  <2>2. CASE h = 1
    <3>1. a = <<>> /\ b = <<Word("hundred", 1, "")>>
      BY <2>2
    <3>2. Says(<<>> \o <<Word("hundred", 1, "")>>, 100 * (IF 0 = 0 THEN 1 ELSE 0))
      BY NothingSaid, SayHundred
    <3>3. 100 * (IF 0 = 0 THEN 1 ELSE 0) = 100 * h
      BY <2>2
    <3> QED  BY <3>1, <3>2, <3>3, Zenon
  <2>3. CASE h > 1
    <3>1. a = WordOrNone("units", h, "") /\ b = <<Word("hundred", 1, "")>>
      <4>1. h # 0 /\ h > 0
        BY <2>3
      <4> QED  BY <2>3, <4>1, Zenon DEF WordOrNone
    <3>2. Says(<<>> \o a, 0 + h)
      <4>1. 0 \in Nat /\ "" \in Endings
        BY DEF Endings
      <4> HIDE DEF a
      <4> QED  BY <3>1, <4>1, NothingSaid, SayUnits, Zenon
    <3>3. <<>> \o a = a
      <4>1. WordOrNone("units", h, "") \in Seq(Spoken)
        <5>1. "" \in Endings
          BY DEF Endings
        <5> QED  BY <5>1, SaidIsSequence
      <4>2. <<>> \o WordOrNone("units", h, "") = WordOrNone("units", h, "")
        BY <4>1, ConcatEmptySeq
      <4> HIDE DEF a
      <4> QED  BY <3>1, <4>2, Zenon
    <3>4. Says(a, h)
      <4>1. 0 + h = h
        OBVIOUS
      <4> HIDE DEF a
      <4> QED  BY <3>2, <3>3, <4>1, Zenon
    <3>5. Says(a \o <<Word("hundred", 1, "")>>, 100 * (IF h = 0 THEN 1 ELSE h))
      BY <3>4, SayHundred
    <3>6. 100 * (IF h = 0 THEN 1 ELSE h) = 100 * h
      BY <2>3
    <3> HIDE DEF a, b
    <3> QED  BY <3>1, <3>5, <3>6, Zenon
  <2>4. h = 0 \/ h = 1 \/ h > 1
    OBVIOUS
  <2> HIDE DEF a, b
  <2> QED  BY <2>1, <2>2, <2>3, <2>4
<1> HIDE DEF a, b
<1>5. Says((a \o b) \o c, 100 * h + 10 * d)
  BY <1>3, <1>4, SayTens, Zenon
<1>6. Says(((a \o b) \o c) \o e, (100 * h + 10 * d) + u)
  <2>1. "" \in Endings
    BY DEF Endings
  <2> HIDE DEF c
  <2> QED  BY <1>3, <1>5, <2>1, SayUnits, Zenon
<1> QED  BY <1>2, <1>3, <1>6, Zenon

(* A scale word closes its group.                                          *)
Closes(words, number) ==
  words \in Seq(Spoken) /\ HeardOf(words) = [total |-> number, group |-> 0]

LEMMA SayScale ==
  ASSUME NEW words, NEW sum \in Nat, Says(words, sum), NEW k \in 1 .. Scales,
         NEW form \in Endings
  PROVE  Closes(words \o <<Word("scale", k, form)>>, sum * Thousands[k])
<1> DEFINE word == Word("scale", k, form)
<1>1. word \in Spoken /\ word.book = "scale" /\ word.key = k
  BY MwAssumption DEF Word, Spoken, Books
<1>2. words \in Seq(Spoken) /\ HeardOf(words) = [total |-> 0, group |-> sum]
  BY DEF Says
<1>3. Thousands[k] \in Nat
  BY ThousandsDefined, MwAssumption
<1> HIDE DEF word
<1>4. /\ words \o <<word>> \in Seq(Spoken)
      /\ HeardOf(words \o <<word>>) = ReadWord(HeardOf(words), word)
  BY <1>1, <1>2, SayWord
<1>5. sum * Thousands[k] \in Nat
  BY <1>3
<1>6. ReadWord(HeardOf(words), word) = [total |-> sum * Thousands[k], group |-> 0]
  BY <1>1, <1>2, <1>5 DEF ReadWord
<1> QED  BY <1>4, <1>6 DEF Closes, word

LEMMA ReadingOf ==
  ASSUME NEW words
  PROVE  Reading(words) = HeardOf(words).total + HeardOf(words).group
BY DEF Reading, HeardOf

LEMMA ReadingIsNumber ==
  ASSUME NEW words \in Seq(Spoken)
  PROVE  Reading(words) \in Nat
<1>1. HeardOf(words) \in Heard
  BY ReadAloudDefined DEF HeardOf
<1> QED  BY <1>1, ReadingOf DEF Heard

(* What a turn of the loop puts before the words adds its group.           *)
LEMMA SayGroupBefore ==
  ASSUME NEW triplet, NEW number \in Nat, Says(triplet, number),
         NEW group \in 0 .. Scales, NEW form \in Endings,
         NEW words \in Seq(Spoken), group = 0 => words = <<>>
  PROVE  LET said == triplet \o WordOrNone("scale", ScaleOf(group), form) IN
         /\ said \o words \in Seq(Spoken)
         /\ Reading(said \o words) = number * Thousands[group] + Reading(words)
<1> DEFINE said == triplet \o WordOrNone("scale", ScaleOf(group), form)
<1>1. CASE group = 0
  <2>1. WordOrNone("scale", ScaleOf(group), form) = <<>>
    BY <1>1 DEF WordOrNone, ScaleOf
  <2>2. triplet \in Seq(Spoken) /\ HeardOf(triplet) = [total |-> 0, group |-> number]
    BY DEF Says
  <2>3. said = triplet /\ said \o words = triplet
    BY <1>1, <2>1, <2>2, ConcatEmptySeq
  <2>4. Reading(triplet) = number
    BY <2>2, ReadingOf
  <2>5. Reading(words) = 0
    BY <1>1, SilenceHeard, ReadingOf DEF Silence
  <2>6. number * Thousands[group] + Reading(words) = number
    BY <1>1, <2>5, ThousandsDefined
  <2> QED  BY <2>2, <2>3, <2>4, <2>6
<1>2. CASE group # 0
  <2>1. /\ group \in 1 .. Scales
        /\ WordOrNone("scale", ScaleOf(group), form) = <<Word("scale", group, form)>>
    BY <1>2, MwAssumption DEF WordOrNone, ScaleOf
  <2>2. said \in Seq(Spoken) /\ HeardOf(said) = [total |-> number * Thousands[group], group |-> 0]
    <3>1. Closes(triplet \o <<Word("scale", group, form)>>, number * Thousands[group])
      BY <2>1, SayScale, Zenon
    <3> QED  BY <2>1, <3>1, Zenon DEF Closes
  <2> HIDE DEF said
  <2>3. HeardOf(said \o words) = [HeardOf(words) EXCEPT !.total = HeardOf(said).total + @]
    BY <2>2, SayAfterwards
  <2>4. HeardOf(words) \in Heard /\ number * Thousands[group] \in Nat
    <3>1. HeardOf(words) \in Heard
      BY ReadAloudDefined DEF HeardOf
    <3>2. Thousands[group] \in Nat
      BY <2>1, ThousandsDefined, MwAssumption
    <3> QED  BY <3>1, <3>2
  <2>5. Reading(said \o words) = number * Thousands[group] + Reading(words)
    BY <2>2, <2>3, <2>4, ReadingOf DEF Heard
  <2>6. said \o words \in Seq(Spoken)
    BY <2>2
  <2> QED  BY <2>5, <2>6 DEF said
<1> QED  BY <1>1, <1>2

-----------------------------------------------------------------------------
LEMMA SeqOfWord ==
  ASSUME NEW S, NEW book, NEW key, NEW form, key # 0 => Word(book, key, form) \in S
  PROVE  WordOrNone(book, key, form) \in Seq(S)
BY DEF WordOrNone

LEMMA SeqOfOne ==
  ASSUME NEW S, NEW word \in S
  PROVE  <<word>> \in Seq(S)
OBVIOUS

LEMMA RuBooks ==
  ASSUME NEW k
  PROVE  /\ k \in 1 .. 9 => Word("hundreds", k, "") \in RuWords
         /\ k \in 2 .. 9 => Word("tens", k, "") \in RuWords
         /\ k \in 10 .. 19 => Word("teens", k, "") \in RuWords
         /\ \A gender \in Genders : k \in 1 .. 9 => Word("units", k, gender) \in RuWords
         /\ \A form \in Forms : k \in 1 .. Scales => Word("scale", k, form) \in RuWords
<1>1. ASSUME NEW book, NEW keys, NEW form, k \in keys
      PROVE  Word(book, k, form) \in Book(book, keys, form)
  BY <1>1 DEF Book
<1>2. /\ Book("hundreds", 1 .. 9, "") \subseteq RuWords
      /\ Book("tens", 2 .. 9, "") \subseteq RuWords
      /\ Book("teens", 10 .. 19, "") \subseteq RuWords
  BY DEF RuWords
<1>3. \A gender \in Genders : Book("units", 1 .. 9, gender) \subseteq RuWords
  BY DEF RuWords
<1>4. \A form \in Forms : Book("scale", 1 .. Scales, form) \subseteq RuWords
  BY DEF RuWords
<1>5. \A gender \in Genders : k \in 1 .. 9 => Word("units", k, gender) \in RuWords
  BY <1>1, <1>3, Zenon
<1>6. \A form \in Forms : k \in 1 .. Scales => Word("scale", k, form) \in RuWords
  BY <1>1, <1>4, Zenon
<1> QED  BY <1>1, <1>2, <1>5, <1>6, Zenon

LEMMA KkBooks ==
  ASSUME NEW k
  PROVE  /\ k \in 1 .. 9 => Word("units", k, "") \in KkWords /\ Word("tens", k, "") \in KkWords
         /\ Word("hundred", 1, "") \in KkWords
         /\ k \in 1 .. Scales => Word("scale", k, "") \in KkWords
BY Zenon DEF KkWords, Book

LEMMA TripletRuTyped ==
  ASSUME NEW number \in Triplets, NEW gender \in Genders
  PROVE  TripletRu(number, gender) \in Seq(RuWords)
<1> DEFINE h == number \div 100
           rest == number % 100
           d == rest \div 10
           u == rest % 10
           a == WordOrNone("hundreds", h, "")
           b == WordOrNone("tens", d, "")
           c == WordOrNone("units", u, gender)
<1>1. /\ h # 0 => h \in 1 .. 9
      /\ d # 0 /\ ~IsTeen(rest) => d \in 2 .. 9
      /\ u # 0 => u \in 1 .. 9
  BY DigitsOf DEF IsTeen, Triplets
<1>2. TripletRu(number, gender)
        = a \o (IF IsTeen(rest) THEN <<Word("teens", rest, "")>> ELSE b \o c)
  BY DEF TripletRu
<1> HIDE DEF h, rest, d, u
<1>3. a \in Seq(RuWords) /\ c \in Seq(RuWords)
  BY <1>1, SeqOfWord, RuBooks
<1>4. IsTeen(rest) => Word("teens", rest, "") \in RuWords
  BY RuBooks DEF IsTeen
<1>5. ~IsTeen(rest) => b \in Seq(RuWords)
  BY <1>1, SeqOfWord, RuBooks
<1> HIDE DEF a, b, c
<1>6. CASE IsTeen(rest)
  <2>1. <<Word("teens", rest, "")>> \in Seq(RuWords)
    BY <1>4, <1>6, SeqOfOne, Zenon
  <2>2. a \o <<Word("teens", rest, "")>> \in Seq(RuWords)
    BY <1>3, <2>1, ConcatProperties, Zenon
  <2> QED  BY <1>2, <1>6, <2>2, Zenon
<1>7. CASE ~IsTeen(rest)
  <2>1. b \o c \in Seq(RuWords)
    BY <1>3, <1>5, <1>7
  <2> QED  BY <1>2, <1>3, <1>7, <2>1
<1> QED  BY <1>6, <1>7

LEMMA TripletKkTyped ==
  ASSUME NEW number \in Triplets
  PROVE  TripletKk(number) \in Seq(KkWords)
<1> DEFINE h == number \div 100
           rest == number % 100
           d == rest \div 10
           u == rest % 10
           a == IF h > 1 THEN <<Word("units", h, "")>> ELSE <<>>
           b == IF h > 0 THEN <<Word("hundred", 1, "")>> ELSE <<>>
           c == WordOrNone("tens", d, "")
           e == WordOrNone("units", u, "")
<1>1. /\ h > 1 => h \in 1 .. 9
      /\ d # 0 => d \in 1 .. 9
      /\ u # 0 => u \in 1 .. 9
  BY DigitsOf DEF Triplets
<1>2. TripletKk(number) = ((a \o b) \o c) \o e
  BY DEF TripletKk
<1> HIDE DEF h, d, u
<1>3. a \in Seq(KkWords) /\ b \in Seq(KkWords)
  <2>1. h > 1 => Word("units", h, "") \in KkWords
    BY <1>1, KkBooks
  <2>2. Word("hundred", 1, "") \in KkWords
    BY KkBooks
  <2>3. <<>> \in Seq(KkWords)
    OBVIOUS
  <2>4. a \in Seq(KkWords)
    BY <2>1, <2>3, SeqOfOne, Zenon
  <2>5. b \in Seq(KkWords)
    BY <2>2, <2>3, SeqOfOne, Zenon
  <2> QED  BY <2>4, <2>5
<1>4. c \in Seq(KkWords) /\ e \in Seq(KkWords)
  BY <1>1, SeqOfWord, KkBooks
<1> HIDE DEF a, b, c, e
<1> QED  BY <1>2, <1>3, <1>4

(* The Russian words of a group: no scale word, units at the end only, and *)
(* there the form of a scale word is the one that the number asks for.     *)
Fits(words, gender, form) ==
  /\ words # <<>>
  /\ \A i \in 1 .. Len(words) :
       /\ words[i].book # "scale"
       /\ words[i].book = "units" => i = Len(words) /\ words[i].form = gender
  /\ FormAfter(words[Len(words)]) = form

(* Words that are neither units nor scales, and a last one.                *)
Opening(words) ==
  words \in Seq(Spoken) /\ \A i \in 1 .. Len(words) : words[i].book \notin {"scale", "units"}

LEMMA FitsAtTheEnd ==
  ASSUME NEW words, Opening(words), NEW word \in Spoken, NEW gender,
         word.book # "scale", word.book = "units" => word.form = gender
  PROVE  Fits(words \o <<word>>, gender, FormAfter(word))
<1> DEFINE all == words \o <<word>>
           n == Len(words)
<1>1. /\ all # <<>> /\ Len(all) = n + 1 /\ all[n + 1] = word /\ n \in Nat
      /\ \A i \in 1 .. n : all[i] = words[i]
  BY DEF Opening
<1> HIDE DEF all, n
<1>2. \A i \in 1 .. n : all[i].book # "scale" /\ all[i].book # "units"
  BY <1>1 DEF n, Opening
<1>3. \A i \in 1 .. (n + 1) : i \in 1 .. n \/ i = n + 1
  BY <1>1
<1> QED  BY <1>1, <1>2, <1>3 DEF Fits, all

LEMMA WordOpens ==
  ASSUME NEW book \in {"hundreds", "tens"}, NEW key \in Nat
  PROVE  Opening(WordOrNone(book, key, ""))
<1>1. WordOrNone(book, key, "") \in Seq(Spoken)
  BY SaidIsSequence DEF Endings
<1>2. CASE key = 0
  BY <1>1, <1>2 DEF WordOrNone, Opening
<1>3. CASE key # 0
  <2>1. WordOrNone(book, key, "") = <<Word(book, key, "")>>
    BY <1>3 DEF WordOrNone
  <2>2. Word(book, key, "").book \notin {"scale", "units"}
    BY DEF Word
  <2> DEFINE word == Word(book, key, "")
             words == WordOrNone(book, key, "")
  <2> HIDE DEF word, words
  <2>3. words \in Seq(Spoken) /\ words = <<word>> /\ word.book \notin {"scale", "units"}
    BY <1>1, <2>1, <2>2, Zenon DEF word, words
  <2>4. Opening(words)
    BY <2>3 DEF Opening
  <2> QED  BY <2>4 DEF words
<1> QED  BY <1>2, <1>3

LEMMA TripletRuFits ==
  ASSUME NEW number \in 1 .. 999, NEW gender \in Genders
  PROVE  Fits(TripletRu(number, gender), gender, PluralFormRu(number))
<1>1. PICK h \in Nat, rest \in Nat, d \in Nat, u \in Nat :
        /\ h = number \div 100 /\ rest = number % 100
        /\ d = (number % 100) \div 10 /\ u = (number % 100) % 10
        /\ number % 10 = u
        /\ rest = 10 * d + u /\ number = 100 * h + rest
        /\ u <= 9
  BY DigitsOf
<1> DEFINE a == WordOrNone("hundreds", h, "")
           b == WordOrNone("tens", d, "")
           c == WordOrNone("units", u, gender)
           teens == Word("teens", rest, "")
           form == PluralFormRu(number)
<1>2. TripletRu(number, gender)
        = a \o (IF IsTeen(rest) THEN <<teens>> ELSE b \o c)
  BY <1>1, Zenon DEF TripletRu
<1>3. Opening(a) /\ Opening(b)
  BY WordOpens
<1>4. Opening(a \o b)
  <2> HIDE DEF a, b
  <2> USE DEF Opening
  <2>1. a \o b \in Seq(Spoken)
    BY <1>3
  <2>2. ASSUME NEW i \in 1 .. Len(a \o b) PROVE (a \o b)[i].book \notin {"scale", "units"}
    <3>1. CASE i <= Len(a)
      <4>1. (a \o b)[i] = a[i] /\ i \in 1 .. Len(a)
        BY <1>3, <3>1
      <4> QED  BY <1>3, <4>1
    <3>2. CASE i > Len(a)
      <4>1. (a \o b)[i] = b[i - Len(a)] /\ i - Len(a) \in 1 .. Len(b)
        BY <1>3, <3>2
      <4> QED  BY <1>3, <4>1
    <3> QED  BY <1>3, <3>1, <3>2
  <2> QED  BY <2>1, <2>2
<1>5. form = IF rest \in 11 .. 14 THEN "many"
             ELSE IF u = 1 THEN "one" ELSE IF u \in 2 .. 4 THEN "few" ELSE "many"
  <2>1. number % 100 = rest /\ number % 10 = u
    BY <1>1
  <2> QED  BY <2>1, Zenon DEF PluralFormRu
<1>6. CASE IsTeen(rest)
  <2>1. form = "many"
    BY <1>1, <1>5, <1>6 DEF IsTeen
  <2>2. /\ teens \in Spoken /\ teens.book = "teens" /\ FormAfter(teens) = "many"
    BY DEF Word, Spoken, Books, Endings, FormAfter
  <2> HIDE DEF a, teens, form
  <2>3. Fits(a \o <<teens>>, gender, FormAfter(teens))
    BY <1>3, <2>2, FitsAtTheEnd
  <2> QED  BY <1>2, <1>6, <2>1, <2>2, <2>3 DEF form
<1>7. CASE ~IsTeen(rest) /\ u # 0
  <2> DEFINE units == Word("units", u, gender)
  <2>1. c = <<units>>
    BY <1>7 DEF WordOrNone
  <2>2. units \in Spoken /\ units.book = "units" /\ units.form = gender /\ units.key = u
    BY DEF Word, Spoken, Books, Endings
  <2>3. FormAfter(units) = form
    <3> HIDE DEF units, form
    <3> QED  BY <1>1, <1>5, <1>7, <2>2 DEF FormAfter, IsTeen
  <2> HIDE DEF a, b, c, units, form
  <2>5. Fits((a \o b) \o <<units>>, gender, FormAfter(units))
    BY <1>4, <2>2, FitsAtTheEnd
  <2>6. a \o (b \o <<units>>) = (a \o b) \o <<units>>
    BY <1>3, <2>2, ConcatAssociative DEF Opening
  <2> QED  BY <1>2, <1>7, <2>1, <2>3, <2>5, <2>6 DEF form
<1>8. CASE u = 0 /\ d # 0 /\ ~IsTeen(rest)
  <2> DEFINE tens == Word("tens", d, "")
  <2>1. c = <<>> /\ b = <<tens>>
    BY <1>8 DEF WordOrNone
  <2>2. tens \in Spoken /\ tens.book = "tens" /\ FormAfter(tens) = "many"
    BY DEF Word, Spoken, Books, Endings, FormAfter
  <2>3. form = "many"
    BY <1>5, <1>8
  <2> HIDE DEF a, b, c, tens, form
  <2>4. Fits(a \o <<tens>>, gender, FormAfter(tens))
    BY <1>3, <2>2, FitsAtTheEnd
  <2>5. b \o c = <<tens>>
    BY <2>1, <2>2
  <2> QED  BY <1>2, <1>8, <2>2, <2>3, <2>4, <2>5 DEF form
<1>9. CASE u = 0 /\ d = 0
  <2> DEFINE hundreds == Word("hundreds", h, "")
  <2>1. c = <<>> /\ b = <<>> /\ a = <<hundreds>> /\ ~IsTeen(rest)
    <3>1. h # 0 /\ ~IsTeen(rest)
      BY <1>1, <1>9 DEF IsTeen
    <3> QED  BY <1>9, <3>1 DEF WordOrNone
  <2>2. hundreds \in Spoken /\ hundreds.book = "hundreds" /\ FormAfter(hundreds) = "many"
    BY DEF Word, Spoken, Books, Endings, FormAfter
  <2>3. form = "many"
    BY <1>5, <1>9
  <2> HIDE DEF a, b, c, hundreds, form
  <2>4. Fits(<<>> \o <<hundreds>>, gender, FormAfter(hundreds))
    <3>1. Opening(<<>>)
      BY DEF Opening
    <3> QED  BY <2>2, <3>1, FitsAtTheEnd, Zenon
  <2>5. a \o (b \o c) = <<>> \o <<hundreds>>
    BY <2>1, <2>2
  <2> QED  BY <1>2, <2>1, <2>2, <2>3, <2>4, <2>5 DEF form
<1> QED  BY <1>6, <1>7, <1>8, <1>9

(* Words that agree, and do not begin with a scale word.                   *)
Agreeing(words) ==
  Agrees(words) /\ (words # <<>> => words[1].book # "scale")

Thousand(words, i) ==
  i < Len(words) /\ words[i + 1].book = "scale" /\ words[i + 1].key = 1

WordAgrees(words, i) ==
  /\ words[i].book = "scale" => words[i].form = FormAfter(words[i - 1])
  /\ words[i].book = "units" => (words[i].form = "feminine" <=> Thousand(words, i))

LEMMA JoinedWords ==
  ASSUME NEW S, NEW front \in Seq(S), NEW words \in Seq(S)
  PROVE  /\ front \o words \in Seq(S) /\ Len(front \o words) = Len(front) + Len(words)
         /\ \A i \in 1 .. Len(front) : (front \o words)[i] = front[i]
         /\ \A i \in 1 .. Len(words) : (front \o words)[Len(front) + i] = words[i]
         /\ Len(words) \in Nat
<1>1. \A i \in 1 .. Len(words) : (front \o words)[Len(front) + i] = words[i]
  OBVIOUS
<1>2. \A i \in 1 .. Len(front) : (front \o words)[i] = front[i]
  OBVIOUS
<1>3. front \o words \in Seq(S) /\ Len(front \o words) = Len(front) + Len(words)
  OBVIOUS
<1> QED  BY <1>1, <1>2, <1>3

LEMMA AgreesWordByWord ==
  ASSUME NEW words \in Seq(Spoken)
  PROVE  Agrees(words) <=> \A i \in 1 .. Len(words) : WordAgrees(words, i)
<1>1. DOMAIN words = 1 .. Len(words)
  OBVIOUS
<1> QED  BY <1>1 DEF Agrees, WordAgrees, Thousand

(* What a turn of the loop puts before the words agrees with itself and    *)
(* with them.                                                              *)
LEMMA AgreeBefore ==
  ASSUME NEW triplet \in Seq(Spoken), NEW group \in 0 .. Scales, NEW form \in Endings,
         Fits(triplet, GenderOf(group), form),
         NEW words \in Seq(Spoken), Agreeing(words), group = 0 => words = <<>>
  PROVE  Agreeing((triplet \o WordOrNone("scale", ScaleOf(group), form)) \o words)
<1> DEFINE n == Len(triplet)
           said == triplet \o WordOrNone("scale", ScaleOf(group), form)
           all == said \o words
<1>1. /\ n \in Nat \ {0}
      /\ \A i \in 1 .. n : /\ triplet[i].book # "scale"
                           /\ triplet[i].book = "units" =>
                                i = n /\ triplet[i].form = GenderOf(group)
      /\ FormAfter(triplet[n]) = form
  BY DEF Fits
<1>2. GenderOf(group) = "feminine" <=> group = 1
  BY DEF GenderOf
<1>3. \A i \in 1 .. Len(words) : WordAgrees(words, i)
  BY AgreesWordByWord DEF Agreeing
<1>4. CASE group = 0
  <2>1. WordOrNone("scale", ScaleOf(group), form) = <<>> /\ words = <<>>
    BY <1>4 DEF WordOrNone, ScaleOf
  <2>2. all = triplet
    BY <2>1
  <2>3. \A i \in 1 .. n : WordAgrees(triplet, i)
    BY <1>1, <1>2, <1>4 DEF WordAgrees, Thousand
  <2>4. triplet[1].book # "scale"
    BY <1>1
  <2> HIDE DEF all
  <2> QED  BY <2>2, <2>3, <2>4, AgreesWordByWord DEF Agreeing, all, said
<1>5. CASE group # 0
  <2> DEFINE scale == Word("scale", group, form)
  <2>1. /\ WordOrNone("scale", ScaleOf(group), form) = <<scale>>
        /\ scale \in Spoken /\ scale.book = "scale" /\ scale.key = group /\ scale.form = form
    BY <1>5, MwAssumption DEF WordOrNone, ScaleOf, Word, Spoken, Books
  <2> HIDE DEF scale
  <2>2. /\ said \in Seq(Spoken) /\ Len(said) = n + 1 /\ said[n + 1] = scale
        /\ \A i \in 1 .. n : said[i] = triplet[i]
    <3>1. said = triplet \o <<scale>>
      BY <2>1
    <3> HIDE DEF said
    <3>2. /\ triplet \o <<scale>> \in Seq(Spoken) /\ Len(triplet \o <<scale>>) = n + 1
          /\ (triplet \o <<scale>>)[n + 1] = scale
          /\ \A i \in 1 .. n : (triplet \o <<scale>>)[i] = triplet[i]
      BY <2>1
    <3> QED  BY <3>1, <3>2, Zenon
  <2> HIDE DEF said, n
  <2> DEFINE m == Len(words)
  <2>3. /\ all \in Seq(Spoken) /\ Len(all) = (n + 1) + m /\ m \in Nat
        /\ \A i \in 1 .. (n + 1) : all[i] = said[i]
        /\ \A i \in 1 .. m : all[(n + 1) + i] = words[i]
    <3>1. /\ said \o words \in Seq(Spoken) /\ Len(said \o words) = Len(said) + Len(words)
          /\ \A i \in 1 .. Len(said) : (said \o words)[i] = said[i]
          /\ \A i \in 1 .. Len(words) : (said \o words)[Len(said) + i] = words[i]
          /\ Len(words) \in Nat
      BY <2>2, JoinedWords
    <3> HIDE DEF all, m
    <3> QED  BY <2>2, <3>1 DEF all, m
  <2> HIDE DEF all, m
  <2>4. all[n + 1] = scale /\ \A i \in 1 .. n : all[i] = triplet[i]
    BY <1>1, <2>2, <2>3
  <2>5. ASSUME NEW i \in 1 .. n PROVE WordAgrees(all, i)
    <3>1. all[i].book # "scale"
      BY <1>1, <2>4
    <3>2. ASSUME all[i].book = "units" PROVE all[i].form = "feminine" <=> Thousand(all, i)
      <4>1. i = n /\ (all[i].form = "feminine" <=> group = 1)
        BY <1>1, <1>2, <2>4, <3>2
      <4>2. Thousand(all, i) <=> group = 1
        BY <1>1, <2>1, <2>3, <2>4, <4>1 DEF Thousand
      <4> QED  BY <4>1, <4>2
    <3> QED  BY <3>1, <3>2 DEF WordAgrees
  <2>6. WordAgrees(all, n + 1)
    <3>1. (n + 1) - 1 = n /\ all[n] = triplet[n]
      BY <1>1, <2>4
    <3> QED  BY <1>1, <2>1, <2>4, <3>1 DEF WordAgrees
  <2>7. ASSUME NEW i \in 1 .. m PROVE WordAgrees(all, (n + 1) + i)
    <3> DEFINE k == (n + 1) + i
    <3>1. WordAgrees(words, i) /\ all[k] = words[i]
      BY <1>3, <2>3 DEF m
    <3>2. Thousand(all, k) <=> Thousand(words, i)
      <4>1. CASE i < m
        <5>1. k + 1 = (n + 1) + (i + 1) /\ i + 1 \in 1 .. m /\ k < Len(all)
          BY <1>1, <2>3, <4>1
        <5>2. all[k + 1] = words[i + 1]
          BY <2>3, <5>1
        <5> HIDE DEF k
        <5> QED  BY <4>1, <5>1, <5>2 DEF Thousand, m
      <4>2. CASE i = m
        <5>1. ~(k < Len(all)) /\ ~(i < m)
          BY <1>1, <2>3, <4>2
        <5> QED  BY <5>1 DEF Thousand, m
      <4> QED  BY <2>3, <4>1, <4>2
    <3>3. ASSUME words[i].book = "scale" PROVE all[k].form = FormAfter(all[k - 1])
      <4>1. i # 1
        BY <2>3, <3>3 DEF Agreeing, m
      <4>2. k - 1 = (n + 1) + (i - 1) /\ i - 1 \in 1 .. m
        BY <1>1, <2>3, <4>1
      <4>3. all[k - 1] = words[i - 1]
        BY <2>3, <4>2
      <4> HIDE DEF k
      <4> QED  BY <3>1, <3>3, <4>3 DEF WordAgrees
    <3> HIDE DEF k
    <3>4. WordAgrees(all, k)
      BY <3>1, <3>2, <3>3 DEF WordAgrees
    <3> QED  BY <3>4 DEF k
  <2>8. \A i \in 1 .. Len(all) : WordAgrees(all, i)
    <3> TAKE i \in 1 .. Len(all)
    <3>1. CASE i <= n
      BY <1>1, <2>5, <3>1
    <3>2. CASE i = n + 1
      BY <2>6, <3>2
    <3>3. CASE i > n + 1
      <4>1. i - (n + 1) \in 1 .. m /\ (n + 1) + (i - (n + 1)) = i
        BY <1>1, <2>3, <3>3
      <4> QED  BY <2>7, <4>1
    <3> QED  BY <1>1, <3>1, <3>2, <3>3
  <2>9. all[1].book # "scale"
    BY <1>1, <2>4
  <2>10. Agreeing(all)
    BY <2>3, <2>8, <2>9, AgreesWordByWord DEF Agreeing
  <2> QED  BY <2>10 DEF all, said
<1> QED  BY <1>4, <1>5

(* What the loop has said of the groups it is done with.                   *)
Said ==
  /\ mwGroup <= Scales + 1
  /\ mwGroup = 0 => mwRu = <<>> /\ mwKk = <<>>
  /\ mwAmount = mwRest * Thousands[mwGroup] + Reading(mwRu)
  /\ Reading(mwKk) = Reading(mwRu)
  /\ Agreeing(mwRu)
MwInv == MwTypeOK /\ (mwAmount < Thousands[Scales + 1] => Said)

LEMMA GroupRuTyped ==
  ASSUME NEW number \in Triplets, NEW group \in Nat
  PROVE  GroupRu(number, group) \in Seq(RuWords)
<1> DEFINE form == PluralFormRu(number)
           triplet == TripletRu(number, GenderOf(group))
           scale == WordOrNone("scale", ScaleOf(group), form)
<1>1. triplet \in Seq(RuWords)
  <2>1. GenderOf(group) \in Genders
    BY DEF GenderOf, Genders
  <2> QED  BY <2>1, TripletRuTyped, Zenon
<1>2. scale \in Seq(RuWords)
  <2>1. form \in Forms
    BY DEF PluralFormRu, Forms
  <2>2. ScaleOf(group) # 0 => ScaleOf(group) \in 1 .. Scales
    BY MwAssumption DEF ScaleOf
  <2> HIDE DEF form
  <2>3. ScaleOf(group) # 0 => Word("scale", ScaleOf(group), form) \in RuWords
    BY <2>1, <2>2, RuBooks, Zenon
  <2> QED  BY <2>3, SeqOfWord, Zenon
<1> HIDE DEF triplet, scale
<1>3. triplet \o scale \in Seq(RuWords) /\ <<>> \in Seq(RuWords)
  BY <1>1, <1>2
<1> QED  BY <1>3, Zenon DEF GroupRu, triplet, scale

LEMMA GroupKkTyped ==
  ASSUME NEW number \in Triplets, NEW group \in Nat
  PROVE  GroupKk(number, group) \in Seq(KkWords)
<1> DEFINE triplet == TripletKk(number)
           scale == WordOrNone("scale", ScaleOf(group), "")
<1>1. triplet \in Seq(KkWords)
  BY TripletKkTyped, Zenon
<1>2. scale \in Seq(KkWords)
  <2>1. ScaleOf(group) # 0 => ScaleOf(group) \in 1 .. Scales
    BY MwAssumption DEF ScaleOf
  <2>2. ScaleOf(group) # 0 => Word("scale", ScaleOf(group), "") \in KkWords
    BY <2>1, KkBooks, Zenon
  <2> QED  BY <2>2, SeqOfWord, Zenon
<1> HIDE DEF triplet, scale
<1>3. triplet \o scale \in Seq(KkWords) /\ <<>> \in Seq(KkWords)
  BY <1>1, <1>2
<1> QED  BY <1>3, Zenon DEF GroupKk, triplet, scale

(* One turn of the loop: its words are put before what was said of the     *)
(* groups below, and add the group's number of them.                       *)
LEMMA TurnSays ==
  ASSUME NEW number \in Triplets, NEW group \in 0 .. Scales,
         NEW ru \in Seq(RuWords), NEW kk \in Seq(KkWords),
         group = 0 => ru = <<>> /\ kk = <<>>,
         Agreeing(ru)
  PROVE  /\ Reading(GroupRu(number, group) \o ru) = number * Thousands[group] + Reading(ru)
         /\ Reading(GroupKk(number, group) \o kk) = number * Thousands[group] + Reading(kk)
         /\ Agreeing(GroupRu(number, group) \o ru)
<1>1. ru \in Seq(Spoken) /\ kk \in Seq(Spoken)
  BY WordsAreSpoken
<1>2. CASE number = 0
  <2>1. GroupRu(number, group) \o ru = ru /\ GroupKk(number, group) \o kk = kk
    BY <1>2 DEF GroupRu, GroupKk
  <2>2. Reading(ru) \in Nat /\ Reading(kk) \in Nat
    BY <1>1, ReadingIsNumber
  <2>3. number * Thousands[group] = 0
    BY <1>2, ThousandsDefined, MwAssumption
  <2> QED  BY <2>1, <2>2, <2>3
<1>3. CASE number # 0
  <2> DEFINE form == PluralFormRu(number)
             gender == GenderOf(group)
             ruTriplet == TripletRu(number, gender)
             kkTriplet == TripletKk(number)
  <2>1. number \in 1 .. 999 /\ number \in Nat /\ gender \in Genders /\ form \in Endings /\ "" \in Endings
    BY <1>3 DEF GenderOf, Genders, PluralFormRu, Endings, Forms, Triplets
  <2>2. /\ GroupRu(number, group) = ruTriplet \o WordOrNone("scale", ScaleOf(group), form)
        /\ GroupKk(number, group) = kkTriplet \o WordOrNone("scale", ScaleOf(group), "")
    BY <1>3, Zenon DEF GroupRu, GroupKk
  <2> HIDE DEF form
  <2>3. Says(ruTriplet, number) /\ Says(kkTriplet, number) /\ Fits(ruTriplet, gender, form)
    <3>1. Says(ruTriplet, number)
      BY <2>1, TripletRuSays, Zenon
    <3>2. Says(kkTriplet, number)
      BY TripletKkSays, Zenon
    <3>3. Fits(ruTriplet, gender, form)
      BY <2>1, TripletRuFits DEF form
    <3> QED  BY <3>1, <3>2, <3>3
  <2> HIDE DEF ruTriplet, kkTriplet
  <2>4. ruTriplet \in Seq(Spoken)
    BY <2>3 DEF Says
  <2>5. Reading(GroupRu(number, group) \o ru) = number * Thousands[group] + Reading(ru)
    <3>1. Reading((ruTriplet \o WordOrNone("scale", ScaleOf(group), form)) \o ru)
            = number * Thousands[group] + Reading(ru)
      <4>1. number \in Nat /\ "" \in Endings /\ form \in Endings
        BY <2>1
      <4> QED  BY <1>1, <2>3, <4>1, SayGroupBefore, ZenonT(40)
    <3> QED  BY <2>2, <3>1, Zenon
  <2>6. Reading(GroupKk(number, group) \o kk) = number * Thousands[group] + Reading(kk)
    <3>1. Reading((kkTriplet \o WordOrNone("scale", ScaleOf(group), "")) \o kk)
            = number * Thousands[group] + Reading(kk)
      <4>1. number \in Nat /\ "" \in Endings /\ form \in Endings
        BY <2>1
      <4> QED  BY <1>1, <2>3, <4>1, SayGroupBefore, ZenonT(40)
    <3> QED  BY <2>2, <3>1, Zenon
  <2>7. Agreeing(GroupRu(number, group) \o ru)
    BY <1>1, <2>1, <2>2, <2>3, <2>4, AgreeBefore
  <2> QED  BY <2>5, <2>6, <2>7
<1> QED  BY <1>2, <1>3

LEMMA ReadingOfNothing == Reading(<<>>) = 0 /\ Agreeing(<<>>)
<1>1. Reading(<<>>) = 0
  BY SilenceHeard, ReadingOf DEF Silence
<1>2. Agreeing(<<>>)
  BY DEF Agreeing, Agrees
<1> QED  BY <1>1, <1>2

LEMMA MwInitInv == MwInit => MwInv
<1> SUFFICES ASSUME MwInit PROVE MwInv
  OBVIOUS
<1>1. MwTypeOK
  BY MwAssumption DEF MwInit, MwTypeOK
<1>2. Said
  <2>1. mwRest * Thousands[0] = mwAmount
    BY ThousandsDefined, MwAssumption DEF MwInit
  <2>2. Reading(mwRu) = 0 /\ Reading(mwKk) = 0 /\ Agreeing(mwRu)
    BY ReadingOfNothing DEF MwInit
  <2>3. mwAmount \in Nat
    BY MwAssumption DEF MwInit
  <2> QED  BY <2>1, <2>2, <2>3, MwAssumption DEF MwInit, Said
<1> QED  BY <1>1, <1>2 DEF MwInv

LEMMA SayGroupTyped ==
  ASSUME MwTypeOK, SayGroup
  PROVE  MwTypeOK'
<1>1. mwAmount \in Nat /\ mwRest \in Nat /\ mwRest <= mwAmount
  BY MwAssumption DEF MwTypeOK
<1>2. mwRest % 1000 \in 0 .. 999 /\ mwRest \div 1000 \in 0 .. mwAmount
  BY <1>1
<1> DEFINE number == mwRest % 1000
<1>3. mwRu' \in Seq(RuWords)
  <2>1. number \in Triplets /\ mwGroup \in Nat
    BY <1>2 DEF MwTypeOK, Triplets
  <2> HIDE DEF number
  <2>2. GroupRu(number, mwGroup) \in Seq(RuWords)
    BY <2>1, GroupRuTyped
  <2> QED  BY <2>2 DEF MwTypeOK, SayGroup, number
<1>4. mwKk' \in Seq(KkWords)
  <2>1. number \in Triplets /\ mwGroup \in Nat
    BY <1>2 DEF MwTypeOK, Triplets
  <2> HIDE DEF number
  <2>2. GroupKk(number, mwGroup) \in Seq(KkWords)
    BY <2>1, GroupKkTyped
  <2> QED  BY <2>2 DEF MwTypeOK, SayGroup, number
<1> QED  BY <1>1, <1>2, <1>3, <1>4 DEF MwTypeOK, SayGroup

LEMMA SayGroupSays ==
  ASSUME MwTypeOK, Said, mwAmount < Thousands[Scales + 1], SayGroup
  PROVE  Said'
<1> DEFINE number == mwRest % 1000
           rest == mwRest \div 1000
           power == Thousands[mwGroup]
<1>1. /\ mwAmount \in Nat /\ mwRest \in Nat \ {0} /\ mwGroup \in 0 .. (Scales + 1)
      /\ power \in Nat /\ Reading(mwRu) \in Nat
  <2>1. mwAmount \in Nat /\ mwRest \in Nat \ {0} /\ mwGroup \in 0 .. (Scales + 1)
    BY MwAssumption DEF MwTypeOK, Said, SayGroup
  <2>2. power \in Nat
    BY <2>1, ThousandsDefined
  <2>3. mwRu \in Seq(Spoken)
    BY WordsAreSpoken DEF MwTypeOK
  <2> QED  BY <2>1, <2>2, <2>3, ReadingIsNumber
<1>2. mwAmount = mwRest * power + Reading(mwRu)
  BY DEF Said
<1>3. mwGroup \in 0 .. Scales
  <2>1. power <= mwAmount
    <3>1. mwRest * power >= power
      BY <1>1
    <3> QED  BY <1>1, <1>2, <3>1
  <2>2. mwGroup # Scales + 1
    BY <1>1, <2>1, MwAssumption
  <2> QED  BY <1>1, <2>2, MwAssumption
<1>4. number \in 0 .. 999 /\ rest \in Nat /\ mwRest = 1000 * rest + number
  BY <1>1
<1>5. /\ Reading(mwRu') = number * power + Reading(mwRu)
      /\ Reading(mwKk') = number * power + Reading(mwKk)
      /\ Agreeing(mwRu')
  <2>1. /\ mwRu' = GroupRu(number, mwGroup) \o mwRu
        /\ mwKk' = GroupKk(number, mwGroup) \o mwKk
    BY DEF SayGroup
  <2>2. /\ mwRu \in Seq(RuWords) /\ mwKk \in Seq(KkWords)
        /\ mwGroup = 0 => mwRu = <<>> /\ mwKk = <<>>
        /\ Agreeing(mwRu)
    BY DEF MwTypeOK, Said
  <2>3. number \in Triplets
    BY <1>4 DEF Triplets
  <2> HIDE DEF number
  <2>4. /\ Reading(GroupRu(number, mwGroup) \o mwRu) = number * power + Reading(mwRu)
        /\ Reading(GroupKk(number, mwGroup) \o mwKk) = number * power + Reading(mwKk)
        /\ Agreeing(GroupRu(number, mwGroup) \o mwRu)
    BY <1>3, <2>2, <2>3, TurnSays, Zenon
  <2> QED  BY <2>1, <2>4, Zenon
<1>6. Thousands[mwGroup + 1] = 1000 * power
  <2>1. mwGroup + 1 \in 1 .. (Scales + 1) /\ (mwGroup + 1) - 1 = mwGroup
    BY <1>3, MwAssumption
  <2> QED  BY <2>1, ThousandsDefined
<1> HIDE DEF number, rest, power
<1>7. mwRest * power = rest * (1000 * power) + number * power
  BY <1>1, <1>4
<1>8. mwRest' = rest /\ mwGroup' = mwGroup + 1 /\ mwAmount' = mwAmount
  BY DEF SayGroup, rest
<1>9. rest * (1000 * power) \in Nat /\ number * power \in Nat
  BY <1>1, <1>4
<1>10. mwAmount = rest * Thousands[mwGroup + 1] + Reading(mwRu')
  BY <1>1, <1>2, <1>5, <1>6, <1>7, <1>9
<1>11. Reading(mwKk') = Reading(mwRu')
  BY <1>5 DEF Said
<1>12. mwGroup + 1 <= Scales + 1 /\ mwGroup + 1 # 0
  BY <1>3, MwAssumption
<1> QED  BY <1>5, <1>8, <1>10, <1>11, <1>12 DEF Said

(* At every turn of the loop, an amount below the limit of the scale words *)
(* is what is left of it, in its power of a thousand, and what the words   *)
(* put so far say, in Russian as in Kazakh                                 *)
(* (money_amount_service.py:amount_to_words_ru, amount_to_words_kk).       *)
THEOREM MoneyWordsInvariant == MwSpec => []MwInv
<1>1. MwInv /\ [MwNext]_mwVars => MwInv'
  <2> SUFFICES ASSUME MwInv, [MwNext]_mwVars PROVE MwInv'
    OBVIOUS
  <2>1. CASE SayGroup
    <3>1. MwTypeOK'
      BY <2>1, SayGroupTyped DEF MwInv
    <3>2. mwAmount' = mwAmount
      BY <2>1 DEF SayGroup
    <3>3. mwAmount < Thousands[Scales + 1] => Said'
      BY <2>1, SayGroupSays DEF MwInv
    <3> QED  BY <3>1, <3>2, <3>3 DEF MwInv
  <2>2. CASE UNCHANGED mwVars
    BY <2>2 DEF mwVars, MwInv, MwTypeOK, Said
  <2> QED  BY <2>1, <2>2 DEF MwNext
<1> QED  BY <1>1, MwInitInv, PTL DEF MwSpec

(* So the words of an amount, whatever it is, say that amount in both      *)
(* languages when the loop has ended, and the Russian ones agree: no       *)
(* boundary of tens, teens, hundreds or thousands is slipped over.         *)
THEOREM AmountsAreSaid == MwSpec => []WordsSayTheAmount
<1>1. MwInv => WordsSayTheAmount
  <2> SUFFICES ASSUME MwInv, mwRest = 0, mwAmount < Thousands[Scales + 1]
               PROVE  /\ mwRu \in Seq(RuWords) /\ mwKk \in Seq(KkWords)
                      /\ Reading(mwRu) = mwAmount /\ Reading(mwKk) = mwAmount
                      /\ Agrees(mwRu)
    BY DEF WordsSayTheAmount
  <2>1. MwTypeOK /\ Said
    BY DEF MwInv
  <2>2. mwRu \in Seq(RuWords) /\ mwKk \in Seq(KkWords)
    BY <2>1 DEF MwTypeOK
  <2>3. mwRest * Thousands[mwGroup] = 0
    BY <2>1, ThousandsDefined, MwAssumption DEF MwTypeOK, Said
  <2>4. Reading(mwRu) = mwAmount
    <3>1. Reading(mwRu) \in Nat
      BY <2>2, WordsAreSpoken, ReadingIsNumber
    <3> QED  BY <2>1, <2>3, <3>1 DEF Said
  <2> QED  BY <2>1, <2>2, <2>4 DEF Said, Agreeing
<1> QED  BY <1>1, MoneyWordsInvariant, PTL
=============================================================================
