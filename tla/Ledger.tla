------------------------------- MODULE Ledger -------------------------------
(***************************************************************************)
(* One document's entry in the remote ledger: DocumentLedgerService and    *)
(* LedgerClient.                                                           *)
(*                                                                         *)
(* Every completion of a signer registers an on_commit callback; those     *)
(* that find the document signed export a PDF, store it and post it.  No   *)
(* lock and no transaction covers these steps, and nothing but another     *)
(* completion ever tries again.  Every export is a new PDF, known by its   *)
(* number; its hash is taken to be that number, 0 is no PDF and no hash.   *)
(* The ledger itself is external: it accepts or refuses, and its answer    *)
(* may be lost.  Object storage is enabled, as is the ledger.              *)
(***************************************************************************)
EXTENDS Naturals, FiniteSets

CONSTANTS
  LdgRequests,   \* slots for requests in flight at the same time
  LdgSigners,    \* number of signers, each of whom completes once
  MaxPdfs        \* bound on the number of PDFs exported

ASSUME LdgAssumption == LdgSigners \in Nat \ {0} /\ MaxPdfs \in Nat

VARIABLES
  ldgMissing,    \* signers that have not completed
  ldgRecord,     \* the documents_documentledgerrecord row
  ldgPdfs,       \* number of PDFs stored so far
  ldgEntries,    \* PDFs the remote ledger has accepted
  ldgCall,       \* what each request has read and where it stands
  ldgUnheard,    \* history: PDFs accepted without an answer that was applied
  ldgContested   \* history: two submissions ran beside each other

ldgVars == <<ldgMissing, ldgRecord, ldgPdfs, ldgEntries, ldgCall, ldgUnheard,
             ldgContested>>

Pdfs == 0 .. MaxPdfs
RecordStatus == {"absent", "pending", "submitted", "failed"}
Verified == {"", "passed", "failed", "error"}

LedgerRecord == [status : RecordStatus, pdf : Pdfs, hash : Pdfs, verified : Verified]
NoRecord == [status |-> "absent", pdf |-> 0, hash |-> 0, verified |-> ""]

(* A verification holds copies of pdf and hash, a submission its own pdf.  *)
LdgPc == {"idle", "callback", "claim", "reset", "export", "store", "post",
          "apply", "fail", "verify"}
LdgCall == [pc : LdgPc, pdf : Pdfs, hash : Pdfs]
LdgIdle == [pc |-> "idle", pdf |-> 0, hash |-> 0]

LdgTypeOK ==
  /\ ldgMissing \in 0 .. LdgSigners
  /\ ldgRecord \in LedgerRecord
  /\ ldgPdfs \in Pdfs
  /\ ldgEntries \subseteq Pdfs
  /\ ldgCall \in [LdgRequests -> LdgCall]
  /\ ldgUnheard \subseteq Pdfs
  /\ ldgContested \in BOOLEAN

LdgInit ==
  /\ ldgMissing = LdgSigners
  /\ ldgRecord = NoRecord
  /\ ldgPdfs = 0
  /\ ldgEntries = {}
  /\ ldgCall = [r \in LdgRequests |-> LdgIdle]
  /\ ldgUnheard = {}
  /\ ldgContested = FALSE

-----------------------------------------------------------------------------
LdgAt(r, pc) == ldgCall[r].pc = pc
LdgGoto(r, pc) == ldgCall' = [ldgCall EXCEPT ![r].pc = pc]
LdgReturn(r) == ldgCall' = [ldgCall EXCEPT ![r] = LdgIdle]

(* A submission under way.                                                 *)
Submitting(r) ==
  ldgCall[r].pc \in {"claim", "reset", "export", "store", "post", "apply", "fail"}

(* An SMS, ECP or eGov Mobile completion commits; its callback comes next. *)
Complete(r) ==
  /\ ldgCall[r] = LdgIdle
  /\ ldgMissing > 0
  /\ ldgMissing' = ldgMissing - 1
  /\ LdgGoto(r, "callback")
  /\ UNCHANGED <<ldgRecord, ldgPdfs, ldgEntries, ldgUnheard, ldgContested>>

(* submit_document_safely: the document is read after the commit.          *)
Callback(r) ==
  /\ LdgAt(r, "callback")
  /\ IF ldgMissing = 0 THEN LdgGoto(r, "claim") ELSE LdgReturn(r)
  /\ ldgContested' = (ldgContested \/ (ldgMissing = 0 /\ \E q \in LdgRequests : Submitting(q)))
  /\ UNCHANGED <<ldgMissing, ldgRecord, ldgPdfs, ldgEntries, ldgUnheard>>

(* Mutant: a record that was submitted is submitted again. *)
AlwaysSubmits == TRUE

(* force is never set: a submitted record is left alone.                   *)
NeedsSubmission == ldgRecord.status # "submitted"

(* get_or_create by the unique external_id.                                *)
GetOrCreate(r) ==
  /\ LdgAt(r, "claim")
  /\ \/ /\ ldgRecord.status = "absent"
        /\ ldgRecord' = [NoRecord EXCEPT !.status = "pending"]
        /\ LdgGoto(r, "export")
     \/ /\ ldgRecord.status # "absent"
        /\ IF NeedsSubmission THEN LdgGoto(r, "reset") ELSE LdgReturn(r)
        /\ UNCHANGED ldgRecord
  /\ UNCHANGED <<ldgMissing, ldgPdfs, ldgEntries, ldgUnheard, ldgContested>>

(* A record that was there goes back to PENDING, its verification cleared; *)
(* the PDF and the hash of an earlier submission stay.                     *)
ResetRecord(r) ==
  /\ LdgAt(r, "reset")
  /\ ldgRecord' = [ldgRecord EXCEPT !.status = "pending", !.verified = ""]
  /\ LdgGoto(r, "export")
  /\ UNCHANGED <<ldgMissing, ldgPdfs, ldgEntries, ldgUnheard, ldgContested>>

(* export_document_pdf: OnlyOffice converts the DOCX, or fails.            *)
ExportPdf(r) ==
  /\ LdgAt(r, "export")
  /\ LdgGoto(r, "store") \/ LdgGoto(r, "fail")
  /\ UNCHANGED <<ldgMissing, ldgRecord, ldgPdfs, ldgEntries, ldgUnheard, ldgContested>>

(* Mutant: the record keeps the PDF it already has. *)
FirstPdf(pdf) == IF ldgRecord.pdf = 0 THEN pdf ELSE ldgRecord.pdf

(* record.ledger_pdf_object = ledger_pdf_object                            *)
RecordedPdf(pdf) == pdf

StorePdf(r) ==
  /\ LdgAt(r, "store")
  /\ \/ /\ ldgPdfs < MaxPdfs
        /\ ldgPdfs' = ldgPdfs + 1
        /\ ldgRecord' = [ldgRecord EXCEPT !.pdf = RecordedPdf(ldgPdfs + 1)]
        /\ ldgCall' = [ldgCall EXCEPT ![r].pc = "post", ![r].pdf = ldgPdfs + 1]
     \/ /\ LdgGoto(r, "fail")
        /\ UNCHANGED <<ldgPdfs, ldgRecord>>
  /\ UNCHANGED <<ldgMissing, ldgEntries, ldgUnheard, ldgContested>>

(* The POST: refused, accepted, or accepted with the answer lost.          *)
PostPdf(r) ==
  LET pdf == ldgCall[r].pdf IN
  /\ LdgAt(r, "post")
  /\ \/ LdgGoto(r, "fail") /\ UNCHANGED <<ldgEntries, ldgUnheard>>
     \/ /\ ldgEntries' = ldgEntries \cup {pdf}
        /\ ldgUnheard' = ldgUnheard \cup {pdf}
        /\ LdgGoto(r, "apply") \/ LdgGoto(r, "fail")
  /\ UNCHANGED <<ldgMissing, ldgRecord, ldgPdfs, ldgContested>>

(* apply_success_payload writes hash and PDF of this submission.           *)
ApplySuccess(r) ==
  LET pdf == ldgCall[r].pdf IN
  /\ LdgAt(r, "apply")
  /\ ldgRecord' = [status |-> "submitted", pdf |-> RecordedPdf(pdf), hash |-> pdf,
                   verified |-> ""]
  /\ ldgUnheard' = ldgUnheard \ {pdf}
  /\ LdgReturn(r)
  /\ UNCHANGED <<ldgMissing, ldgPdfs, ldgEntries, ldgContested>>

(* mark_failed writes the status, whatever the record says by now.         *)
MarkFailed(r) ==
  /\ LdgAt(r, "fail")
  /\ ldgRecord' = [ldgRecord EXCEPT !.status = "failed"]
  /\ LdgReturn(r)
  /\ UNCHANGED <<ldgMissing, ldgPdfs, ldgEntries, ldgUnheard, ldgContested>>

(* document_ledger_proof: a manager verifies a submitted record.           *)
BeginVerify(r) ==
  /\ ldgCall[r] = LdgIdle
  /\ ldgRecord.status = "submitted"
  /\ ldgCall' = [ldgCall EXCEPT ![r] = [pc |-> "verify", pdf |-> ldgRecord.pdf,
                                         hash |-> ldgRecord.hash]]
  /\ UNCHANGED <<ldgMissing, ldgRecord, ldgPdfs, ldgEntries, ldgUnheard, ldgContested>>

(* verify_record compares the hashes of its copy, asks the ledger for its  *)
(* chain (which may fail) and writes the result only.                      *)
SaveVerification(r) ==
  LET call == ldgCall[r] IN
  /\ LdgAt(r, "verify")
  /\ \E result \in {IF call.pdf = call.hash THEN "passed" ELSE "failed", "error"} :
       ldgRecord' = [ldgRecord EXCEPT !.verified = result]
  /\ LdgReturn(r)
  /\ UNCHANGED <<ldgMissing, ldgPdfs, ldgEntries, ldgUnheard, ldgContested>>

(* The web server dies, or an exception is not one of those handled: the   *)
(* record stays as it is.                                                  *)
LdgCrash(r) ==
  /\ ldgCall[r] # LdgIdle
  /\ LdgReturn(r)
  /\ UNCHANGED <<ldgMissing, ldgRecord, ldgPdfs, ldgEntries, ldgUnheard, ldgContested>>

LdgNext ==
  \E r \in LdgRequests :
    \/ Complete(r) \/ Callback(r) \/ GetOrCreate(r) \/ ResetRecord(r)
    \/ ExportPdf(r) \/ StorePdf(r) \/ PostPdf(r) \/ ApplySuccess(r) \/ MarkFailed(r)
    \/ BeginVerify(r) \/ SaveVerification(r) \/ LdgCrash(r)

LdgSpec == LdgInit /\ [][LdgNext]_ldgVars

-----------------------------------------------------------------------------
(* Unless two submissions overlapped, a submitted record points at the     *)
(* very PDF the ledger holds, whatever failed, crashed or was lost before: *)
(* the later StorePdf of another submission is the only thing that can     *)
(* separate the two (document_ledger_service.py:91-97).                    *)
SubmittedIsProven ==
  ldgRecord.status = "submitted" /\ ~ldgContested =>
    /\ ldgRecord.pdf = ldgRecord.hash
    /\ ldgRecord.hash \in ldgEntries

(* Every PDF in the ledger but the submitted one is one whose acceptance   *)
(* never reached the record: without a lost answer or a crash the ledger   *)
(* holds the document once.                                                *)
LedgeredOnceUnlessUnheard ==
  ~ldgContested => ldgEntries \ ldgUnheard \subseteq {ldgRecord.hash}
=============================================================================
