----------------------------- MODULE LawVision -----------------------------
(***************************************************************************)
(* The reports LawVision makes of one document: get_or_analyze_document    *)
(* for a manager or for a signer with a link.                              *)
(*                                                                         *)
(* Content is a version number and so is the hash of it; a report row is   *)
(* found by that hash (language, type and perspective have their default   *)
(* in every call).  A request works on the document it loaded: its file    *)
(* stays readable when an edit stores another one.  LawVision is external. *)
(***************************************************************************)
EXTENDS Naturals

CONSTANTS
  LvRequests,    \* slots for requests in flight at the same time
  LvContents,    \* bound on the number of contents
  RetryDelays    \* length of RETRY_DELAYS, the number of posts

ASSUME LvAssumption == LvContents \in Nat \ {0} /\ RetryDelays \in Nat \ {0}

VARIABLES
  lvContent,     \* the content of the document's file
  lvHash,        \* its content_hash, 0 when empty
  lvEditable,    \* can_be_edited: nobody has signed
  lvReport,      \* the report row of each content hash
  lvCall,        \* what each request has read and where it stands
  lvOverlapped   \* history: contents edited while a request had read them

lvVars == <<lvContent, lvHash, lvEditable, lvReport, lvCall, lvOverlapped>>

LvVersion == 0 .. LvContents

(* of and beside are history: the content the stored analysis was made of, *)
(* and whether another request had looked for it before it was there.      *)
LvReport == [status : {"absent", "processing", "success", "failed"},
             of : LvVersion, beside : BOOLEAN]
NoReport == [status |-> "absent", of |-> 0, beside |-> FALSE]

LvCall == [pc : {"idle", "ensure", "lookup", "create", "post", "success", "failure"},
           content : LvVersion, hash : LvVersion, key : LvVersion,
           force : BOOLEAN, posts : 0 .. RetryDelays]
LvIdle == [pc |-> "idle", content |-> 0, hash |-> 0, key |-> 0, force |-> FALSE,
           posts |-> 0]

LvTypeOK ==
  /\ lvContent \in LvVersion \ {0}
  /\ lvHash \in LvVersion
  /\ lvEditable \in BOOLEAN
  /\ lvReport \in [LvVersion \ {0} -> LvReport]
  /\ lvCall \in [LvRequests -> LvCall]
  /\ lvOverlapped \subseteq LvVersion

LvInit ==
  /\ lvContent = 1
  /\ lvHash \in {0, 1}
  /\ lvEditable = TRUE
  /\ lvReport = [h \in LvVersion \ {0} |-> NoReport]
  /\ lvCall = [r \in LvRequests |-> LvIdle]
  /\ lvOverlapped = {}

-----------------------------------------------------------------------------
LvAt(r, pc) == lvCall[r].pc = pc
LvReturn(r) == lvCall' = [lvCall EXCEPT ![r] = LvIdle]

(* A request that may still save the hash of the content it loaded.        *)
Ensuring(r) == LvAt(r, "ensure")

(* Mutant: content_hash is missing in the update_fields of the save. *)
HashKeptByEdit(version) == lvHash

HashAfterEdit(version) == version

(* document_onlyoffice_callback and the other edits store file and hash    *)
(* together.                                                               *)
LvEdit ==
  /\ lvEditable
  /\ lvContent < LvContents
  /\ lvContent' = lvContent + 1
  /\ lvHash' = HashAfterEdit(lvContent + 1)
  /\ lvOverlapped' = IF \E r \in LvRequests : Ensuring(r)
                     THEN lvOverlapped \cup {lvContent + 1} ELSE lvOverlapped
  /\ UNCHANGED <<lvEditable, lvReport, lvCall>>

(* Somebody signs: the document is no longer edited.  A link was created   *)
(* before, so the hash is set.                                             *)
LvSign ==
  /\ lvEditable
  /\ lvHash # 0
  /\ lvEditable' = FALSE
  /\ UNCHANGED <<lvContent, lvHash, lvReport, lvCall, lvOverlapped>>

(* document_lawvision_report and signer_lawvision_report.                  *)
LoadDocument(r) ==
  /\ lvCall[r] = LvIdle
  /\ \E force \in BOOLEAN :
       lvCall' = [lvCall EXCEPT ![r] = [LvIdle EXCEPT
                    !.pc = "ensure", !.content = lvContent, !.hash = lvHash,
                    !.force = force]]
  /\ UNCHANGED <<lvContent, lvHash, lvEditable, lvReport, lvOverlapped>>

(* ensure_content_hash of the copy; the signers are queried.               *)
FixesHash(call) ==
  \/ call.hash # call.content /\ lvEditable
  \/ call.hash = 0

ReportKey(call) == IF FixesHash(call) THEN call.content ELSE call.hash

EnsureContentHash(r) ==
  LET call == lvCall[r] IN
  /\ Ensuring(r)
  /\ lvHash' = IF FixesHash(call) THEN call.content ELSE lvHash
  /\ lvCall' = [lvCall EXCEPT ![r].pc = "lookup", ![r].key = ReportKey(call)]
  /\ UNCHANGED <<lvContent, lvEditable, lvReport, lvOverlapped>>

(* Mutant: a saved report is never used. *)
NeverCached(r) == FALSE

(* A successful report of the hash is returned, unless force is set.       *)
Cached(r) ==
  /\ ~lvCall[r].force
  /\ lvReport[lvCall[r].key].status = "success"

LookUpReport(r) ==
  /\ LvAt(r, "lookup")
  /\ IF Cached(r) THEN LvReturn(r) ELSE lvCall' = [lvCall EXCEPT ![r].pc = "create"]
  /\ UNCHANGED <<lvContent, lvHash, lvEditable, lvReport, lvOverlapped>>

(* update_or_create: the row is in processing, its old analysis stays.     *)
StartReport(r) ==
  /\ LvAt(r, "create")
  /\ lvReport' = [lvReport EXCEPT ![lvCall[r].key].status = "processing"]
  /\ lvCall' = [lvCall EXCEPT ![r].pc = "post"]
  /\ UNCHANGED <<lvContent, lvHash, lvEditable, lvOverlapped>>

(* post_with_retries: a 502 or 503 is tried again after a delay; the last  *)
(* one, a refused connection and any other error fail.                     *)
PostForAnalysis(r) ==
  LET posts == lvCall[r].posts + 1 IN
  /\ LvAt(r, "post")
  /\ \E pc \in {"post", "success", "failure"} :
       /\ pc = "post" => posts < RetryDelays
       /\ lvCall' = [lvCall EXCEPT ![r].pc = pc, ![r].posts = posts]
  /\ UNCHANGED <<lvContent, lvHash, lvEditable, lvReport, lvOverlapped>>

(* Another request will write this report.                                 *)
Beside(r) ==
  \E q \in LvRequests \ {r} :
    /\ lvCall[q].pc \in {"create", "post", "success", "failure"}
    /\ lvCall[q].key = lvCall[r].key

(* apply_success_payload, or the FAILED of the except clause: each saves   *)
(* over whatever the row holds by now.                                     *)
SaveReport(r) ==
  LET call == lvCall[r] IN
  /\ \/ /\ LvAt(r, "success")
        /\ lvReport' = [lvReport EXCEPT ![call.key] =
                          [status |-> "success", of |-> call.content, beside |-> Beside(r)]]
     \/ /\ LvAt(r, "failure")
        /\ lvReport' = [lvReport EXCEPT ![call.key].status = "failed"]
  /\ LvReturn(r)
  /\ UNCHANGED <<lvContent, lvHash, lvEditable, lvOverlapped>>

(* The web server dies, or its worker is killed during the long call.      *)
LvCrash(r) ==
  /\ lvCall[r] # LvIdle
  /\ LvReturn(r)
  /\ UNCHANGED <<lvContent, lvHash, lvEditable, lvReport, lvOverlapped>>

LvNext ==
  \/ LvEdit
  \/ LvSign
  \/ \E r \in LvRequests :
       \/ LoadDocument(r) \/ EnsureContentHash(r) \/ LookUpReport(r) \/ StartReport(r)
       \/ PostForAnalysis(r) \/ SaveReport(r) \/ LvCrash(r)

LvSpec == LvInit /\ [][LvNext]_lvVars

-----------------------------------------------------------------------------
(* The hash of a document is that of its content, unless it was edited     *)
(* while a LawVision request was about to save the hash of the content it  *)
(* had loaded, and the report kept for a hash was made of the content with *)
(* that hash: only a closed document whose hash such an overlap had put    *)
(* back is analysed under the hash of another (lawvision_service.py:94).   *)
HashesTellContents ==
  /\ lvContent \notin lvOverlapped => lvHash \in {0, lvContent}
  /\ \A h \in LvVersion \ {0} :
       lvReport[h].of \notin {0, h} => lvReport[h].of \in lvOverlapped

(* A finished report is taken away only by a forced run or by one that had *)
(* looked before it was there: whoever asks later gets it, and a failure   *)
(* of LawVision cannot replace it (lawvision_service.py:49-60).            *)
SuccessIsKept ==
  [][\A h \in LvVersion \ {0} :
       lvReport[h].status = "success" /\ ~lvReport[h].beside =>
         \/ lvReport'[h].status = "success"
         \/ \E r \in LvRequests : lvCall[r].force /\ lvCall[r].key = h]_lvVars
=============================================================================
