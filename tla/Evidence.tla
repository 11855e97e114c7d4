------------------------------ MODULE Evidence ------------------------------
(***************************************************************************)
(* One document's final files in object storage, the access links they     *)
(* back, and the evidence bundle that is assembled from them.              *)
(*                                                                         *)
(* create_token and the admission page store a copy of the file before     *)
(* they let anybody sign; put_object, set_object_retention and the         *)
(* StoredObject row are three calls of two systems, any of which may fail. *)
(* build_bundle runs in no transaction: each of its queries sees what is   *)
(* committed when it runs.  The object store is external and keeps what it *)
(* has accepted.  A content is a version number and so is its hash; of the *)
(* audit entries only SIGNATURE_CREATED is kept.  Which content a          *)
(* signature covers is Signing's subject.                                  *)
(*                                                                         *)
(* Storage is enabled here (with OBJECT_STORAGE_ENABLED off the code hands *)
(* out links and stores nothing) and the document has a rendered file,     *)
(* without which create_token refuses; its PDF and its DOCX are one object *)
(* of one content.                                                         *)
(***************************************************************************)
EXTENDS Naturals

CONSTANTS
  EvRequests,    \* slots for requests in flight at the same time
  EvSigners,     \* signers of the document
  EvContents     \* bound on the number of contents

ASSUME EvAssumption == EvContents \in Nat \ {0}

VARIABLES
  evContent,     \* the content of the document's file
  evStored,      \* contents in the bucket, with or without a row
  evRows,        \* contents with a StoredObject row of a final type
  evLinked,      \* contents a request has copied and then issued a link for
  evSignature,   \* provider of each signer's signature, "" before
  evMarked,      \* signers with status SIGNED
  evLogged,      \* signers with a SIGNATURE_CREATED audit entry
  evClosed,      \* the document's status is SIGNED
  evCall         \* what each request has read and where it stands

evVars == <<evContent, evStored, evRows, evLinked, evSignature, evMarked, evLogged,
            evClosed, evCall>>

EvVersion == 1 .. EvContents
EvPc == {"idle", "put", "retain", "row", "token", "save", "mark", "close",
         "files", "audit", "objects", "signatures", "trail", "persist"}

(* content and linked, closed: the document as the request loaded it; then *)
(* what the queries of build_bundle have returned so far.                  *)
EvCall == [pc : EvPc, content : EvVersion, linked : BOOLEAN, closed : BOOLEAN,
           signer : SUBSET EvSigners, files : SUBSET EvVersion,
           head : SUBSET EvSigners, objects : SUBSET EvVersion,
           signatures : SUBSET EvSigners, trail : SUBSET EvSigners]
EvIdle == [pc |-> "idle", content |-> 1, linked |-> FALSE, closed |-> FALSE,
           signer |-> {}, files |-> {}, head |-> {}, objects |-> {},
           signatures |-> {}, trail |-> {}]

EvTypeOK ==
  /\ evContent \in EvVersion
  /\ evStored \subseteq EvVersion
  /\ evRows \subseteq EvVersion
  /\ evLinked \subseteq EvVersion
  /\ evSignature \in [EvSigners -> {"", "sms", "egov"}]
  /\ evMarked \subseteq EvSigners
  /\ evLogged \subseteq EvSigners
  /\ evClosed \in BOOLEAN
  /\ evCall \in [EvRequests -> EvCall]

EvInit ==
  /\ evContent = 1
  /\ evStored = {}
  /\ evRows = {}
  /\ evLinked = {}
  /\ evSignature = [s \in EvSigners |-> ""]
  /\ evMarked = {}
  /\ evLogged = {}
  /\ evClosed = FALSE
  /\ evCall = [r \in EvRequests |-> EvIdle]

-----------------------------------------------------------------------------
EvAt(r, pc) == evCall[r].pc = pc
EvGoto(r, pc) == evCall' = [evCall EXCEPT ![r].pc = pc]
EvReturn(r) == evCall' = [evCall EXCEPT ![r] = EvIdle]
EvBegin(r, pc) ==
  /\ evCall[r] = EvIdle
  /\ evCall' = [evCall EXCEPT ![r] = [EvIdle EXCEPT !.pc = pc, !.content = evContent]]

Unsigned(s) == evSignature[s] = "" /\ s \notin evMarked

(* create_token for a signer who has not signed: the document it loads     *)
(* names the file it will copy.                                            *)
RequestLink(r) ==
  /\ \E s \in EvSigners : Unsigned(s)
  /\ EvBegin(r, "put")
  /\ UNCHANGED <<evContent, evStored, evRows, evLinked, evSignature, evMarked, evLogged,
                 evClosed>>

(* Mutant: create_token logs the exception of the storage and goes on. *)
TokenAfterFailure == "token"

AfterFailure == "idle"

(* store_document_file, with a rest that may fail after each call.         *)
PutObject(r) ==
  /\ EvAt(r, "put")
  /\ \/ evStored' = evStored \cup {evCall[r].content} /\ EvGoto(r, "retain")
     \/ evStored' = evStored /\ EvGoto(r, AfterFailure)
  /\ UNCHANGED <<evContent, evRows, evLinked, evSignature, evMarked, evLogged, evClosed>>

SetObjectRetention(r) ==
  /\ EvAt(r, "retain")
  /\ EvGoto(r, "row") \/ EvGoto(r, AfterFailure)
  /\ UNCHANGED <<evContent, evStored, evRows, evLinked, evSignature, evMarked, evLogged,
                 evClosed>>

SaveStoredObject(r) ==
  /\ EvAt(r, "row")
  /\ evRows' = evRows \cup {evCall[r].content}
  /\ EvGoto(r, "token")
  /\ UNCHANGED <<evContent, evStored, evLinked, evSignature, evMarked, evLogged, evClosed>>

(* The link is to the document, whatever it holds when the link is opened; *)
(* what is remembered is the content this request has copied.              *)
IssueToken(r) ==
  /\ EvAt(r, "token")
  /\ evLinked' = evLinked \cup {evCall[r].content}
  /\ EvReturn(r)
  /\ UNCHANGED <<evContent, evStored, evRows, evSignature, evMarked, evLogged, evClosed>>

-----------------------------------------------------------------------------
(* An edit asks can_be_edited of the document it loaded and saves later;   *)
(* Document.save refuses a signed one.                                     *)
CheckEdit(r) ==
  /\ evMarked = {} /\ ~evClosed
  /\ EvBegin(r, "save")
  /\ UNCHANGED <<evContent, evStored, evRows, evLinked, evSignature, evMarked, evLogged,
                 evClosed>>

SaveEdit(r) ==
  /\ EvAt(r, "save")
  /\ \/ ~evClosed /\ evContent < EvContents /\ evContent' = evContent + 1
     \/ evClosed /\ UNCHANGED evContent
  /\ EvReturn(r)
  /\ UNCHANGED <<evStored, evRows, evLinked, evSignature, evMarked, evLogged, evClosed>>

(* The SMS and ECP completions: one transaction with its audit entry.      *)
SignInTransaction(s) ==
  /\ evLinked # {}
  /\ Unsigned(s)
  /\ evSignature' = [evSignature EXCEPT ![s] = "sms"]
  /\ evMarked' = evMarked \cup {s}
  /\ evLogged' = evLogged \cup {s}
  /\ evClosed' = (evMarked' = EvSigners)
  /\ UNCHANGED <<evContent, evStored, evRows, evLinked, evCall>>

(* The eGov Mobile completion saves signature, signer and document one     *)
(* after the other and writes no audit entry.                              *)
SignWithEgov(r, s) ==
  /\ evLinked # {}
  /\ evSignature[s] = ""
  /\ evCall[r] = EvIdle
  /\ evSignature' = [evSignature EXCEPT ![s] = "egov"]
  /\ evCall' = [evCall EXCEPT ![r] = [EvIdle EXCEPT !.pc = "mark", !.signer = {s}]]
  /\ UNCHANGED <<evContent, evStored, evRows, evLinked, evMarked, evLogged, evClosed>>

MarkEgovSigner(r) ==
  /\ EvAt(r, "mark")
  /\ evMarked' = evMarked \cup evCall[r].signer
  /\ EvGoto(r, "close")
  /\ UNCHANGED <<evContent, evStored, evRows, evLinked, evSignature, evLogged, evClosed>>

CloseEgovDocument(r) ==
  /\ EvAt(r, "close")
  /\ evClosed' = (evClosed \/ evMarked = EvSigners)
  /\ EvReturn(r)
  /\ UNCHANGED <<evContent, evStored, evRows, evLinked, evSignature, evMarked, evLogged>>

-----------------------------------------------------------------------------
(* document_evidence_bundle loads the document; linked is history.         *)
RequestBundle(r) ==
  /\ evCall[r] = EvIdle
  /\ evCall' = [evCall EXCEPT ![r] =
                  [EvIdle EXCEPT !.pc = "files", !.content = evContent,
                                 !.linked = evContent \in evLinked, !.closed = evClosed]]
  /\ UNCHANGED <<evContent, evStored, evRows, evLinked, evSignature, evMarked, evLogged,
                 evClosed>>

(* The objects whose bytes are fetched and compared with their SHA-256.    *)
FinalObjects == evRows

SignatureRows == {s \in EvSigners : evSignature[s] # ""}

(* Mutant: the trail is read before the signatures. *)
TrailBeforeSignatures ==
  [files |-> "audit", audit |-> "objects", objects |-> "trail", trail |-> "signatures",
   signatures |-> "persist"]

(* The queries of build_bundle, each followed by the next one.             *)
AfterQuery ==
  [files |-> "audit", audit |-> "objects", objects |-> "signatures",
   signatures |-> "trail", trail |-> "persist"]

(* The manifest tells the status the view has loaded.                      *)
ManifestClosed(r) == evCall[r].closed

Query(r, pc) ==
  /\ EvAt(r, pc)
  /\ LET after == [evCall[r] EXCEPT !.pc = AfterQuery[pc]] IN
     evCall' = [evCall EXCEPT ![r] =
       CASE pc = "files" -> [after EXCEPT !.files = FinalObjects]
         [] pc = "audit" -> [after EXCEPT !.head = evLogged]
         [] pc = "objects" -> [after EXCEPT !.objects = evRows]
         [] pc = "signatures" -> [after EXCEPT !.signatures = SignatureRows]
         [] pc = "trail" -> [after EXCEPT !.trail = evLogged, !.closed = ManifestClosed(r)]]
  /\ UNCHANGED <<evContent, evStored, evRows, evLinked, evSignature, evMarked, evLogged,
                 evClosed>>

(* The first query refuses a document without final objects, and any file  *)
(* that the bucket does not return unharmed.                               *)
QueryFiles(r) == FinalObjects # {} /\ FinalObjects \subseteq evStored /\ Query(r, "files")
QueryRest(r) == \E pc \in DOMAIN AfterQuery \ {"files"} : Query(r, pc)

(* The archive is stored and returned.                                     *)
HandOutBundle(r) ==
  /\ EvAt(r, "persist")
  /\ EvReturn(r)
  /\ UNCHANGED <<evContent, evStored, evRows, evLinked, evSignature, evMarked, evLogged,
                 evClosed>>

(* The web server dies, or one of the calls raises: a query, the broken    *)
(* chain of an audit, the object store.                                    *)
EvCrash(r) ==
  /\ evCall[r] # EvIdle
  /\ EvReturn(r)
  /\ UNCHANGED <<evContent, evStored, evRows, evLinked, evSignature, evMarked, evLogged,
                 evClosed>>

EvNext ==
  \/ \E s \in EvSigners : SignInTransaction(s)
  \/ \E r \in EvRequests :
       \/ RequestLink(r) \/ PutObject(r) \/ SetObjectRetention(r) \/ SaveStoredObject(r)
       \/ IssueToken(r) \/ CheckEdit(r) \/ SaveEdit(r)
       \/ \E s \in EvSigners : SignWithEgov(r, s)
       \/ MarkEgovSigner(r) \/ CloseEgovDocument(r)
       \/ RequestBundle(r) \/ QueryFiles(r) \/ QueryRest(r) \/ HandOutBundle(r)
       \/ EvCrash(r)

EvSpec == EvInit /\ [][EvNext]_evVars

-----------------------------------------------------------------------------
(* "Final rendered PDF/DOCX is stored in MinIO before a signing access     *)
(* link is issued" (SECURITY_READINESS.md:45): whatever fails or dies on   *)
(* the way, an offered content is in the bucket and has its row.           *)
LinkedContentIsStored == evLinked \subseteq evRows /\ evRows \subseteq evStored

Assembled(r) == EvAt(r, "persist")

(* An evidence bundle is consistent although nothing is locked while it is *)
(* assembled (evidence_bundle_service.py:35-94).  It holds a verified file *)
(* of the content it describes if that had been offered for signing.  Its  *)
(* verified files are among the objects it lists, its verified chain head  *)
(* is in its trail, and so is the audit entry of every signature it        *)
(* carries, those of eGov Mobile excepted.  If its manifest calls the      *)
(* document signed, it carries everybody's signature.                      *)
BundleIsConsistent ==
  \A r \in EvRequests : Assembled(r) =>
    LET bundle == evCall[r] IN
    /\ bundle.linked => bundle.content \in bundle.files
    /\ bundle.files \subseteq bundle.objects
    /\ bundle.head \subseteq bundle.trail
    /\ {s \in bundle.signatures : evSignature[s] = "sms"} \subseteq bundle.trail
    /\ bundle.closed => bundle.signatures = EvSigners
=============================================================================
