----------------------------- MODULE Admissions -----------------------------
(***************************************************************************)
(* One admission contract after it is rendered: the requests that update   *)
(* it, look at it, sign it for the applicant and for the vice rector, and  *)
(* delete it, and its mirror in the university's MSSQL database.           *)
(*                                                                         *)
(* A request reads the contract and its signers once and goes on with that *)
(* copy.  Only an update and a deletion are transactions that hold the     *)
(* contract's row; every other save is committed by itself, and the        *)
(* post_save signal then mirrors the copy, not the row.  A failed mirror   *)
(* is logged and forgotten.  A completion of ECP signing is one            *)
(* transaction, an action here; rendering is RenderQueue's subject.  Both  *)
(* parties sign with skip_key_validation, so that no signature of a        *)
(* contract is ever checked by the verifier, or rejected: every one is     *)
(* stored as valid (EcpVerifier.StoreUnchecked).                           *)
(***************************************************************************)
EXTENDS Naturals, FiniteSets

CONSTANTS
  AdRequests,   \* slots for requests in flight at the same time
  MaxVersion,   \* bound on the number of payloads
  NoAdRequest   \* nobody holds the contract's row

ASSUME AdAssumption ==
  /\ MaxVersion \in Nat \ {0}
  /\ NoAdRequest \notin AdRequests

VARIABLES
  adContract,    \* the contract row and the statuses of its signers
  adSignatures,  \* the parties with a Signature row
  adMirror,      \* the record in the MSSQL database
  adLock,        \* request that holds the contract row FOR UPDATE
  adCall,        \* what each request has read and where it stands
  adSerial,      \* history: requests run one after the other
  adUnsynced     \* history of serial requests: one broke off, or the mirror
                 \*          failed, since the mirror was last written

adVars == <<adContract, adSignatures, adMirror, adLock, adCall, adSerial, adUnsynced>>

AdParties == {"student", "rector"}
AdStatus == {"document_created", "student_signing", "vice_rector_pending",
             "vice_rector_signed", "completed"}
AdSignerStatus == {"none", "pending", "started", "signed"}
Version == 0 .. MaxVersion

AdContractRow == [present : BOOLEAN, status : AdStatus, version : Version,
                  signer : [AdParties -> AdSignerStatus]]
AdMirrorRow == [present : BOOLEAN, status : AdStatus, version : Version]

AdKinds == {"none", "update", "page", "student", "rector", "delete"}
AdPc == {"idle", "lock", "commit_update", "refresh", "check", "begin", "sign",
         "purge", "delete_mirror", "commit_delete", "sync", "last_sync"}

(* signs is TRUE from the request's own signature on.                      *)
AdCall == [pc : AdPc, kind : AdKinds, copy : AdContractRow, signs : BOOLEAN]

AdGone == [present |-> FALSE, status |-> "document_created", version |-> 0,
           signer |-> [p \in AdParties |-> "none"]]
AdIdle == [pc |-> "idle", kind |-> "none", copy |-> AdGone, signs |-> FALSE]

AdTypeOK ==
  /\ adContract \in AdContractRow
  /\ adSignatures \subseteq AdParties
  /\ adMirror \in AdMirrorRow
  /\ adLock \in AdRequests \cup {NoAdRequest}
  /\ adCall \in [AdRequests -> AdCall]
  /\ adSerial \in BOOLEAN
  /\ adUnsynced \in BOOLEAN

MirrorOf(row) ==
  [present |-> TRUE, status |-> row.status, version |-> row.version]

(* A rendered contract; a template rule may have no vice rector.           *)
AdInit ==
  /\ \E rector \in {"none", "pending"} :
       adContract = [present |-> TRUE, status |-> "student_signing", version |-> 0,
                     signer |-> [student |-> "pending", rector |-> rector]]
  /\ adSignatures = {}
  /\ adMirror = MirrorOf(adContract)
  /\ adLock = NoAdRequest
  /\ adCall = [r \in AdRequests |-> AdIdle]
  /\ adSerial \in BOOLEAN
  /\ adUnsynced = FALSE

-----------------------------------------------------------------------------
SignedCopy(row, party) == row.signer[party] = "signed"

(* refresh_status_from_signers, on the contract and the signers of a copy. *)
RefreshedFrom(row) ==
  IF SignedCopy(row, "student")
  THEN IF row.signer["rector"] \in {"signed", "none"} THEN "completed"
       ELSE "vice_rector_pending"
  ELSE IF SignedCopy(row, "rector") THEN "vice_rector_signed" ELSE "student_signing"

AdAt(r, pc) == adCall[r].pc = pc
AdKind(r) == adCall[r].kind
AdCopy(r) == adCall[r].copy
AdGoto(r, pc) == adCall' = [adCall EXCEPT ![r].pc = pc]
AdReturn(r) == adCall' = [adCall EXCEPT ![r] = AdIdle]

RowFree == adLock = NoAdRequest

(* The deletion has deleted the signers, so their rows are locked, too.    *)
SignersFree == ~ \E r \in AdRequests : adCall[r].pc \in {"delete_mirror", "commit_delete"}

(* The first step of each kind of request after the contract is read.      *)
FirstStep == [update |-> "lock", page |-> "refresh", student |-> "begin",
              rector |-> "refresh", delete |-> "lock"]

(* get_public_contract, get_protected_contract, get_vice_rector_contract   *)
(* and get_commission_contract read the contract with its signers; an      *)
(* applicant who has signed is turned away at once.                        *)
LoadContract(r, kind) ==
  /\ adCall[r] = AdIdle
  /\ adSerial => \A q \in AdRequests : adCall[q] = AdIdle
  /\ adContract.present
  /\ kind = "student" => ~SignedCopy(adContract, "student")
  /\ adCall' = [adCall EXCEPT ![r] = [pc |-> FirstStep[kind], kind |-> kind,
                                      copy |-> adContract, signs |-> FALSE]]
  /\ UNCHANGED <<adContract, adSignatures, adMirror, adLock, adSerial, adUnsynced>>

-----------------------------------------------------------------------------
(* _update_contract_shell takes the row and refuses a contract that a      *)
(* signer has signed; their rows stay free.                                *)
LockForUpdate(r) ==
  /\ AdAt(r, "lock") /\ AdKind(r) = "update"
  /\ RowFree
  /\ IF adContract.present /\ \A p \in AdParties : ~SignedCopy(adContract, p)
     THEN adLock' = r /\ AdGoto(r, "commit_update")
     ELSE AdReturn(r) /\ UNCHANGED adLock
  /\ UNCHANGED <<adContract, adSignatures, adMirror, adSerial, adUnsynced>>

CommitContractUpdate(r) ==
  /\ AdAt(r, "commit_update")
  /\ adContract.version < MaxVersion
  /\ adContract' = [adContract EXCEPT !.version = @ + 1, !.status = "document_created"]
  /\ adLock' = NoAdRequest
  /\ adCall' = [adCall EXCEPT ![r].pc = "sync", ![r].copy = adContract']
  /\ UNCHANGED <<adSignatures, adMirror, adSerial, adUnsynced>>

(* Contract.refresh_status_from_signers saves the status whether or not it *)
(* changed; a save of a deleted row raises.                                *)
Refresh(r) ==
  /\ AdAt(r, "refresh")
  /\ RowFree
  /\ IF adContract.present
     THEN /\ adContract' = [adContract EXCEPT !.status = RefreshedFrom(AdCopy(r))]
          /\ adCall' = [adCall EXCEPT ![r].pc = "sync",
                          ![r].copy.status = RefreshedFrom(AdCopy(r))]
     ELSE AdReturn(r) /\ UNCHANGED adContract
  /\ UNCHANGED <<adSignatures, adMirror, adLock, adSerial, adUnsynced>>

(* sync_contract mirrors the contract in memory ...                        *)
Mirrored(r) == MirrorOf(AdCopy(r))

(* ... as the post_save signal does after the commit, and an update and a  *)
(* signature once more themselves.                                         *)
AfterSync(r) ==
  IF AdAt(r, "last_sync") \/ AdKind(r) = "page" THEN "idle"
  ELSE IF AdKind(r) = "rector" /\ ~adCall[r].signs THEN "check"
  ELSE "last_sync"

SyncContract(r) ==
  /\ AdAt(r, "sync") \/ AdAt(r, "last_sync")
  /\ \/ adMirror' = Mirrored(r) /\ adUnsynced' = FALSE
     \/ adUnsynced' = adSerial /\ UNCHANGED adMirror
  /\ IF AfterSync(r) = "idle" THEN AdReturn(r) ELSE AdGoto(r, AfterSync(r))
  /\ UNCHANGED <<adContract, adSignatures, adLock, adSerial>>

-----------------------------------------------------------------------------
(* Mutant: as the public signing views, nobody asks for the order. *)
RectorUnsigned(r) == AdCopy(r).signer["rector"] \in {"pending", "started"}

(* vice_rector_ecp_signing_complete: the applicant has signed, in the copy *)
(* and for can_sign_now, which asks the database.                          *)
RectorMaySign(r) ==
  /\ AdCopy(r).signer["rector"] \in {"pending", "started"}
  /\ SignedCopy(AdCopy(r), "student")
  /\ adContract.present => SignedCopy(adContract, "student")

CheckRector(r) ==
  /\ AdAt(r, "check")
  /\ IF RectorMaySign(r) THEN AdGoto(r, "begin") ELSE AdReturn(r)
  /\ UNCHANGED <<adContract, adSignatures, adMirror, adLock, adSerial, adUnsynced>>

Party(r) == AdKind(r)

(* complete_admission_ecp_signature saves the signer's method and status   *)
(* from the copy ...                                                       *)
BeginSignature(r) ==
  /\ AdAt(r, "begin")
  /\ SignersFree
  /\ IF adContract.present
     THEN /\ adContract' = [adContract EXCEPT !.signer[Party(r)] = "started"]
          /\ AdGoto(r, "sign")
     ELSE AdReturn(r) /\ UNCHANGED adContract
  /\ UNCHANGED <<adSignatures, adMirror, adLock, adSerial, adUnsynced>>

(* ... and EcpSigningService.complete_signing commits signature and signer *)
(* together; a second signature of a signer breaks a constraint.           *)
CompleteSignature(r) ==
  /\ AdAt(r, "sign")
  /\ SignersFree
  /\ IF adContract.present /\ Party(r) \notin adSignatures
     THEN /\ adSignatures' = adSignatures \cup {Party(r)}
          /\ adContract' = [adContract EXCEPT !.signer[Party(r)] = "signed"]
          /\ adCall' = [adCall EXCEPT ![r].pc = "refresh", ![r].signs = TRUE,
                                      ![r].copy.signer[Party(r)] = "signed"]
     ELSE AdReturn(r) /\ UNCHANGED <<adSignatures, adContract>>
  /\ UNCHANGED <<adMirror, adLock, adSerial, adUnsynced>>

-----------------------------------------------------------------------------
(* Mutant: the status in the row, which is refreshed after a signature. *)
NotCompleted(row) == row.status \notin {"vice_rector_signed", "completed"}

(* can_delete *)
CanDelete(row) == ~SignedCopy(row, "rector")

(* AdmissionContractDeletionService.delete_contract takes the row and      *)
(* looks at the signers ...                                                *)
LockForDeletion(r) ==
  /\ AdAt(r, "lock") /\ AdKind(r) = "delete"
  /\ RowFree
  /\ IF adContract.present /\ CanDelete(adContract)
     THEN adLock' = r /\ AdGoto(r, "purge")
     ELSE AdReturn(r) /\ UNCHANGED adLock
  /\ UNCHANGED <<adContract, adSignatures, adMirror, adSerial, adUnsynced>>

(* ... deletes the contract, the signatures, the signers and the documents *)
(* for the eyes of its own transaction ...                                 *)
Purge(r) ==
  /\ AdAt(r, "purge")
  /\ AdGoto(r, "delete_mirror")
  /\ UNCHANGED <<adContract, adSignatures, adMirror, adLock, adSerial, adUnsynced>>

(* Mutant: delete_contract does not call delete_contract_record. *)
MirrorKept == adMirror

MirrorDeleted == [adMirror EXCEPT !.present = FALSE]

(* ... deletes the mirror's record, which no rollback restores ...         *)
DeleteContractRecord(r) ==
  /\ AdAt(r, "delete_mirror")
  /\ \/ adMirror' = MirrorDeleted /\ UNCHANGED adUnsynced
     \/ adUnsynced' = adSerial /\ UNCHANGED adMirror
  /\ AdGoto(r, "commit_delete")
  /\ UNCHANGED <<adContract, adSignatures, adLock, adSerial>>

(* ... and commits.                                                        *)
CommitDeletion(r) ==
  /\ AdAt(r, "commit_delete")
  /\ adContract' = AdGone
  /\ adSignatures' = {}
  /\ adLock' = NoAdRequest
  /\ AdReturn(r)
  /\ UNCHANGED <<adMirror, adSerial, adUnsynced>>

(* An exception or the end of the process: the transaction rolls back, a   *)
(* deletion's at its commit, too, by the deferred foreign key of a late    *)
(* signature.                                                              *)
BreakOff(r) ==
  /\ adCall[r] # AdIdle
  /\ adLock' = IF adLock = r THEN NoAdRequest ELSE adLock
  /\ adUnsynced' = \/ adUnsynced
                    \/ /\ adSerial
                       /\ \/ adCall[r].signs
                          \/ adCall[r].pc \in {"sync", "last_sync", "commit_delete"}
  /\ AdReturn(r)
  /\ UNCHANGED <<adContract, adSignatures, adMirror, adSerial>>

AdNext ==
  \E r \in AdRequests :
    \/ \E kind \in AdKinds \ {"none"} : LoadContract(r, kind)
    \/ LockForUpdate(r) \/ CommitContractUpdate(r)
    \/ Refresh(r) \/ SyncContract(r)
    \/ CheckRector(r) \/ BeginSignature(r) \/ CompleteSignature(r)
    \/ LockForDeletion(r) \/ Purge(r) \/ DeleteContractRecord(r) \/ CommitDeletion(r)
    \/ BreakOff(r)

AdSpec == AdInit /\ [][AdNext]_adVars

-----------------------------------------------------------------------------
(* What KeepsThePromise says of the signatures that are there:             *)
(* the vice rector's signature comes after the applicant's, whatever       *)
(* overlaps: both checks of vice_rector_ecp_signing_complete read a signed *)
(* applicant; and neither the row nor the mirror says COMPLETED before     *)
(* everybody who has to has signed, although both are written from copies  *)
(* (admissions/views.py:1240-1250, admissions/models.py:340,               *)
(* mssql_mirror_service.py:28).                                            *)
SignedInOrder ==
  /\ "rector" \in adSignatures => "student" \in adSignatures
  /\ adContract.present /\ "completed" \in {adContract.status, adMirror.status} =>
       /\ "student" \in adSignatures
       /\ adContract.signer["rector"] # "none" => "rector" \in adSignatures

(* What AdmissionContract speaks of, in the row and the mirror.            *)
Countersigned == adContract.present /\ adContract.signer["rector"] # "none"

CalledComplete ==
  adContract.present /\ "completed" \in {adContract.status, adMirror.status}

Promise == INSTANCE AdmissionContract WITH
  Applicant <- "student",
  Rector <- "rector",
  there <- adContract.present,
  countersigned <- Countersigned,
  sealed <- adSignatures,
  complete <- CalledComplete

(* However requests overlap and break off, the contract's signatures are   *)
(* those of AdmissionContract: set in order, once each, and kept until the *)
(* contract is deleted, whatever an update, an old copy of the signers or  *)
(* a repeated completion writes over their statuses.                       *)
KeepsThePromise == Promise!Spec

(* Among requests that do not overlap, one that ends regularly leaves the  *)
(* mirror as the contract is, the last signature and the deletion          *)
(* included, whatever earlier ones broke off (mssql_mirror_service.py:28,  *)
(* admissions/signals.py:9).                                               *)
LoneRequestMirrors ==
  adSerial /\ ~adUnsynced /\ (\A r \in AdRequests : adCall[r] = AdIdle) =>
    /\ adMirror.present = adContract.present
    /\ adContract.present => adMirror = MirrorOf(adContract)
    /\ "rector" \in adSignatures => adMirror.status = "completed"

(* A deletion that overlaps no other request never takes the vice rector's *)
(* signature with it, even when an earlier request stopped between the     *)
(* signature and the save of the contract's status                         *)
(* (contract_deletion_service.py:30-60).                                   *)
LoneDeletionSparesRector ==
  [][adSerial /\ "rector" \in adSignatures => adContract'.present]_adVars

(* "The applicant cannot be deleted after the vice rector has signed."     *)
(* (contract_deletion_service.py:59), whatever overlaps.                   *)
DeletionSparesRector == [][ "rector" \in adSignatures => adContract'.present ]_adVars
=============================================================================
