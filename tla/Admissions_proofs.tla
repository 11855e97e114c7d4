-------------------------- MODULE Admissions_proofs --------------------------
(***************************************************************************)
(* Theorems about Admissions: however updates, page visits, signatures and *)
(* deletions overlap, the vice rector signs after the applicant, and       *)
(* neither the contract nor its mirror is COMPLETED too early; where they  *)
(* do not overlap, the mirror follows the contract and a deletion spares   *)
(* the vice rector's signature.  Theorems about AdmissionData: what the    *)
(* applicant edited stays, and requests that do not overlap leave row,     *)
(* documents and signer with the same values.                              *)
(***************************************************************************)
EXTENDS Admissions, AdmissionData, TLAPS

(* Everybody who has to has signed.                                        *)
AllSigned ==
  /\ "student" \in adSignatures
  /\ adContract.signer["rector"] # "none" => "rector" \in adSignatures

(* Whoever is signed in a row or a copy has a signature, as long as the    *)
(* contract is there.                                                      *)
Backed(row) == \A p \in AdParties : SignedCopy(row, p) => p \in adSignatures

RowIsBacked ==
  adContract.present =>
    Backed(adContract) /\ (adContract.status = "completed" => AllSigned)

CallIsBacked(r) ==
  Backed(adCall[r].copy) /\ (adCall[r].copy.status = "completed" => AllSigned)

(* A contract has a vice rector or has none, in every copy.                *)
KnowsTheRector(r) ==
  adCall[r].pc # "idle" =>
    (adCall[r].copy.signer["rector"] = "none" <=> adContract.signer["rector"] = "none")

(* Who is about to sign is a party, the vice rector one who may.           *)
IsReadyToSign(r) ==
  /\ adCall[r].pc = "check" => adCall[r].kind = "rector"
  /\ adCall[r].pc \in {"begin", "sign"} =>
       /\ adCall[r].kind \in AdParties
       /\ adCall[r].kind = "rector" =>
            /\ SignedCopy(adCall[r].copy, "student")
            /\ adCall[r].copy.signer["rector"] # "none"

CallIsSound(r) ==
  /\ adContract.present => CallIsBacked(r) /\ KnowsTheRector(r)
  /\ IsReadyToSign(r)

CallsAreSound == \A r \in AdRequests : CallIsSound(r)

MirrorIsBacked == adContract.present /\ adMirror.status = "completed" => AllSigned

OrderIsKept == "rector" \in adSignatures => "student" \in adSignatures

AdInv ==
  /\ AdTypeOK
  /\ RowIsBacked
  /\ CallsAreSound
  /\ MirrorIsBacked
  /\ OrderIsKept

-----------------------------------------------------------------------------
LEMMA GoneIsRow == AdGone \in AdContractRow
BY AdAssumption DEF AdGone, AdContractRow, AdStatus, AdSignerStatus, Version, AdParties

LEMMA AdIdleIsCall == AdIdle \in AdCall
BY GoneIsRow DEF AdIdle, AdCall, AdPc, AdKinds

LEMMA MirrorOfIsMirror ==
  ASSUME NEW row \in AdContractRow
  PROVE  MirrorOf(row) \in AdMirrorRow
BY DEF MirrorOf, AdMirrorRow, AdContractRow

LEMMA RefreshedIsStatus ==
  ASSUME NEW row
  PROVE  RefreshedFrom(row) \in AdStatus
BY DEF RefreshedFrom, AdStatus

LEMMA AdInitTypes == AdInit => AdTypeOK
<1> SUFFICES ASSUME AdInit PROVE AdTypeOK
  OBVIOUS
<1>1. adContract \in AdContractRow
  BY AdAssumption DEF AdInit, AdContractRow, AdStatus, AdSignerStatus, Version, AdParties
<1>2. adMirror \in AdMirrorRow
  BY <1>1, MirrorOfIsMirror DEF AdInit
<1>3. adCall \in [AdRequests -> AdCall]
  BY AdIdleIsCall DEF AdInit
<1>4. adSignatures \subseteq AdParties /\ adLock \in AdRequests \cup {NoAdRequest}
  BY DEF AdInit
<1>5. adSerial \in BOOLEAN /\ adUnsynced \in BOOLEAN
  BY DEF AdInit
<1> QED  BY <1>1, <1>2, <1>3, <1>4, <1>5 DEF AdTypeOK

(* The steps of a request change its own entry of adCall only.             *)
LEMMA SteppedCall ==
  ASSUME AdTypeOK, NEW r \in AdRequests, NEW call \in AdCall,
         adCall' = [adCall EXCEPT ![r] = call]
  PROVE  adCall' \in [AdRequests -> AdCall]
BY DEF AdTypeOK

LEMMA GotoTypes ==
  ASSUME AdTypeOK, NEW r \in AdRequests, NEW pc \in AdPc, AdGoto(r, pc)
  PROVE  adCall' \in [AdRequests -> AdCall]
BY DEF AdTypeOK, AdGoto, AdCall

LEMMA ReturnTypes ==
  ASSUME AdTypeOK, NEW r \in AdRequests, AdReturn(r)
  PROVE  adCall' \in [AdRequests -> AdCall]
BY AdIdleIsCall DEF AdTypeOK, AdReturn

LEMMA PcsAreThere ==
  /\ {"commit_update", "begin", "sign", "purge", "delete_mirror", "commit_delete"} \subseteq AdPc
  /\ {"refresh", "sync", "check", "last_sync", "lock", "idle"} \subseteq AdPc
BY DEF AdPc

(* A signer's status in a row of the right type may become any other.      *)
LEMMA SignerUpdated ==
  ASSUME NEW row \in AdContractRow, NEW party, NEW status \in AdSignerStatus
  PROVE  [row EXCEPT !.signer[party] = status] \in AdContractRow
<1>1. [row.signer EXCEPT ![party] = status] \in [AdParties -> AdSignerStatus]
  BY DEF AdContractRow
<1> QED  BY <1>1 DEF AdContractRow

LEMMA UpdateTypes ==
  ASSUME AdTypeOK, NEW r \in AdRequests, CommitContractUpdate(r)
  PROVE  AdTypeOK'
<1>1. adContract \in AdContractRow /\ adCall[r] \in AdCall
  BY DEF AdTypeOK
<1>2. adContract.version + 1 \in Version
  BY <1>1, AdAssumption DEF CommitContractUpdate, AdContractRow, Version
<1>3. adContract' \in AdContractRow
  BY <1>1, <1>2 DEF CommitContractUpdate, AdContractRow, AdStatus
<1> DEFINE new == [adCall[r] EXCEPT !.pc = "sync", !.copy = adContract']
<1>4. new \in AdCall
  BY <1>1, <1>3, PcsAreThere DEF AdCall
<1>5. adCall' = [adCall EXCEPT ![r] = new]
  BY DEF CommitContractUpdate, AdTypeOK
<1>6. adCall' \in [AdRequests -> AdCall]
  BY <1>4, <1>5, SteppedCall
<1> QED  BY <1>3, <1>6 DEF CommitContractUpdate, AdTypeOK

LEMMA RefreshTypes ==
  ASSUME AdTypeOK, NEW r \in AdRequests, Refresh(r)
  PROVE  AdTypeOK'
<1>1. adContract \in AdContractRow /\ adCall[r] \in AdCall
  BY DEF AdTypeOK
<1> DEFINE status == RefreshedFrom(AdCopy(r))
<1>2. status \in AdStatus
  BY RefreshedIsStatus
<1>3. CASE adContract.present
  <2>1. adContract' = [adContract EXCEPT !.status = status]
    BY <1>3 DEF Refresh
  <2>2. adContract' \in AdContractRow
    BY <1>1, <1>2, <2>1 DEF AdContractRow
  <2> DEFINE copied == [adCall[r].copy EXCEPT !.status = status]
             new == [adCall[r] EXCEPT !.pc = "sync", !.copy = copied]
  <2>3. adCall' = [adCall EXCEPT ![r] = new]
    BY <1>1, <1>3 DEF Refresh, AdTypeOK, AdCall
  <2>4. copied \in AdContractRow
    BY <1>1, <1>2 DEF AdCall, AdContractRow
  <2>5. new \in AdCall
    BY <1>1, <2>4, PcsAreThere DEF AdCall
  <2>6. adCall' \in [AdRequests -> AdCall]
    BY <2>3, <2>5, SteppedCall
  <2> QED  BY <2>2, <2>6 DEF Refresh, AdTypeOK
<1>4. CASE ~adContract.present
  <2>1. adCall' \in [AdRequests -> AdCall]
    BY <1>4, ReturnTypes DEF Refresh
  <2> QED  BY <1>4, <2>1 DEF Refresh, AdTypeOK
<1> QED  BY <1>3, <1>4

LEMMA SyncTypes ==
  ASSUME AdTypeOK, NEW r \in AdRequests, SyncContract(r)
  PROVE  AdTypeOK'
<1>1. AfterSync(r) \in AdPc
  BY DEF AfterSync, AdPc
<1>2. adCall[r].copy \in AdContractRow
  BY DEF AdTypeOK, AdCall
<1>3. Mirrored(r) \in AdMirrorRow
  BY <1>2, MirrorOfIsMirror DEF Mirrored, AdCopy
<1>4. adMirror' \in AdMirrorRow /\ adUnsynced' \in BOOLEAN
  <2>1. CASE adMirror' = Mirrored(r) /\ adUnsynced' = FALSE
    BY <2>1, <1>3
  <2>2. CASE adUnsynced' = adSerial /\ UNCHANGED adMirror
    BY <2>2 DEF AdTypeOK
  <2> QED  BY <2>1, <2>2 DEF SyncContract
<1>5. adCall' \in [AdRequests -> AdCall]
  BY <1>1, GotoTypes, ReturnTypes DEF SyncContract
<1> QED  BY <1>4, <1>5 DEF SyncContract, AdTypeOK

LEMMA BeginTypes ==
  ASSUME AdTypeOK, NEW r \in AdRequests, BeginSignature(r)
  PROVE  AdTypeOK'
<1>1. adContract' \in AdContractRow
  <2>1. "started" \in AdSignerStatus
    BY DEF AdSignerStatus
  <2>2. adContract \in AdContractRow
    BY DEF AdTypeOK
  <2>3. [adContract EXCEPT !.signer[Party(r)] = "started"] \in AdContractRow
    BY <2>1, <2>2, SignerUpdated
  <2> QED  BY <2>2, <2>3 DEF BeginSignature
<1>2. adCall' \in [AdRequests -> AdCall]
  BY GotoTypes, ReturnTypes, PcsAreThere DEF BeginSignature
<1> QED  BY <1>1, <1>2 DEF BeginSignature, AdTypeOK

LEMMA CompleteTypes ==
  ASSUME AdTypeOK, NEW r \in AdRequests, CallIsSound(r), CompleteSignature(r)
  PROVE  AdTypeOK'
<1>1. adContract \in AdContractRow /\ adCall[r] \in AdCall
  BY DEF AdTypeOK
<1>2. Party(r) \in AdParties
  BY DEF CompleteSignature, AdAt, CallIsSound, IsReadyToSign, Party, AdKind
<1>3. "signed" \in AdSignerStatus
  BY DEF AdSignerStatus
<1>4. CASE adContract.present /\ Party(r) \notin adSignatures
  <2>1. adContract' \in AdContractRow
    <3>1. [adContract EXCEPT !.signer[Party(r)] = "signed"] \in AdContractRow
      BY <1>1, <1>3, SignerUpdated
    <3> QED  BY <1>4, <3>1 DEF CompleteSignature
  <2> DEFINE copied == [adCall[r].copy EXCEPT !.signer[Party(r)] = "signed"]
             new == [adCall[r] EXCEPT !.pc = "refresh", !.signs = TRUE, !.copy = copied]
  <2>2. adCall' = [adCall EXCEPT ![r] = new]
    BY <1>1, <1>4 DEF CompleteSignature, AdTypeOK, AdCall
  <2>3. adCall[r].copy \in AdContractRow
    BY <1>1 DEF AdCall
  <2>4. copied \in AdContractRow
    BY <1>3, <2>3, SignerUpdated
  <2>5. new \in AdCall
    BY <1>1, <2>4, PcsAreThere DEF AdCall
  <2>6. adCall' \in [AdRequests -> AdCall]
    BY <2>2, <2>5, SteppedCall
  <2>7. adSignatures' \subseteq AdParties
    BY <1>2, <1>4 DEF CompleteSignature, AdTypeOK
  <2> QED  BY <2>1, <2>6, <2>7 DEF CompleteSignature, AdTypeOK
<1>5. CASE ~(adContract.present /\ Party(r) \notin adSignatures)
  <2>1. adCall' \in [AdRequests -> AdCall]
    BY <1>5, ReturnTypes DEF CompleteSignature
  <2> QED  BY <1>5, <2>1 DEF CompleteSignature, AdTypeOK
<1> QED  BY <1>4, <1>5

LEMMA AdStepTypes ==
  ASSUME AdTypeOK, CallsAreSound, [AdNext]_adVars
  PROVE  AdTypeOK'
<1>1. CASE UNCHANGED adVars
  BY <1>1 DEF adVars, AdTypeOK
<1>2. ASSUME NEW r \in AdRequests, NEW kind \in AdKinds \ {"none"}, LoadContract(r, kind)
      PROVE  AdTypeOK'
  <2>1. FirstStep[kind] \in AdPc
    BY DEF FirstStep, AdPc, AdKinds
  <2> DEFINE new == [pc |-> FirstStep[kind], kind |-> kind, copy |-> adContract, signs |-> FALSE]
  <2>2. new \in AdCall
    BY <2>1 DEF AdCall, AdTypeOK
  <2>3. adCall' \in [AdRequests -> AdCall]
    BY <1>2, <2>2, SteppedCall DEF LoadContract
  <2> QED  BY <1>2, <2>3 DEF LoadContract, AdTypeOK
<1>3. ASSUME NEW r \in AdRequests, LockForUpdate(r) PROVE AdTypeOK'
  <2>1. adCall' \in [AdRequests -> AdCall]
    BY <1>3, GotoTypes, ReturnTypes, PcsAreThere DEF LockForUpdate
  <2> QED  BY <1>3, <2>1 DEF LockForUpdate, AdTypeOK
<1>4. ASSUME NEW r \in AdRequests, CommitContractUpdate(r) PROVE AdTypeOK'
  BY <1>4, UpdateTypes
<1>5. ASSUME NEW r \in AdRequests, Refresh(r) PROVE AdTypeOK'
  BY <1>5, RefreshTypes
<1>6. ASSUME NEW r \in AdRequests, SyncContract(r) PROVE AdTypeOK'
  BY <1>6, SyncTypes
<1>7. ASSUME NEW r \in AdRequests, CheckRector(r) PROVE AdTypeOK'
  <2>1. adCall' \in [AdRequests -> AdCall]
    BY <1>7, GotoTypes, ReturnTypes, PcsAreThere DEF CheckRector
  <2> QED  BY <1>7, <2>1 DEF CheckRector, AdTypeOK
<1>8. ASSUME NEW r \in AdRequests, BeginSignature(r) PROVE AdTypeOK'
  BY <1>8, BeginTypes
<1>9. ASSUME NEW r \in AdRequests, CompleteSignature(r) PROVE AdTypeOK'
  BY <1>9, CompleteTypes DEF CallsAreSound
<1>10. ASSUME NEW r \in AdRequests, LockForDeletion(r) PROVE AdTypeOK'
  <2>1. adCall' \in [AdRequests -> AdCall]
    BY <1>10, GotoTypes, ReturnTypes, PcsAreThere DEF LockForDeletion
  <2> QED  BY <1>10, <2>1 DEF LockForDeletion, AdTypeOK
<1>11. ASSUME NEW r \in AdRequests, Purge(r) PROVE AdTypeOK'
  <2>1. adCall' \in [AdRequests -> AdCall]
    BY <1>11, GotoTypes, PcsAreThere DEF Purge
  <2> QED  BY <1>11, <2>1 DEF Purge, AdTypeOK
<1>12. ASSUME NEW r \in AdRequests, DeleteContractRecord(r) PROVE AdTypeOK'
  <2>1. adCall' \in [AdRequests -> AdCall]
    BY <1>12, GotoTypes, PcsAreThere DEF DeleteContractRecord
  <2>2. MirrorDeleted \in AdMirrorRow
    BY DEF MirrorDeleted, AdMirrorRow, AdTypeOK
  <2>3. CASE adMirror' = MirrorDeleted /\ UNCHANGED adUnsynced
    BY <1>12, <2>1, <2>2, <2>3 DEF DeleteContractRecord, AdTypeOK
  <2>4. CASE adUnsynced' = adSerial /\ UNCHANGED adMirror
    BY <1>12, <2>1, <2>4 DEF DeleteContractRecord, AdTypeOK
  <2> QED  BY <1>12, <2>3, <2>4 DEF DeleteContractRecord
<1>13. ASSUME NEW r \in AdRequests, CommitDeletion(r) PROVE AdTypeOK'
  <2>1. adCall' \in [AdRequests -> AdCall]
    BY <1>13, ReturnTypes DEF CommitDeletion
  <2> QED  BY <1>13, <2>1, GoneIsRow DEF CommitDeletion, AdTypeOK
<1>14. ASSUME NEW r \in AdRequests, BreakOff(r) PROVE AdTypeOK'
  <2>1. adCall' \in [AdRequests -> AdCall]
    BY <1>14, ReturnTypes DEF BreakOff
  <2>2. adUnsynced' \in BOOLEAN
    BY <1>14 DEF BreakOff
  <2>3. adLock' \in AdRequests \cup {NoAdRequest}
    BY <1>14 DEF BreakOff, AdTypeOK
  <2> QED  BY <1>14, <2>1, <2>2, <2>3 DEF BreakOff, AdTypeOK
<1> QED
  BY <1>1, <1>2, <1>3, <1>4, <1>5, <1>6, <1>7, <1>8, <1>9, <1>10, <1>11, <1>12, <1>13, <1>14
  DEF AdNext

-----------------------------------------------------------------------------
(* What a step leaves of a request that it is not a step of, when it takes *)
(* no signature and keeps the contract's vice rector.                      *)
Grows ==
  /\ adContract'.present => adContract.present
  /\ adContract'.present => adSignatures \subseteq adSignatures'
  /\ adContract'.present =>
       (adContract'.signer["rector"] = "none" <=> adContract.signer["rector"] = "none")

LEMMA OtherIsSound ==
  ASSUME CallsAreSound, Grows, NEW q \in AdRequests, adCall'[q] = adCall[q]
  PROVE  CallIsSound(q)'
<1>1. CallIsSound(q)
  BY DEF CallsAreSound
<1>2. IsReadyToSign(q)'
  BY <1>1 DEF CallIsSound, IsReadyToSign, SignedCopy
<1>3. ASSUME adContract'.present PROVE CallIsBacked(q)' /\ KnowsTheRector(q)'
  <2>1. CallIsBacked(q) /\ KnowsTheRector(q)
    BY <1>1, <1>3 DEF CallIsSound, Grows
  <2>2. KnowsTheRector(q)'
    BY <1>3, <2>1 DEF KnowsTheRector, Grows
  <2>3. CallIsBacked(q)'
    BY <1>3, <2>1 DEF CallIsBacked, Backed, SignedCopy, AllSigned, Grows
  <2> QED  BY <2>2, <2>3
<1> QED  BY <1>2, <1>3 DEF CallIsSound

LEMMA AllAreSound ==
  ASSUME AdTypeOK, CallsAreSound, Grows, NEW r \in AdRequests, CallIsSound(r)',
         \A q \in AdRequests \ {r} : adCall'[q] = adCall[q]
  PROVE  CallsAreSound'
<1> SUFFICES ASSUME NEW q \in AdRequests PROVE CallIsSound(q)'
  BY DEF CallsAreSound
<1>1. CASE q = r
  BY <1>1
<1>2. CASE q # r
  BY <1>2, OtherIsSound
<1> QED  BY <1>1, <1>2

LEMMA ReturnIsSound ==
  ASSUME AdTypeOK, NEW r \in AdRequests, AdReturn(r)
  PROVE  CallIsSound(r)'
<1>1. adCall'[r] = AdIdle
  BY DEF AdTypeOK, AdReturn
<1>2. adCall'[r].pc = "idle" /\ adCall'[r].copy.status = "document_created"
  BY <1>1 DEF AdIdle, AdGone
<1>3. \A p \in AdParties : adCall'[r].copy.signer[p] = "none"
  BY <1>1 DEF AdIdle, AdGone
<1> QED
  BY <1>2, <1>3
  DEF CallIsSound, CallIsBacked, Backed, SignedCopy, KnowsTheRector, IsReadyToSign

(* A step to a place from where nobody signs.                              *)
LEMMA GotoIsSound ==
  ASSUME AdTypeOK, CallsAreSound, Grows, NEW r \in AdRequests, NEW pc \in AdPc, AdGoto(r, pc),
         adCall[r].pc # "idle",
         pc = "check" => adCall[r].kind = "rector",
         pc \in {"begin", "sign"} =>
           /\ adCall[r].kind \in AdParties
           /\ adCall[r].kind = "rector" =>
                /\ SignedCopy(adCall[r].copy, "student")
                /\ adCall[r].copy.signer["rector"] # "none"
  PROVE  CallIsSound(r)'
<1>1. /\ adCall'[r].pc = pc
      /\ adCall'[r].kind = adCall[r].kind
      /\ adCall'[r].copy = adCall[r].copy
  BY DEF AdTypeOK, AdGoto, AdCall
<1>2. IsReadyToSign(r)'
  BY <1>1 DEF IsReadyToSign, SignedCopy
<1>3. ASSUME adContract'.present PROVE CallIsBacked(r)' /\ KnowsTheRector(r)'
  <2>1. CallIsBacked(r) /\ KnowsTheRector(r)
    BY <1>3 DEF CallsAreSound, CallIsSound, Grows
  <2>2. KnowsTheRector(r)'
    BY <1>1, <1>3, <2>1 DEF KnowsTheRector, Grows
  <2>3. CallIsBacked(r)'
    BY <1>1, <1>3, <2>1 DEF CallIsBacked, Backed, SignedCopy, AllSigned, Grows
  <2> QED  BY <2>2, <2>3
<1> QED  BY <1>2, <1>3 DEF CallIsSound

LEMMA GotoFrame ==
  ASSUME AdTypeOK, NEW r \in AdRequests, NEW pc, AdGoto(r, pc)
  PROVE  \A q \in AdRequests \ {r} : adCall'[q] = adCall[q]
BY DEF AdTypeOK, AdGoto

LEMMA ReturnFrame ==
  ASSUME AdTypeOK, NEW r \in AdRequests, AdReturn(r)
  PROVE  \A q \in AdRequests \ {r} : adCall'[q] = adCall[q]
BY DEF AdTypeOK, AdReturn

LEMMA GotoKeeps ==
  ASSUME AdTypeOK, CallsAreSound, Grows, NEW r \in AdRequests, NEW pc \in AdPc, AdGoto(r, pc),
         adCall[r].pc # "idle",
         pc = "check" => adCall[r].kind = "rector",
         pc \in {"begin", "sign"} =>
           /\ adCall[r].kind \in AdParties
           /\ adCall[r].kind = "rector" =>
                /\ SignedCopy(adCall[r].copy, "student")
                /\ adCall[r].copy.signer["rector"] # "none"
  PROVE  CallsAreSound'
<1>1. CallIsSound(r)'
  BY GotoIsSound
<1> QED  BY <1>1, GotoFrame, AllAreSound

LEMMA ReturnKeeps ==
  ASSUME AdTypeOK, CallsAreSound, Grows, NEW r \in AdRequests, AdReturn(r)
  PROVE  CallsAreSound'
<1>1. CallIsSound(r)'
  BY ReturnIsSound
<1> QED  BY <1>1, ReturnFrame, AllAreSound

(* The rest of the invariant does not look at the requests.                *)
Rest == RowIsBacked /\ MirrorIsBacked /\ OrderIsKept

LEMMA RestKept ==
  ASSUME Rest, UNCHANGED <<adContract, adSignatures, adMirror>>
  PROVE  Rest' /\ Grows
<1>1. Grows
  BY DEF Grows
<1>2. RowIsBacked'
  BY DEF Rest, RowIsBacked, Backed, SignedCopy, AllSigned
<1>3. MirrorIsBacked' /\ OrderIsKept'
  BY DEF Rest, MirrorIsBacked, OrderIsKept, AllSigned
<1> QED  BY <1>1, <1>2, <1>3 DEF Rest

Kept == CallsAreSound /\ Rest

(* The steps that only move a request.                                     *)
LEMMA MovesKeep ==
  ASSUME AdTypeOK, Kept, NEW r \in AdRequests,
         \/ LockForUpdate(r)
         \/ CheckRector(r)
         \/ LockForDeletion(r)
         \/ Purge(r)
         \/ BreakOff(r)
  PROVE  Kept'
<1>1. UNCHANGED <<adContract, adSignatures, adMirror>>
  BY DEF LockForUpdate, CheckRector, LockForDeletion, Purge, BreakOff
<1>2. Rest' /\ Grows
  BY <1>1, RestKept DEF Kept
<1>3. CallsAreSound
  BY DEF Kept
<1>4. ASSUME AdReturn(r) PROVE CallsAreSound'
  BY <1>2, <1>3, <1>4, ReturnKeeps
<1>5. CASE LockForUpdate(r)
  <2>1. AdReturn(r) \/ (AdGoto(r, "commit_update") /\ adCall[r].pc = "lock")
    BY <1>5 DEF LockForUpdate, AdAt
  <2>2. CASE AdGoto(r, "commit_update") /\ adCall[r].pc = "lock"
    BY <2>2, <1>2, <1>3, PcsAreThere, GotoKeeps DEF Kept
  <2> QED  BY <2>1, <2>2, <1>2, <1>4 DEF Kept
<1>6. CASE CheckRector(r)
  <2>1. adCall[r].pc = "check" /\ adCall[r].kind = "rector"
    BY <1>6, <1>3 DEF CheckRector, AdAt, CallsAreSound, CallIsSound, IsReadyToSign
  <2>2. AdReturn(r) \/ (AdGoto(r, "begin") /\ RectorMaySign(r))
    BY <1>6 DEF CheckRector
  <2>3. CASE AdGoto(r, "begin") /\ RectorMaySign(r)
    <3>1. /\ SignedCopy(adCall[r].copy, "student")
          /\ adCall[r].copy.signer["rector"] # "none"
      BY <2>3 DEF RectorMaySign, AdCopy
    <3>2. "rector" \in AdParties
      BY DEF AdParties
    <3> QED  BY <2>1, <2>3, <3>1, <3>2, <1>2, <1>3, PcsAreThere, GotoKeeps DEF Kept
  <2> QED  BY <2>2, <2>3, <1>2, <1>4 DEF Kept
<1>7. CASE LockForDeletion(r)
  <2>1. AdReturn(r) \/ (AdGoto(r, "purge") /\ adCall[r].pc = "lock")
    BY <1>7 DEF LockForDeletion, AdAt
  <2>2. CASE AdGoto(r, "purge") /\ adCall[r].pc = "lock"
    BY <2>2, <1>2, <1>3, PcsAreThere, GotoKeeps DEF Kept
  <2> QED  BY <2>1, <2>2, <1>2, <1>4 DEF Kept
<1>8. CASE Purge(r)
  <2>1. AdGoto(r, "delete_mirror") /\ adCall[r].pc = "purge"
    BY <1>8 DEF Purge, AdAt
  <2>2. CallsAreSound'
    BY <2>1, <1>2, <1>3, PcsAreThere, GotoKeeps
  <2> QED  BY <2>2, <1>2 DEF Kept
<1>9. CASE BreakOff(r)
  BY <1>9, <1>2, <1>4 DEF BreakOff, Kept
<1> QED  BY <1>5, <1>6, <1>7, <1>8, <1>9

LEMMA LoadKeeps ==
  ASSUME AdTypeOK, Kept, NEW r \in AdRequests, NEW kind \in AdKinds \ {"none"},
         LoadContract(r, kind)
  PROVE  Kept'
<1>1. Rest' /\ Grows
  BY RestKept DEF LoadContract, Kept
<1>2. /\ adCall'[r].pc = FirstStep[kind]
      /\ adCall'[r].kind = kind
      /\ adCall'[r].copy = adContract
      /\ \A q \in AdRequests \ {r} : adCall'[q] = adCall[q]
  BY DEF LoadContract, AdTypeOK
<1>3. FirstStep[kind] # "check" /\ FirstStep[kind] # "sign"
      /\ (FirstStep[kind] = "begin" => kind = "student")
  BY DEF FirstStep, AdKinds
<1>4. IsReadyToSign(r)'
  BY <1>2, <1>3 DEF IsReadyToSign, AdParties
<1>5. adContract' = adContract /\ adSignatures' = adSignatures
  BY DEF LoadContract
<1>6. ASSUME adContract'.present PROVE CallIsBacked(r)' /\ KnowsTheRector(r)'
  <2>1. Backed(adContract) /\ (adContract.status = "completed" => AllSigned)
    BY <1>5, <1>6 DEF Kept, Rest, RowIsBacked
  <2>2. CallIsBacked(r)'
    BY <1>2, <1>5, <2>1 DEF CallIsBacked, Backed, SignedCopy, AllSigned
  <2>3. KnowsTheRector(r)'
    BY <1>2, <1>5 DEF KnowsTheRector
  <2> QED  BY <2>2, <2>3
<1>7. CallIsSound(r)'
  BY <1>4, <1>6 DEF CallIsSound
<1>8. CallsAreSound'
  BY <1>1, <1>2, <1>7, AllAreSound DEF Kept
<1> QED  BY <1>1, <1>8 DEF Kept

LEMMA UpdateKeeps ==
  ASSUME AdTypeOK, Kept, NEW r \in AdRequests, CommitContractUpdate(r)
  PROVE  Kept'
<1>1. /\ adContract'.present = adContract.present
      /\ adContract'.signer = adContract.signer
      /\ adContract'.status = "document_created"
      /\ adSignatures' = adSignatures
      /\ adMirror' = adMirror
  BY DEF CommitContractUpdate, AdTypeOK, AdContractRow
<1>2. Grows
  BY <1>1 DEF Grows
<1>3. Rest'
  <2>1. RowIsBacked'
    BY <1>1 DEF Kept, Rest, RowIsBacked, Backed, SignedCopy
  <2>2. MirrorIsBacked'
    BY <1>1 DEF Kept, Rest, MirrorIsBacked, AllSigned
  <2>3. OrderIsKept'
    BY <1>1 DEF Kept, Rest, OrderIsKept
  <2> QED  BY <2>1, <2>2, <2>3 DEF Rest
<1>4. /\ adCall'[r].pc = "sync"
      /\ adCall'[r].copy = adContract'
      /\ \A q \in AdRequests \ {r} : adCall'[q] = adCall[q]
  BY DEF CommitContractUpdate, AdTypeOK, AdCall
<1>5. IsReadyToSign(r)'
  BY <1>4 DEF IsReadyToSign
<1>6. ASSUME adContract'.present PROVE CallIsBacked(r)' /\ KnowsTheRector(r)'
  <2>1. Backed(adContract)
    BY <1>1, <1>6 DEF Kept, Rest, RowIsBacked
  <2>2. CallIsBacked(r)'
    BY <1>1, <1>4, <2>1 DEF CallIsBacked, Backed, SignedCopy
  <2>3. KnowsTheRector(r)'
    BY <1>4 DEF KnowsTheRector
  <2> QED  BY <2>2, <2>3
<1>7. CallIsSound(r)'
  BY <1>5, <1>6 DEF CallIsSound
<1>8. CallsAreSound'
  BY <1>2, <1>4, <1>7, AllAreSound DEF Kept
<1> QED  BY <1>3, <1>8 DEF Kept

(* COMPLETED is refreshed only from a copy in which everybody has signed.  *)
LEMMA RefreshedWhenSigned ==
  ASSUME AdTypeOK, Kept, NEW r \in AdRequests, AdAt(r, "refresh"), adContract.present,
         RefreshedFrom(AdCopy(r)) = "completed"
  PROVE  AllSigned
<1>1. /\ SignedCopy(AdCopy(r), "student")
      /\ AdCopy(r).signer["rector"] \in {"signed", "none"}
  BY DEF RefreshedFrom
<1>2. CallIsBacked(r) /\ KnowsTheRector(r)
  BY DEF Kept, CallsAreSound, CallIsSound
<1>3. "student" \in adSignatures
  BY <1>1, <1>2 DEF CallIsBacked, Backed, AdParties, AdCopy
<1>4. CASE AdCopy(r).signer["rector"] = "signed"
  <2>1. SignedCopy(adCall[r].copy, "rector")
    BY <1>4 DEF SignedCopy, AdCopy
  <2>2. "rector" \in adSignatures
    BY <1>2, <2>1 DEF CallIsBacked, Backed, AdParties
  <2> QED  BY <1>3, <2>2 DEF AllSigned
<1>5. CASE AdCopy(r).signer["rector"] = "none"
  <2>1. adContract.signer["rector"] = "none"
    BY <1>2, <1>5 DEF KnowsTheRector, AdCopy, AdAt
  <2> QED  BY <1>3, <2>1 DEF AllSigned
<1> QED  BY <1>1, <1>4, <1>5

LEMMA RefreshKeeps ==
  ASSUME AdTypeOK, Kept, NEW r \in AdRequests, Refresh(r)
  PROVE  Kept'
<1>1. CASE ~adContract.present
  <2>1. Rest' /\ Grows
    BY <1>1, RestKept DEF Refresh, Kept
  <2> QED  BY <1>1, <2>1, ReturnKeeps DEF Refresh, Kept
<1>2. CASE adContract.present
  <2> DEFINE status == RefreshedFrom(AdCopy(r))
  <2>1. /\ adContract' = [adContract EXCEPT !.status = status]
        /\ adSignatures' = adSignatures
        /\ adMirror' = adMirror
    BY <1>2 DEF Refresh
  <2>2. /\ adContract'.present = adContract.present
        /\ adContract'.signer = adContract.signer
        /\ adContract'.status = status
    BY <2>1 DEF AdTypeOK, AdContractRow
  <2>3. status = "completed" => AllSigned
    BY <1>2, RefreshedWhenSigned DEF Refresh
  <2>4. AllSigned => AllSigned'
    BY <2>1, <2>2 DEF AllSigned
  <2>5. Grows
    BY <2>1, <2>2 DEF Grows
  <2>6. Rest'
    <3>1. RowIsBacked'
      BY <1>2, <2>1, <2>2, <2>3, <2>4 DEF Kept, Rest, RowIsBacked, Backed, SignedCopy
    <3>2. MirrorIsBacked'
      BY <2>1, <2>2, <2>4 DEF Kept, Rest, MirrorIsBacked
    <3>3. OrderIsKept'
      BY <2>1 DEF Kept, Rest, OrderIsKept
    <3> QED  BY <3>1, <3>2, <3>3 DEF Rest
  <2>7. \A q \in AdRequests \ {r} : adCall'[q] = adCall[q]
    BY <1>2 DEF Refresh, AdTypeOK
  <2>8. /\ adCall'[r].pc = "sync"
        /\ adCall'[r].copy.status = status
        /\ adCall'[r].copy.signer = adCall[r].copy.signer
    BY <1>2 DEF Refresh, AdTypeOK, AdCall, AdContractRow
  <2>9. IsReadyToSign(r)'
    BY <2>8 DEF IsReadyToSign
  <2>10. CallIsBacked(r) /\ KnowsTheRector(r)
    BY <1>2 DEF Kept, CallsAreSound, CallIsSound
  <2>11. CallIsBacked(r)'
    BY <2>1, <2>3, <2>4, <2>8, <2>10 DEF CallIsBacked, Backed, SignedCopy
  <2>12. KnowsTheRector(r)'
    BY <2>2, <2>8, <2>10 DEF KnowsTheRector, Refresh, AdAt
  <2>13. CallsAreSound'
    BY <2>5, <2>7, <2>9, <2>11, <2>12, AllAreSound DEF Kept, CallIsSound
  <2> QED  BY <2>6, <2>13 DEF Kept
<1> QED  BY <1>1, <1>2

LEMMA SyncKeeps ==
  ASSUME AdTypeOK, Kept, NEW r \in AdRequests, SyncContract(r)
  PROVE  Kept'
<1>1. adContract' = adContract /\ adSignatures' = adSignatures
  BY DEF SyncContract
<1>2. Grows
  BY <1>1 DEF Grows
<1>3. adCall[r].pc \in {"sync", "last_sync"}
  BY DEF SyncContract, AdAt
<1>4. Rest'
  <2>1. ASSUME adContract'.present, adMirror'.status = "completed" PROVE AllSigned'
    <3>1. CASE adMirror' = Mirrored(r)
      <4>1. adCall[r].copy.status = "completed"
        BY <2>1, <3>1 DEF Mirrored, MirrorOf, AdCopy
      <4>2. CallIsBacked(r)
        BY <1>1, <2>1 DEF Kept, CallsAreSound, CallIsSound
      <4> QED  BY <1>1, <4>1, <4>2 DEF CallIsBacked, AllSigned
    <3>2. CASE UNCHANGED adMirror
      BY <1>1, <2>1, <3>2 DEF Kept, Rest, MirrorIsBacked, AllSigned
    <3> QED  BY <3>1, <3>2 DEF SyncContract
  <2>2. MirrorIsBacked'
    BY <2>1 DEF MirrorIsBacked
  <2>3. RowIsBacked'
    BY <1>1 DEF Kept, Rest, RowIsBacked, Backed, SignedCopy, AllSigned
  <2>4. OrderIsKept'
    BY <1>1 DEF Kept, Rest, OrderIsKept
  <2> QED  BY <2>2, <2>3, <2>4 DEF Rest
<1>5. CASE AdReturn(r)
  BY <1>2, <1>4, <1>5, ReturnKeeps DEF Kept
<1>6. CASE AdGoto(r, AfterSync(r)) /\ AfterSync(r) # "idle"
  <2>1. CASE AfterSync(r) = "check"
    <3>1. adCall[r].kind = "rector"
      BY <2>1 DEF AfterSync, AdKind
    <3>2. CallsAreSound'
      BY <1>2, <1>3, <1>6, <2>1, <3>1, PcsAreThere, GotoKeeps DEF Kept
    <3> QED  BY <1>4, <3>2 DEF Kept
  <2>2. CASE AfterSync(r) = "last_sync"
    <3>1. CallsAreSound'
      BY <1>2, <1>3, <1>6, <2>2, PcsAreThere, GotoKeeps DEF Kept
    <3> QED  BY <1>4, <3>1 DEF Kept
  <2> QED  BY <1>6, <2>1, <2>2 DEF AfterSync
<1> QED  BY <1>5, <1>6 DEF SyncContract

(* A signer marked "started" was not signed before, and is not now.        *)
LEMMA BeginKeeps ==
  ASSUME AdTypeOK, Kept, NEW r \in AdRequests, BeginSignature(r)
  PROVE  Kept'
<1>1. CASE ~adContract.present
  <2>1. Rest' /\ Grows
    BY <1>1, RestKept DEF BeginSignature, Kept
  <2> QED  BY <1>1, <2>1, ReturnKeeps DEF BeginSignature, Kept
<1>2. CASE adContract.present
  <2>1. /\ adContract' = [adContract EXCEPT !.signer[Party(r)] = "started"]
        /\ AdGoto(r, "sign")
        /\ adSignatures' = adSignatures
        /\ adMirror' = adMirror
        /\ adCall[r].pc = "begin"
    BY <1>2 DEF BeginSignature, AdAt
  <2>2. CallIsBacked(r) /\ KnowsTheRector(r) /\ IsReadyToSign(r)
    BY <1>2 DEF Kept, CallsAreSound, CallIsSound
  <2>3. /\ Party(r) \in AdParties
        /\ Party(r) = "rector" => adContract.signer["rector"] # "none"
    BY <2>1, <2>2 DEF IsReadyToSign, KnowsTheRector, Party, AdKind
  <2> DEFINE signer == [adContract.signer EXCEPT ![Party(r)] = "started"]
  <2>4. adContract.signer \in [AdParties -> AdSignerStatus] /\ adContract \in AdContractRow
    BY DEF AdTypeOK, AdContractRow
  <2>5. /\ adContract'.present = adContract.present
        /\ adContract'.signer = signer
        /\ adContract'.status = adContract.status
    BY <2>1, <2>4 DEF AdContractRow
  <2>6. signer["rector"] = "none" <=> adContract.signer["rector"] = "none"
    BY <2>3, <2>4 DEF AdParties
  <2>7. \A p \in AdParties : signer[p] = "signed" => adContract.signer[p] = "signed"
    BY <2>3, <2>4
  <2> HIDE DEF signer
  <2>8. Grows
    BY <2>1, <2>5, <2>6 DEF Grows
  <2>9. AllSigned <=> AllSigned'
    BY <2>1, <2>5, <2>6 DEF AllSigned
  <2>10. Rest'
    <3>1. RowIsBacked'
      BY <1>2, <2>1, <2>5, <2>7, <2>9 DEF Kept, Rest, RowIsBacked, Backed, SignedCopy
    <3>2. MirrorIsBacked'
      BY <2>1, <2>5, <2>9 DEF Kept, Rest, MirrorIsBacked
    <3>3. OrderIsKept'
      BY <2>1 DEF Kept, Rest, OrderIsKept
    <3> QED  BY <3>1, <3>2, <3>3 DEF Rest
  <2>11. CallsAreSound'
    <3>1. adCall[r].pc # "idle"
      BY <2>1
    <3>2. /\ adCall[r].kind \in AdParties
          /\ adCall[r].kind = "rector" =>
               /\ SignedCopy(adCall[r].copy, "student")
               /\ adCall[r].copy.signer["rector"] # "none"
      BY <2>1, <2>2 DEF IsReadyToSign
    <3> QED  BY <2>1, <2>8, <3>1, <3>2, PcsAreThere, GotoKeeps DEF Kept
  <2> QED  BY <2>10, <2>11 DEF Kept
<1> QED  BY <1>1, <1>2

(* The vice rector signs from a copy in which the applicant is signed; the *)
(* copy is backed by a signature, so the order is kept.                    *)
LEMMA CompleteKeeps ==
  ASSUME AdTypeOK, Kept, NEW r \in AdRequests, CompleteSignature(r)
  PROVE  Kept'
<1>1. CASE ~(adContract.present /\ Party(r) \notin adSignatures)
  <2>1. Rest' /\ Grows
    BY <1>1, RestKept DEF CompleteSignature, Kept
  <2> QED  BY <1>1, <2>1, ReturnKeeps DEF CompleteSignature, Kept
<1>2. CASE adContract.present /\ Party(r) \notin adSignatures
  <2>1. /\ adSignatures' = adSignatures \cup {Party(r)}
        /\ adContract' = [adContract EXCEPT !.signer[Party(r)] = "signed"]
        /\ adCall' = [adCall EXCEPT ![r].pc = "refresh", ![r].signs = TRUE,
                                    ![r].copy.signer[Party(r)] = "signed"]
        /\ adMirror' = adMirror
        /\ adCall[r].pc = "sign"
    BY <1>2 DEF CompleteSignature, AdAt
  <2>2. CallIsBacked(r) /\ KnowsTheRector(r) /\ IsReadyToSign(r)
    BY <1>2 DEF Kept, CallsAreSound, CallIsSound
  <2>3. /\ Party(r) \in AdParties
        /\ Party(r) = "rector" =>
             /\ SignedCopy(adCall[r].copy, "student")
             /\ adCall[r].copy.signer["rector"] # "none"
             /\ adContract.signer["rector"] # "none"
    BY <2>1, <2>2 DEF IsReadyToSign, KnowsTheRector, Party, AdKind
  <2>4. Party(r) = "rector" => "student" \in adSignatures
    BY <2>2, <2>3 DEF CallIsBacked, Backed, AdParties
  <2> DEFINE signer == [adContract.signer EXCEPT ![Party(r)] = "signed"]
             copied == [adCall[r].copy.signer EXCEPT ![Party(r)] = "signed"]
  <2>5. /\ adContract.signer \in [AdParties -> AdSignerStatus]
        /\ adContract \in AdContractRow
        /\ adCall[r] \in AdCall
    BY DEF AdTypeOK, AdContractRow
  <2>6. adCall[r].copy \in AdContractRow /\ adCall[r].copy.signer \in [AdParties -> AdSignerStatus]
    BY <2>5 DEF AdCall, AdContractRow
  <2>7. /\ adContract'.present = adContract.present
        /\ adContract'.signer = signer
        /\ adContract'.status = adContract.status
    BY <2>1, <2>5 DEF AdContractRow
  <2>8. \A q \in AdRequests \ {r} : adCall'[q] = adCall[q]
    BY <2>1 DEF AdTypeOK
  <2>9. adCall'[r].pc = "refresh"
    BY <2>1, <2>5 DEF AdTypeOK, AdCall
  <2>10. /\ adCall'[r].copy.signer = copied
         /\ adCall'[r].copy.status = adCall[r].copy.status
    BY <2>1, <2>5, <2>6 DEF AdTypeOK, AdCall, AdContractRow
  <2>11. signer["rector"] = "none" <=> adContract.signer["rector"] = "none"
    BY <2>3, <2>5 DEF AdParties
  <2>12. copied["rector"] = "none" <=> adCall[r].copy.signer["rector"] = "none"
    BY <2>3, <2>6 DEF AdParties
  <2>13. \A p \in AdParties : signer[p] = "signed" => adContract.signer[p] = "signed" \/ p = Party(r)
    BY <2>3, <2>5
  <2>14. \A p \in AdParties : copied[p] = "signed" => adCall[r].copy.signer[p] = "signed" \/ p = Party(r)
    BY <2>3, <2>6
  <2> HIDE DEF signer, copied
  <2>15. Grows
    BY <2>1, <2>7, <2>11 DEF Grows
  <2>16. AllSigned => AllSigned'
    BY <2>1, <2>7, <2>11 DEF AllSigned
  <2>17. Rest'
    <3>1. RowIsBacked'
      BY <1>2, <2>1, <2>7, <2>13, <2>16 DEF Kept, Rest, RowIsBacked, Backed, SignedCopy
    <3>2. MirrorIsBacked'
      BY <2>1, <2>7, <2>16 DEF Kept, Rest, MirrorIsBacked
    <3>3. OrderIsKept'
      BY <2>1, <2>4 DEF Kept, Rest, OrderIsKept
    <3> QED  BY <3>1, <3>2, <3>3 DEF Rest
  <2>18. CallIsBacked(r)'
    BY <2>1, <2>2, <2>10, <2>14, <2>16 DEF CallIsBacked, Backed, SignedCopy
  <2>19. KnowsTheRector(r)'
    BY <2>1, <2>2, <2>7, <2>10, <2>11, <2>12 DEF KnowsTheRector
  <2>20. IsReadyToSign(r)'
    BY <2>9 DEF IsReadyToSign
  <2>21. CallIsSound(r)'
    BY <2>18, <2>19, <2>20 DEF CallIsSound
  <2>22. CallsAreSound'
    BY <2>8, <2>15, <2>21, AllAreSound DEF Kept
  <2> QED  BY <2>17, <2>22 DEF Kept
<1> QED  BY <1>1, <1>2

LEMMA DeleteRecordKeeps ==
  ASSUME AdTypeOK, Kept, NEW r \in AdRequests, DeleteContractRecord(r)
  PROVE  Kept'
<1>1. /\ adContract' = adContract
      /\ adSignatures' = adSignatures
      /\ AdGoto(r, "commit_delete")
      /\ adCall[r].pc = "delete_mirror"
  BY DEF DeleteContractRecord, AdAt
<1>2. adMirror'.status = adMirror.status
  BY DEF DeleteContractRecord, MirrorDeleted, AdTypeOK, AdMirrorRow
<1>3. Grows
  BY <1>1 DEF Grows
<1>4. RowIsBacked'
  BY <1>1 DEF Kept, Rest, RowIsBacked, Backed, SignedCopy, AllSigned
<1>5. MirrorIsBacked'
  BY <1>1, <1>2 DEF Kept, Rest, MirrorIsBacked, AllSigned
<1>6. OrderIsKept'
  BY <1>1 DEF Kept, Rest, OrderIsKept
<1>7. CallsAreSound'
  BY <1>1, <1>3, PcsAreThere, GotoKeeps DEF Kept
<1> QED  BY <1>4, <1>5, <1>6, <1>7 DEF Kept, Rest

LEMMA CommitDeletionKeeps ==
  ASSUME AdTypeOK, Kept, NEW r \in AdRequests, CommitDeletion(r)
  PROVE  Kept'
<1>1. /\ ~adContract'.present
      /\ adSignatures' = {}
      /\ AdReturn(r)
  BY DEF CommitDeletion, AdGone
<1>2. Grows
  BY <1>1 DEF Grows
<1>3. Rest'
  BY <1>1 DEF Rest, RowIsBacked, MirrorIsBacked, OrderIsKept
<1>4. CallsAreSound'
  BY <1>1, <1>2, ReturnKeeps DEF Kept
<1> QED  BY <1>3, <1>4 DEF Kept

-----------------------------------------------------------------------------
LEMMA InitKept == AdInit => Kept
<1> SUFFICES ASSUME AdInit PROVE Kept
  OBVIOUS
<1>1. /\ adContract.status = "student_signing"
      /\ \A p \in AdParties : adContract.signer[p] # "signed"
  BY DEF AdInit, AdParties
<1>2. adSignatures = {} /\ adMirror.status = "student_signing"
  BY <1>1 DEF AdInit, MirrorOf
<1>3. Rest
  BY <1>1, <1>2 DEF Rest, RowIsBacked, Backed, SignedCopy, MirrorIsBacked, OrderIsKept
<1>4. ASSUME NEW r \in AdRequests PROVE CallIsSound(r)
  <2>1. /\ adCall[r].pc = "idle"
        /\ adCall[r].copy.status = "document_created"
        /\ \A p \in AdParties : adCall[r].copy.signer[p] = "none"
    BY DEF AdInit, AdIdle, AdGone
  <2> QED
    BY <2>1 DEF CallIsSound, CallIsBacked, Backed, SignedCopy, KnowsTheRector, IsReadyToSign
<1> QED  BY <1>3, <1>4 DEF Kept, CallsAreSound

LEMMA StepKept ==
  ASSUME AdTypeOK, Kept, [AdNext]_adVars
  PROVE  Kept'
<1>1. CASE UNCHANGED adVars
  <2>1. Rest' /\ Grows
    BY <1>1, RestKept DEF adVars, Kept
  <2>2. CallsAreSound'
    BY <1>1, <2>1, OtherIsSound DEF adVars, Kept, CallsAreSound
  <2> QED  BY <2>1, <2>2 DEF Kept
<1>2. ASSUME NEW r \in AdRequests, NEW kind \in AdKinds \ {"none"}, LoadContract(r, kind)
      PROVE  Kept'
  BY <1>2, LoadKeeps
<1>3. ASSUME NEW r \in AdRequests,
             \/ LockForUpdate(r) \/ CheckRector(r) \/ LockForDeletion(r)
             \/ Purge(r) \/ BreakOff(r)
      PROVE  Kept'
  BY <1>3, MovesKeep
<1>4. ASSUME NEW r \in AdRequests, CommitContractUpdate(r) PROVE Kept'
  BY <1>4, UpdateKeeps
<1>5. ASSUME NEW r \in AdRequests, Refresh(r) PROVE Kept'
  BY <1>5, RefreshKeeps
<1>6. ASSUME NEW r \in AdRequests, SyncContract(r) PROVE Kept'
  BY <1>6, SyncKeeps
<1>7. ASSUME NEW r \in AdRequests, BeginSignature(r) PROVE Kept'
  BY <1>7, BeginKeeps
<1>8. ASSUME NEW r \in AdRequests, CompleteSignature(r) PROVE Kept'
  BY <1>8, CompleteKeeps
<1>9. ASSUME NEW r \in AdRequests, DeleteContractRecord(r) PROVE Kept'
  BY <1>9, DeleteRecordKeeps
<1>10. ASSUME NEW r \in AdRequests, CommitDeletion(r) PROVE Kept'
  BY <1>10, CommitDeletionKeeps
<1> QED
  BY <1>1, <1>2, <1>3, <1>4, <1>5, <1>6, <1>7, <1>8, <1>9, <1>10 DEF AdNext

(* AdInv is inductive.                                                     *)
THEOREM AdmissionsInvariant == AdSpec => []AdInv
<1>1. AdInit => AdInv
  BY AdInitTypes, InitKept DEF AdInv, Kept, Rest
<1>2. AdInv /\ [AdNext]_adVars => AdInv'
  <2> SUFFICES ASSUME AdInv, [AdNext]_adVars PROVE AdInv'
    OBVIOUS
  <2>1. AdTypeOK /\ Kept /\ CallsAreSound
    BY DEF AdInv, Kept, Rest
  <2>2. AdTypeOK'
    BY <2>1, AdStepTypes
  <2>3. Kept'
    BY <2>1, StepKept
  <2> QED  BY <2>2, <2>3 DEF AdInv, Kept, Rest
<1> QED  BY <1>1, <1>2, PTL DEF AdSpec

(* The contract, its mirror and the requests stay well formed.             *)
THEOREM AdmissionsTypeCorrect == AdSpec => []AdTypeOK
<1>1. AdInv => AdTypeOK
  BY DEF AdInv
<1> QED  BY <1>1, AdmissionsInvariant, PTL

(* The vice rector's signature comes after the applicant's, and neither    *)
(* the row nor the mirror is COMPLETED before everybody has signed, however*)
(* many requests overlap (admissions/views.py:1240-1250).                  *)
THEOREM ContractsAreSignedInOrder == AdSpec => []SignedInOrder
<1>1. AdInv => SignedInOrder
  BY DEF AdInv, OrderIsKept, RowIsBacked, MirrorIsBacked, AllSigned, SignedInOrder
<1> QED  BY <1>1, AdmissionsInvariant, PTL

-----------------------------------------------------------------------------
(***************************************************************************)
(* The contract implements AdmissionContract.                              *)
(***************************************************************************)
(* Nothing is left of a contract that is gone.                             *)
GoneIsUnsigned == ~adContract.present => adSignatures = {}

PromiseInv == AdInv /\ GoneIsUnsigned

(* A step that sets no signature, deletes nothing and keeps the contract's *)
(* vice rector is one of the contract's words, or a stutter.               *)
LEMMA SameSignatures ==
  ASSUME AdInv, AdInv', adSignatures' = adSignatures,
         adContract'.present = adContract.present,
         adContract.present =>
           (adContract'.signer["rector"] = "none" <=> adContract.signer["rector"] = "none")
  PROVE  [Promise!CallComplete]_(Promise!contract)
<1>1. Countersigned' = Countersigned
  BY DEF Countersigned
<1>2. CalledComplete \in BOOLEAN /\ CalledComplete' \in BOOLEAN
  BY DEF CalledComplete
<1>3. CASE adContract.present
  <2>1. CalledComplete' => Promise!Required \subseteq adSignatures
    <3> SUFFICES ASSUME CalledComplete' PROVE Promise!Required \subseteq adSignatures
      OBVIOUS
    <3>1. AllSigned'
      BY <1>3 DEF CalledComplete, AdInv, RowIsBacked, MirrorIsBacked
    <3>2. "student" \in adSignatures
      BY <3>1 DEF AllSigned
    <3>3. CASE Countersigned
      <4>1. "rector" \in adSignatures
        BY <3>1, <3>3, <1>3 DEF AllSigned, Countersigned
      <4> QED  BY <3>2, <3>3, <4>1 DEF Promise!Required
    <3>4. CASE ~Countersigned
      BY <3>2, <3>4 DEF Promise!Required
    <3> QED  BY <3>3, <3>4
  <2> QED  BY <1>1, <1>2, <1>3, <2>1 DEF Promise!CallComplete
<1>4. CASE ~adContract.present
  <2>1. CalledComplete' = CalledComplete
    BY <1>4 DEF CalledComplete
  <2> QED  BY <1>1, <2>1 DEF Promise!contract
<1> QED  BY <1>3, <1>4

(* A completion that commits a signature seals the contract for its party. *)
LEMMA CompleteSeals ==
  ASSUME AdInv, NEW r \in AdRequests, CompleteSignature(r), adContract.present,
         Party(r) \notin adSignatures
  PROVE  Promise!Next
<1>1. /\ adSignatures' = adSignatures \cup {Party(r)}
      /\ adContract' = [adContract EXCEPT !.signer[Party(r)] = "signed"]
      /\ adMirror' = adMirror
      /\ adCall[r].pc = "sign"
  BY DEF CompleteSignature, AdAt
<1>2. CallIsBacked(r) /\ KnowsTheRector(r) /\ IsReadyToSign(r)
  BY DEF AdInv, CallsAreSound, CallIsSound
<1>3. /\ Party(r) \in AdParties
      /\ Party(r) = "rector" =>
           /\ SignedCopy(adCall[r].copy, "student")
           /\ adContract.signer["rector"] # "none"
  BY <1>1, <1>2 DEF IsReadyToSign, KnowsTheRector, Party, AdKind
<1>4. Party(r) = "rector" => "student" \in adSignatures /\ Countersigned
  BY <1>2, <1>3 DEF CallIsBacked, Backed, AdParties, Countersigned
<1>5. adContract.signer \in [AdParties -> AdSignerStatus] /\ adContract \in AdContractRow
  BY DEF AdInv, AdTypeOK, AdContractRow
<1> DEFINE signer == [adContract.signer EXCEPT ![Party(r)] = "signed"]
<1>6. /\ adContract'.present = adContract.present
      /\ adContract'.signer = signer
      /\ adContract'.status = adContract.status
  BY <1>1, <1>5 DEF AdContractRow
<1>7. signer["rector"] = "none" <=> adContract.signer["rector"] = "none"
  BY <1>3, <1>5 DEF AdParties
<1> HIDE DEF signer
<1>8. Countersigned' = Countersigned /\ CalledComplete' = CalledComplete
  BY <1>1, <1>6, <1>7 DEF Countersigned, CalledComplete
<1>9. Party(r) \in {"student", "rector"} /\ Party(r) \in Promise!Required
  BY <1>3, <1>4 DEF AdParties, Promise!Required
<1>10. Promise!Seal(Party(r))
  BY <1>1, <1>4, <1>6, <1>8, <1>9 DEF Promise!Seal
<1> QED  BY <1>9, <1>10 DEF Promise!Next

(* A deletion withdraws the contract; the second of two finds it gone.     *)
LEMMA DeletionWithdraws ==
  ASSUME PromiseInv, NEW r \in AdRequests, CommitDeletion(r)
  PROVE  [Promise!Next]_(Promise!contract)
<1>1. ~adContract'.present /\ adContract'.present = FALSE /\ adSignatures' = {}
  BY DEF CommitDeletion, AdGone
<1>2. Countersigned' = FALSE /\ CalledComplete' = FALSE
  BY <1>1 DEF Countersigned, CalledComplete
<1>3. CASE adContract.present
  BY <1>1, <1>2, <1>3 DEF Promise!Next, Promise!Withdraw
<1>4. CASE ~adContract.present
  <2>1. adSignatures = {}
    BY <1>4 DEF PromiseInv, GoneIsUnsigned
  <2>2. Countersigned = FALSE /\ CalledComplete = FALSE
    BY <1>4 DEF Countersigned, CalledComplete
  <2>3. adContract.present = FALSE
    BY <1>4 DEF PromiseInv, AdInv, AdTypeOK, AdContractRow
  <2> QED  BY <1>1, <1>2, <2>1, <2>2, <2>3 DEF Promise!contract
<1> QED  BY <1>3, <1>4

(* What every other step leaves of the row.                                *)
SignaturesRest ==
  /\ adSignatures' = adSignatures
  /\ adContract'.present = adContract.present
  /\ adContract.present =>
       (adContract'.signer["rector"] = "none" <=> adContract.signer["rector"] = "none")

LEMMA OtherStepsRest ==
  ASSUME AdInv, NEW r \in AdRequests,
         \/ \E kind \in AdKinds \ {"none"} : LoadContract(r, kind)
         \/ LockForUpdate(r) \/ CommitContractUpdate(r)
         \/ Refresh(r) \/ SyncContract(r)
         \/ CheckRector(r) \/ BeginSignature(r)
         \/ LockForDeletion(r) \/ Purge(r) \/ DeleteContractRecord(r)
         \/ BreakOff(r)
  PROVE  SignaturesRest
<1>1. adContract \in AdContractRow
  BY DEF AdInv, AdTypeOK
<1>2. CASE adContract' = adContract /\ adSignatures' = adSignatures
  BY <1>2 DEF SignaturesRest
<1>3. CASE CommitContractUpdate(r)
  <2>1. /\ adContract'.present = adContract.present
        /\ adContract'.signer = adContract.signer
    BY <1>1, <1>3 DEF CommitContractUpdate, AdContractRow
  <2> QED  BY <1>3, <2>1 DEF CommitContractUpdate, SignaturesRest
<1>4. CASE Refresh(r)
  <2>1. /\ adContract'.present = adContract.present
        /\ adContract'.signer = adContract.signer
    BY <1>1, <1>4 DEF Refresh, AdContractRow
  <2> QED  BY <1>4, <2>1 DEF Refresh, SignaturesRest
<1>5. CASE BeginSignature(r) /\ adContract.present
  <2>1. /\ adContract' = [adContract EXCEPT !.signer[Party(r)] = "started"]
        /\ adSignatures' = adSignatures
        /\ adCall[r].pc = "begin"
    BY <1>5 DEF BeginSignature, AdAt
  <2>2. KnowsTheRector(r) /\ IsReadyToSign(r)
    BY <1>5 DEF AdInv, CallsAreSound, CallIsSound
  <2>3. /\ Party(r) \in AdParties
        /\ Party(r) = "rector" => adContract.signer["rector"] # "none"
    BY <2>1, <2>2 DEF IsReadyToSign, KnowsTheRector, Party, AdKind
  <2> DEFINE signer == [adContract.signer EXCEPT ![Party(r)] = "started"]
  <2>4. adContract.signer \in [AdParties -> AdSignerStatus]
    BY <1>1 DEF AdContractRow
  <2>5. adContract'.present = adContract.present /\ adContract'.signer = signer
    BY <1>1, <2>1 DEF AdContractRow
  <2>6. signer["rector"] = "none" <=> adContract.signer["rector"] = "none"
    BY <2>3, <2>4 DEF AdParties
  <2> HIDE DEF signer
  <2> QED  BY <2>1, <2>5, <2>6 DEF SignaturesRest
<1> QED
  BY <1>2, <1>3, <1>4, <1>5
  DEF LoadContract, LockForUpdate, SyncContract, CheckRector, BeginSignature,
      LockForDeletion, Purge, DeleteContractRecord, BreakOff

LEMMA GoneStaysUnsigned ==
  ASSUME PromiseInv, [AdNext]_adVars
  PROVE  GoneIsUnsigned'
<1>1. CASE UNCHANGED adVars
  BY <1>1 DEF adVars, PromiseInv, GoneIsUnsigned
<1>2. ASSUME NEW r \in AdRequests, CompleteSignature(r) PROVE GoneIsUnsigned'
  <2>1. adContract \in AdContractRow
    BY DEF PromiseInv, AdInv, AdTypeOK
  <2>2. CASE adContract.present /\ Party(r) \notin adSignatures
    <3>1. adContract'.present
      BY <1>2, <2>1, <2>2 DEF CompleteSignature, AdContractRow
    <3> QED  BY <3>1 DEF GoneIsUnsigned
  <2>3. CASE ~(adContract.present /\ Party(r) \notin adSignatures)
    BY <1>2, <2>3 DEF CompleteSignature, PromiseInv, GoneIsUnsigned
  <2> QED  BY <2>2, <2>3
<1>3. ASSUME NEW r \in AdRequests, CommitDeletion(r) PROVE GoneIsUnsigned'
  BY <1>3 DEF CommitDeletion, GoneIsUnsigned
<1>4. ASSUME SignaturesRest PROVE GoneIsUnsigned'
  BY <1>4 DEF SignaturesRest, PromiseInv, GoneIsUnsigned
<1> QED
  BY <1>1, <1>2, <1>3, <1>4, OtherStepsRest DEF AdNext, PromiseInv

LEMMA StepKeepsPromise ==
  ASSUME PromiseInv, AdInv', [AdNext]_adVars
  PROVE  [Promise!Next]_(Promise!contract)
<1>1. CASE UNCHANGED adVars
  BY <1>1 DEF adVars, Promise!contract, Countersigned, CalledComplete
<1>2. ASSUME NEW r \in AdRequests, CompleteSignature(r)
      PROVE  [Promise!Next]_(Promise!contract)
  <2>1. CASE adContract.present /\ Party(r) \notin adSignatures
    BY <1>2, <2>1, CompleteSeals DEF PromiseInv
  <2>2. CASE ~(adContract.present /\ Party(r) \notin adSignatures)
    <3>1. UNCHANGED <<adContract, adSignatures, adMirror>>
      BY <1>2, <2>2 DEF CompleteSignature
    <3> QED  BY <3>1 DEF Promise!contract, Countersigned, CalledComplete
  <2> QED  BY <2>1, <2>2
<1>3. ASSUME NEW r \in AdRequests, CommitDeletion(r)
      PROVE  [Promise!Next]_(Promise!contract)
  BY <1>3, DeletionWithdraws
<1>4. ASSUME SignaturesRest PROVE [Promise!Next]_(Promise!contract)
  <2>1. [Promise!CallComplete]_(Promise!contract)
    BY <1>4, SameSignatures DEF SignaturesRest, PromiseInv
  <2> QED  BY <2>1 DEF Promise!Next
<1> QED
  BY <1>1, <1>2, <1>3, <1>4, OtherStepsRest DEF AdNext, PromiseInv

LEMMA InitKeepsPromise == AdInit => Promise!Init /\ GoneIsUnsigned
<1> SUFFICES ASSUME AdInit PROVE Promise!Init /\ GoneIsUnsigned
  OBVIOUS
<1>1. /\ adContract.present = TRUE
      /\ adContract.status = "student_signing"
      /\ adMirror.status = "student_signing"
      /\ adSignatures = {}
  BY DEF AdInit, MirrorOf
<1>2. Countersigned \in BOOLEAN
  BY DEF Countersigned
<1>3. CalledComplete = FALSE
  BY <1>1 DEF CalledComplete
<1> QED  BY <1>1, <1>2, <1>3 DEF Promise!Init, GoneIsUnsigned

(* However requests overlap and break off, signatures are set in order,    *)
(* once each, and go only with the whole contract; COMPLETED is said only  *)
(* while everybody who has to has signed (admissions/views.py:1240-1250,   *)
(* contract_deletion_service.py:30-60).                                    *)
THEOREM AdmissionsKeepThePromise == AdSpec => KeepsThePromise
<1>1. AdInit => Promise!Init /\ GoneIsUnsigned
  BY InitKeepsPromise
<1>2. AdInv /\ GoneIsUnsigned /\ [AdNext]_adVars => GoneIsUnsigned'
  BY GoneStaysUnsigned DEF PromiseInv
<1>3. AdInv /\ AdInv' /\ GoneIsUnsigned /\ [AdNext]_adVars
        => [Promise!Next]_(Promise!contract)
  BY StepKeepsPromise DEF PromiseInv
<1> QED
  BY <1>1, <1>2, <1>3, AdmissionsInvariant, PTL DEF AdSpec, KeepsThePromise, Promise!Spec

-----------------------------------------------------------------------------
(***************************************************************************)
(* Requests that do not overlap.  A copy is then the contract itself, but  *)
(* for the signature that is being made, and what remains is what a        *)
(* request that broke off or a mirror that failed has left behind.         *)
(***************************************************************************)
Busy(r) == adCall[r] # AdIdle

AtMostOneBusy == \A q, r \in AdRequests : Busy(q) /\ Busy(r) => q = r

MarkedIffSigned ==
  \A p \in AdParties :
    p \in adSignatures <=> adContract.present /\ SignedCopy(adContract, p)

MirrorAgrees ==
  /\ adMirror.present = adContract.present
  /\ adContract.present => adMirror = MirrorOf(adContract)
  /\ "rector" \in adSignatures => adMirror.status = "completed"

(* From its signature, its save or its deletion of the mirror's record on  *)
(* a request owes the mirror something.                                    *)
Owes(r) ==
  adCall[r].signs \/ adCall[r].pc \in {"sync", "last_sync", "commit_delete"}

CopyIsCurrent(r) ==
  /\ adCall[r].pc # "idle" /\ adContract.present
  /\ adCall[r].pc # "sign" => adCall[r].copy = adContract
  /\ adCall[r].pc = "sign" =>
       adContract = [adCall[r].copy EXCEPT !.signer[adCall[r].kind] = "started"]

(* What the checks of a request have found stays so.                       *)
ChecksHold(r) ==
  /\ adCall[r].pc = "begin" => ~SignedCopy(adContract, adCall[r].kind)
  /\ adCall[r].pc = "commit_update" => \A p \in AdParties : ~SignedCopy(adContract, p)
  /\ adCall[r].pc \in {"purge", "delete_mirror", "commit_delete"} =>
       ~SignedCopy(adContract, "rector")

(* What a request is about to write into the mirror, or has written.       *)
MirrorIsServed(r) ==
  /\ adCall[r].signs => adCall[r].pc \in {"refresh", "sync", "last_sync"}
  /\ adCall[r].pc \in {"sync", "last_sync"} =>
       ("rector" \in adSignatures => adContract.status = "completed")
  /\ adCall[r].pc = "commit_delete" /\ ~adUnsynced => ~adMirror.present
  /\ ~Owes(r) /\ ~adUnsynced => MirrorAgrees

SerialInv ==
  adSerial =>
    /\ AtMostOneBusy
    /\ MarkedIffSigned
    /\ \A r \in AdRequests :
         Busy(r) => CopyIsCurrent(r) /\ ChecksHold(r) /\ MirrorIsServed(r)
    /\ (\A r \in AdRequests : ~Busy(r)) /\ ~adUnsynced => MirrorAgrees

LoneRequest(r) ==
  /\ CopyIsCurrent(r) /\ ChecksHold(r) /\ MirrorIsServed(r)

(* A step of the only request has to be examined for that request, ...     *)
LEMMA StepAlone ==
  ASSUME NEW r \in AdRequests,
         \A q \in AdRequests \ {r} : ~Busy(q) /\ adCall'[q] = adCall[q],
         MarkedIffSigned',
         Busy(r)' => LoneRequest(r)',
         ~Busy(r)' /\ ~adUnsynced' => MirrorAgrees'
  PROVE  SerialInv'
<1>1. \A q \in AdRequests \ {r} : ~Busy(q)'
  BY DEF Busy
<1>2. AtMostOneBusy'
  BY <1>1 DEF AtMostOneBusy
<1>3. \A q \in AdRequests : Busy(q)' => LoneRequest(q)'
  BY <1>1
<1> QED  BY <1>2, <1>3 DEF SerialInv, LoneRequest

(* ... which alone is busy.                                                *)
LEMMA OthersRest ==
  ASSUME SerialInv, adSerial, NEW r \in AdRequests, adCall[r].pc # "idle"
  PROVE  /\ Busy(r) /\ LoneRequest(r) /\ MarkedIffSigned
         /\ \A q \in AdRequests \ {r} : ~Busy(q)
<1>1. Busy(r)
  BY DEF Busy, AdIdle
<1> QED  BY <1>1 DEF SerialInv, AtMostOneBusy, LoneRequest

(* A request that returns leaves the mirror as it was, or has noted that   *)
(* it does not agree.                                                      *)
LEMMA ReturnLeaves ==
  ASSUME AdTypeOK, SerialInv, adSerial, NEW r \in AdRequests, adCall[r].pc # "idle",
         AdReturn(r), UNCHANGED <<adContract, adSignatures, adMirror>>,
         ~adUnsynced' => ~adUnsynced /\ ~Owes(r)
  PROVE  SerialInv'
<1>1. /\ LoneRequest(r) /\ MarkedIffSigned
      /\ \A q \in AdRequests \ {r} : ~Busy(q)
  BY OthersRest
<1>2. adCall'[r] = AdIdle /\ \A q \in AdRequests \ {r} : adCall'[q] = adCall[q]
  BY DEF AdTypeOK, AdReturn
<1>3. ~Busy(r)'
  BY <1>2 DEF Busy
<1>4. MarkedIffSigned'
  BY <1>1 DEF MarkedIffSigned, SignedCopy
<1>5. ~adUnsynced' => MirrorAgrees'
  BY <1>1 DEF LoneRequest, MirrorIsServed, MirrorAgrees, MirrorOf
<1> QED  BY <1>1, <1>2, <1>3, <1>4, <1>5, StepAlone

(* A request that moves on without writing owes what it owed, and its      *)
(* checks hold where it needs them.                                        *)
LEMMA MoveLeaves ==
  ASSUME AdTypeOK, SerialInv, adSerial, NEW r \in AdRequests, adCall[r].pc # "idle",
         adCall[r].pc # "sign", ~Owes(r), NEW pc \in AdPc,
         pc \notin {"idle", "sign", "sync", "last_sync", "commit_delete"},
         AdGoto(r, pc), UNCHANGED <<adContract, adSignatures, adMirror, adUnsynced>>,
         pc = "begin" => ~SignedCopy(adContract, adCall[r].kind),
         pc = "commit_update" => \A p \in AdParties : ~SignedCopy(adContract, p),
         pc \in {"purge", "delete_mirror"} => ~SignedCopy(adContract, "rector")
  PROVE  SerialInv'
<1>1. /\ LoneRequest(r) /\ MarkedIffSigned
      /\ \A q \in AdRequests \ {r} : ~Busy(q)
  BY OthersRest
<1>2. /\ adCall'[r].pc = pc /\ adCall'[r].kind = adCall[r].kind
      /\ adCall'[r].copy = adCall[r].copy /\ adCall'[r].signs = adCall[r].signs
      /\ \A q \in AdRequests \ {r} : adCall'[q] = adCall[q]
  BY DEF AdTypeOK, AdGoto, AdCall
<1>3. Busy(r)'
  BY <1>2 DEF Busy, AdIdle
<1>4. MarkedIffSigned'
  BY <1>1 DEF MarkedIffSigned, SignedCopy
<1>5. CopyIsCurrent(r)' /\ ChecksHold(r)'
  BY <1>1, <1>2 DEF LoneRequest, CopyIsCurrent, ChecksHold, SignedCopy
<1>6. MirrorIsServed(r)'
  BY <1>1, <1>2 DEF LoneRequest, MirrorIsServed, Owes, MirrorAgrees, MirrorOf
<1> QED  BY <1>1, <1>2, <1>3, <1>4, <1>5, <1>6, StepAlone DEF LoneRequest

LEMMA LoadLeaves ==
  ASSUME AdTypeOK, SerialInv, adSerial, NEW r \in AdRequests,
         NEW kind \in AdKinds \ {"none"}, LoadContract(r, kind)
  PROVE  SerialInv'
<1>1. /\ \A q \in AdRequests : ~Busy(q)
      /\ MarkedIffSigned
      /\ ~adUnsynced => MirrorAgrees
  BY DEF LoadContract, Busy, SerialInv
<1>2. /\ adCall'[r] = [pc |-> FirstStep[kind], kind |-> kind, copy |-> adContract,
                       signs |-> FALSE]
      /\ \A q \in AdRequests \ {r} : adCall'[q] = adCall[q]
      /\ adContract.present
      /\ UNCHANGED <<adContract, adSignatures, adMirror, adUnsynced>>
  BY DEF LoadContract, AdTypeOK
<1>3. /\ FirstStep[kind] # "idle" /\ FirstStep[kind] # "sign"
      /\ FirstStep[kind] # "sync" /\ FirstStep[kind] # "last_sync"
      /\ FirstStep[kind] # "commit_update" /\ FirstStep[kind] # "purge"
      /\ FirstStep[kind] # "delete_mirror" /\ FirstStep[kind] # "commit_delete"
      /\ FirstStep[kind] = "begin" => kind = "student"
  BY DEF FirstStep, AdKinds
<1>4. MarkedIffSigned'
  BY <1>1, <1>2 DEF MarkedIffSigned, SignedCopy
<1>5. CopyIsCurrent(r)'
  BY <1>2, <1>3 DEF CopyIsCurrent
<1>6. ChecksHold(r)'
  <2>1. ~SignedCopy(adContract, "student") \/ kind # "student"
    BY DEF LoadContract
  <2>2. adCall'[r].pc = "begin" => kind = "student" /\ adCall'[r].kind = "student"
    BY <1>2, <1>3
  <2> QED  BY <1>2, <1>3, <2>1, <2>2 DEF ChecksHold, SignedCopy
<1>7. MirrorIsServed(r)'
  <2>1. ~adUnsynced' => MirrorAgrees'
    BY <1>1, <1>2 DEF MirrorAgrees, MirrorOf
  <2> QED  BY <1>2, <1>3, <2>1 DEF MirrorIsServed
<1>8. Busy(r)'
  BY <1>2, <1>3 DEF Busy, AdIdle
<1> QED  BY <1>1, <1>2, <1>4, <1>5, <1>6, <1>7, <1>8, StepAlone DEF LoneRequest

LEMMA LocksLeave ==
  ASSUME AdTypeOK, CallsAreSound, SerialInv, adSerial, NEW r \in AdRequests,
         LockForUpdate(r) \/ LockForDeletion(r) \/ Purge(r) \/ CheckRector(r)
  PROVE  SerialInv'
<1>1. /\ adCall[r].pc \in {"lock", "purge", "check"}
      /\ UNCHANGED <<adContract, adSignatures, adMirror, adUnsynced>>
  BY DEF LockForUpdate, LockForDeletion, Purge, CheckRector, AdAt
<1>2. LoneRequest(r)
  BY <1>1, OthersRest
<1>3. ~Owes(r)
  BY <1>1, <1>2 DEF LoneRequest, MirrorIsServed, Owes
<1>4. CASE AdReturn(r)
  BY <1>1, <1>3, <1>4, ReturnLeaves
<1>5. CASE LockForUpdate(r) /\ AdGoto(r, "commit_update")
  <2>1. \A p \in AdParties : ~SignedCopy(adContract, p)
    BY <1>1, <1>5, <1>4 DEF LockForUpdate, AdGoto, AdReturn, AdAt, AdTypeOK, AdIdle
  <2> QED  BY <1>1, <1>3, <1>5, <2>1, MoveLeaves DEF AdPc
<1>6. CASE LockForDeletion(r) /\ AdGoto(r, "purge")
  <2>1. ~SignedCopy(adContract, "rector")
    BY <1>1, <1>6, <1>4 DEF LockForDeletion, CanDelete, AdGoto, AdReturn, AdTypeOK, AdIdle
  <2> QED  BY <1>1, <1>3, <1>6, <2>1, MoveLeaves DEF AdPc
<1>7. CASE Purge(r)
  <2>1. ~SignedCopy(adContract, "rector")
    BY <1>2, <1>7 DEF Purge, AdAt, LoneRequest, ChecksHold
  <2> QED  BY <1>1, <1>3, <1>7, <2>1, MoveLeaves DEF Purge, AdPc
<1>8. CASE CheckRector(r) /\ AdGoto(r, "begin")
  <2>1. CASE RectorMaySign(r)
    <3>1. adCall[r].kind = "rector" /\ ~SignedCopy(adContract, "rector")
      BY <1>1, <1>2, <1>8, <2>1
      DEF CheckRector, RectorMaySign, AdAt, AdCopy, SignedCopy, CallsAreSound, CallIsSound,
          IsReadyToSign, LoneRequest, CopyIsCurrent
    <3> QED  BY <1>1, <1>3, <1>8, <3>1, MoveLeaves DEF AdPc
  <2>2. CASE ~RectorMaySign(r)
    BY <1>4, <1>8, <2>2 DEF CheckRector
  <2> QED  BY <2>1, <2>2
<1> QED
  BY <1>4, <1>5, <1>6, <1>7, <1>8 DEF LockForUpdate, LockForDeletion, CheckRector
(* A request that writes the contract alone leaves it served.              *)
LEMMA UpdateLeaves ==
  ASSUME AdTypeOK, SerialInv, adSerial, NEW r \in AdRequests, CommitContractUpdate(r)
  PROVE  SerialInv'
<1>1. /\ LoneRequest(r) /\ MarkedIffSigned
      /\ \A q \in AdRequests \ {r} : ~Busy(q)
  BY OthersRest DEF CommitContractUpdate, AdAt
<1>2. /\ adContract'.present = adContract.present
      /\ adContract'.signer = adContract.signer
      /\ UNCHANGED <<adSignatures, adMirror, adUnsynced>>
  BY DEF CommitContractUpdate, AdTypeOK, AdContractRow
<1>3. /\ adCall'[r].pc = "sync" /\ adCall'[r].copy = adContract'
      /\ adCall'[r].signs = adCall[r].signs
      /\ \A q \in AdRequests \ {r} : adCall'[q] = adCall[q]
  BY DEF CommitContractUpdate, AdTypeOK, AdCall
<1>4. "rector" \notin adSignatures
  BY <1>1 DEF LoneRequest, ChecksHold, MarkedIffSigned, CommitContractUpdate, AdAt, AdParties
<1>5. MarkedIffSigned'
  BY <1>1, <1>2 DEF MarkedIffSigned, SignedCopy
<1>6. CopyIsCurrent(r)' /\ ChecksHold(r)'
  BY <1>1, <1>2, <1>3 DEF LoneRequest, CopyIsCurrent, ChecksHold
<1>7. MirrorIsServed(r)'
  BY <1>2, <1>3, <1>4 DEF MirrorIsServed, Owes
<1>8. Busy(r)'
  BY <1>3 DEF Busy, AdIdle
<1> QED  BY <1>1, <1>3, <1>5, <1>6, <1>7, <1>8, StepAlone DEF LoneRequest

LEMMA RefreshLeaves ==
  ASSUME AdTypeOK, OrderIsKept, SerialInv, adSerial, NEW r \in AdRequests, Refresh(r)
  PROVE  SerialInv'
<1>1. /\ LoneRequest(r) /\ MarkedIffSigned /\ adCall[r].pc = "refresh"
      /\ \A q \in AdRequests \ {r} : ~Busy(q)
  BY OthersRest DEF Refresh, AdAt
<1>2. adContract.present /\ adCall[r].copy = adContract
  BY <1>1 DEF LoneRequest, CopyIsCurrent
<1> DEFINE status == RefreshedFrom(adContract)
<1>3. /\ adContract' = [adContract EXCEPT !.status = status]
      /\ adCall' = [adCall EXCEPT ![r].pc = "sync", ![r].copy.status = status]
      /\ UNCHANGED <<adSignatures, adMirror, adUnsynced>>
  BY <1>2 DEF Refresh, AdCopy
<1>4. /\ adContract'.present = adContract.present
      /\ adContract'.signer = adContract.signer
      /\ adContract'.status = status
  BY <1>3 DEF AdTypeOK, AdContractRow
<1>5. /\ adCall'[r].pc = "sync" /\ adCall'[r].copy = adContract'
      /\ \A q \in AdRequests \ {r} : adCall'[q] = adCall[q]
  BY <1>2, <1>3 DEF AdTypeOK, AdCall, AdContractRow
<1>6. "rector" \in adSignatures => status = "completed"
  BY <1>1 DEF OrderIsKept, MarkedIffSigned, RefreshedFrom, SignedCopy, AdParties
<1>7. MarkedIffSigned'
  BY <1>1, <1>3, <1>4 DEF MarkedIffSigned, SignedCopy
<1>8. CopyIsCurrent(r)' /\ ChecksHold(r)'
  BY <1>2, <1>4, <1>5 DEF CopyIsCurrent, ChecksHold
<1>9. MirrorIsServed(r)'
  BY <1>3, <1>4, <1>5, <1>6 DEF MirrorIsServed, Owes
<1>10. Busy(r)'
  BY <1>5 DEF Busy, AdIdle
<1> QED  BY <1>1, <1>5, <1>7, <1>8, <1>9, <1>10, StepAlone DEF LoneRequest

(* Afterwards the mirror shows the contract, or is known not to.           *)
LEMMA SyncLeaves ==
  ASSUME AdTypeOK, SerialInv, adSerial, NEW r \in AdRequests, SyncContract(r)
  PROVE  SerialInv'
<1>1. adCall[r].pc \in {"sync", "last_sync"}
  BY DEF SyncContract, AdAt
<1>2. /\ LoneRequest(r) /\ MarkedIffSigned
      /\ \A q \in AdRequests \ {r} : ~Busy(q)
  BY <1>1, OthersRest
<1>3. adContract' = adContract /\ adSignatures' = adSignatures
  BY DEF SyncContract
<1>4. adContract.present /\ adCall[r].copy = adContract
      /\ ("rector" \in adSignatures => adContract.status = "completed")
  BY <1>1, <1>2 DEF LoneRequest, CopyIsCurrent, MirrorIsServed
<1>5. ~adUnsynced' => MirrorAgrees'
  <2>1. ~adUnsynced' => adMirror' = MirrorOf(adContract)
    BY <1>4 DEF SyncContract, Mirrored, AdCopy
  <2>2. adMirror' = MirrorOf(adContract') =>
          adMirror'.present /\ adMirror'.status = adContract'.status
    BY DEF MirrorOf
  <2>3. MirrorOf(adContract)' = MirrorOf(adContract')
    BY DEF MirrorOf
  <2> QED  BY <1>3, <1>4, <2>1, <2>2, <2>3 DEF MirrorAgrees
<1>6. MarkedIffSigned'
  BY <1>2, <1>3 DEF MarkedIffSigned, SignedCopy
<1>7. CASE AfterSync(r) = "idle"
  <2>1. /\ adCall'[r] = AdIdle
        /\ \A q \in AdRequests \ {r} : adCall'[q] = adCall[q]
    BY <1>7 DEF SyncContract, AdReturn, AdTypeOK
  <2> QED  BY <1>2, <1>5, <1>6, <2>1, StepAlone DEF Busy
<1>8. CASE AfterSync(r) # "idle"
  <2>1. AdGoto(r, AfterSync(r))
    BY <1>8 DEF SyncContract
  <2>2. /\ adCall'[r].pc = AfterSync(r) /\ adCall'[r].copy = adCall[r].copy
        /\ adCall'[r].signs = adCall[r].signs
        /\ \A q \in AdRequests \ {r} : adCall'[q] = adCall[q]
    BY <2>1 DEF AdGoto, AdTypeOK, AdCall
  <2>3. \/ AfterSync(r) = "last_sync"
        \/ AfterSync(r) = "check" /\ ~adCall[r].signs
    BY <1>8 DEF AfterSync
  <2>4. CopyIsCurrent(r)' /\ ChecksHold(r)'
    BY <1>3, <1>4, <2>2, <2>3 DEF CopyIsCurrent, ChecksHold
  <2>5. MirrorIsServed(r)'
    BY <1>3, <1>4, <1>5, <2>2, <2>3 DEF MirrorIsServed
  <2>6. Busy(r)'
    BY <2>2, <2>3 DEF Busy, AdIdle
  <2> QED  BY <1>2, <1>6, <2>2, <2>4, <2>5, <2>6, StepAlone DEF LoneRequest
<1> QED  BY <1>7, <1>8

LEMMA BeginLeaves ==
  ASSUME AdTypeOK, CallsAreSound, SerialInv, adSerial, NEW r \in AdRequests,
         BeginSignature(r)
  PROVE  SerialInv'
<1>1. /\ LoneRequest(r) /\ MarkedIffSigned /\ adCall[r].pc = "begin"
      /\ \A q \in AdRequests \ {r} : ~Busy(q)
  BY OthersRest DEF BeginSignature, AdAt
<1> DEFINE party == adCall[r].kind
<1>2. party \in AdParties
  BY <1>1 DEF CallsAreSound, CallIsSound, IsReadyToSign
<1>3. adContract.present /\ adCall[r].copy = adContract /\ ~SignedCopy(adContract, party)
  BY <1>1 DEF LoneRequest, CopyIsCurrent, ChecksHold
<1>4. /\ adContract' = [adContract EXCEPT !.signer[party] = "started"]
      /\ AdGoto(r, "sign")
      /\ UNCHANGED <<adSignatures, adMirror, adUnsynced>>
  BY <1>3 DEF BeginSignature, Party, AdKind
<1>5. /\ adContract'.present = adContract.present
      /\ adContract'.status = adContract.status
      /\ adContract'.version = adContract.version
      /\ adContract'.signer = [adContract.signer EXCEPT ![party] = "started"]
  BY <1>4 DEF AdTypeOK, AdContractRow
<1>6. /\ adCall'[r].pc = "sign" /\ adCall'[r].copy = adCall[r].copy
      /\ adCall'[r].kind = party /\ adCall'[r].signs = adCall[r].signs
      /\ \A q \in AdRequests \ {r} : adCall'[q] = adCall[q]
  BY <1>4 DEF AdGoto, AdTypeOK, AdCall
<1>7. MarkedIffSigned'
  BY <1>1, <1>2, <1>3, <1>4, <1>5
  DEF MarkedIffSigned, SignedCopy, AdTypeOK, AdContractRow
<1>8. CopyIsCurrent(r)' /\ ChecksHold(r)'
  BY <1>3, <1>4, <1>5, <1>6 DEF CopyIsCurrent, ChecksHold
<1>9. MirrorIsServed(r)'
  <2>1. ~adCall[r].signs
    BY <1>1 DEF LoneRequest, MirrorIsServed
  <2>2. ~adUnsynced => MirrorAgrees
    BY <1>1, <2>1 DEF LoneRequest, MirrorIsServed, Owes
  <2>3. ~adUnsynced' => MirrorAgrees'
    BY <1>4, <1>5, <2>2 DEF MirrorAgrees, MirrorOf
  <2> QED  BY <1>6, <2>1, <2>3 DEF MirrorIsServed
<1>10. Busy(r)'
  BY <1>6 DEF Busy, AdIdle
<1> QED  BY <1>1, <1>6, <1>7, <1>8, <1>9, <1>10, StepAlone DEF LoneRequest

LEMMA CompleteLeaves ==
  ASSUME AdTypeOK, CallsAreSound, SerialInv, adSerial, NEW r \in AdRequests,
         CompleteSignature(r)
  PROVE  SerialInv'
<1>1. /\ LoneRequest(r) /\ MarkedIffSigned /\ adCall[r].pc = "sign"
      /\ \A q \in AdRequests \ {r} : ~Busy(q)
  BY OthersRest DEF CompleteSignature, AdAt
<1> DEFINE party == adCall[r].kind
<1>2. party \in AdParties
  BY <1>1 DEF CallsAreSound, CallIsSound, IsReadyToSign
<1>3. adContract.present
      /\ adContract = [adCall[r].copy EXCEPT !.signer[party] = "started"]
  BY <1>1 DEF LoneRequest, CopyIsCurrent
<1>4. adCall[r].copy \in AdContractRow
  BY DEF AdTypeOK, AdCall
<1>5. ~SignedCopy(adContract, party)
  BY <1>2, <1>3, <1>4 DEF SignedCopy, AdContractRow
<1>6. party \notin adSignatures
  BY <1>1, <1>2, <1>5 DEF MarkedIffSigned
<1>7. /\ adSignatures' = adSignatures \cup {party}
      /\ adContract' = [adContract EXCEPT !.signer[party] = "signed"]
      /\ adCall' = [adCall EXCEPT ![r].pc = "refresh", ![r].signs = TRUE,
                                  ![r].copy.signer[party] = "signed"]
  BY <1>3, <1>6 DEF CompleteSignature, Party, AdKind
<1>8. /\ adContract'.present = adContract.present
      /\ adContract'.signer = [adContract.signer EXCEPT ![party] = "signed"]
  BY <1>7 DEF AdTypeOK, AdContractRow
<1>9. /\ adCall'[r].pc = "refresh" /\ adCall'[r].signs
      /\ adCall'[r].copy = [adCall[r].copy EXCEPT !.signer[party] = "signed"]
      /\ \A q \in AdRequests \ {r} : adCall'[q] = adCall[q]
  BY <1>7 DEF AdTypeOK, AdCall
<1>10. adCall'[r].copy = adContract'
  BY <1>2, <1>3, <1>4, <1>7, <1>9 DEF AdContractRow
<1>11. MarkedIffSigned'
  BY <1>1, <1>2, <1>3, <1>7, <1>8
  DEF MarkedIffSigned, SignedCopy, AdTypeOK, AdContractRow
<1>12. CopyIsCurrent(r)' /\ ChecksHold(r)'
  BY <1>3, <1>8, <1>9, <1>10 DEF CopyIsCurrent, ChecksHold
<1>13. MirrorIsServed(r)'
  BY <1>9 DEF MirrorIsServed, Owes
<1>14. Busy(r)'
  BY <1>9 DEF Busy, AdIdle
<1> QED  BY <1>1, <1>9, <1>11, <1>12, <1>13, <1>14, StepAlone DEF LoneRequest

LEMMA DeleteRecordLeaves ==
  ASSUME AdTypeOK, SerialInv, adSerial, NEW r \in AdRequests, DeleteContractRecord(r)
  PROVE  SerialInv'
<1>1. /\ LoneRequest(r) /\ MarkedIffSigned /\ adCall[r].pc = "delete_mirror"
      /\ \A q \in AdRequests \ {r} : ~Busy(q)
  BY OthersRest DEF DeleteContractRecord, AdAt
<1>2. adContract' = adContract /\ adSignatures' = adSignatures
  BY DEF DeleteContractRecord
<1>3. /\ adCall'[r].pc = "commit_delete" /\ adCall'[r].copy = adCall[r].copy
      /\ adCall'[r].signs = adCall[r].signs
      /\ \A q \in AdRequests \ {r} : adCall'[q] = adCall[q]
  BY DEF DeleteContractRecord, AdGoto, AdTypeOK, AdCall
<1>4. MarkedIffSigned'
  BY <1>1, <1>2 DEF MarkedIffSigned, SignedCopy
<1>5. CopyIsCurrent(r)' /\ ChecksHold(r)'
  BY <1>1, <1>2, <1>3 DEF LoneRequest, CopyIsCurrent, ChecksHold, SignedCopy
<1>6. ~adUnsynced' => ~adMirror'.present
  BY DEF DeleteContractRecord, MirrorDeleted, AdTypeOK, AdMirrorRow
<1>7. MirrorIsServed(r)'
  BY <1>1, <1>3, <1>6 DEF LoneRequest, MirrorIsServed, Owes
<1>8. Busy(r)'
  BY <1>3 DEF Busy, AdIdle
<1> QED  BY <1>1, <1>3, <1>4, <1>5, <1>7, <1>8, StepAlone DEF LoneRequest

LEMMA CommitDeletionLeaves ==
  ASSUME AdTypeOK, SerialInv, adSerial, NEW r \in AdRequests, CommitDeletion(r)
  PROVE  SerialInv' /\ "rector" \notin adSignatures
<1>1. /\ LoneRequest(r) /\ MarkedIffSigned /\ adCall[r].pc = "commit_delete"
      /\ \A q \in AdRequests \ {r} : ~Busy(q)
  BY OthersRest DEF CommitDeletion, AdAt
<1>2. adContract' = AdGone /\ adSignatures' = {}
      /\ adMirror' = adMirror /\ adUnsynced' = adUnsynced
  BY DEF CommitDeletion
<1>3. /\ adCall'[r] = AdIdle
      /\ \A q \in AdRequests \ {r} : adCall'[q] = adCall[q]
  BY DEF CommitDeletion, AdReturn, AdTypeOK
<1>4. MarkedIffSigned'
  BY <1>2 DEF MarkedIffSigned, AdGone
<1>5. ~adUnsynced' => MirrorAgrees'
  <2>1. ~adUnsynced => ~adMirror.present
    BY <1>1 DEF LoneRequest, MirrorIsServed
  <2>2. adContract'.present = FALSE
    BY <1>2 DEF AdGone
  <2>3. ~adUnsynced' => adMirror'.present = FALSE
    BY <1>2, <2>1 DEF AdTypeOK, AdMirrorRow
  <2> QED  BY <1>2, <2>2, <2>3 DEF MirrorAgrees
<1>6. "rector" \notin adSignatures
  BY <1>1 DEF LoneRequest, ChecksHold, MarkedIffSigned, AdParties
<1> QED  BY <1>1, <1>3, <1>4, <1>5, <1>6, StepAlone DEF Busy

LEMMA BreakOffLeaves ==
  ASSUME AdTypeOK, SerialInv, adSerial, NEW r \in AdRequests, BreakOff(r)
  PROVE  SerialInv'
<1>1. adCall[r].pc # "idle"
  BY DEF BreakOff, SerialInv, Busy, CopyIsCurrent
<1>2. ~adUnsynced' => ~adUnsynced /\ ~Owes(r)
  BY DEF BreakOff, Owes
<1> QED  BY <1>1, <1>2, ReturnLeaves DEF BreakOff

LEMMA InitSerial == AdInit => SerialInv
<1> SUFFICES ASSUME AdInit PROVE SerialInv
  OBVIOUS
<1>1. \A r \in AdRequests : ~Busy(r)
  BY DEF AdInit, Busy
<1>2. /\ adContract.present /\ adSignatures = {} /\ adMirror = MirrorOf(adContract)
      /\ \A p \in AdParties : ~SignedCopy(adContract, p)
  BY DEF AdInit, AdParties, SignedCopy
<1>3. MarkedIffSigned /\ MirrorAgrees
  BY <1>2 DEF MarkedIffSigned, MirrorAgrees, MirrorOf
<1> QED  BY <1>1, <1>3 DEF SerialInv, AtMostOneBusy

LEMMA SerialStep ==
  ASSUME AdInv, SerialInv, [AdNext]_adVars
  PROVE  SerialInv'
<1> USE DEF AdInv
<1>1. adSerial' = adSerial
  BY DEF AdNext, adVars, LoadContract, LockForUpdate, CommitContractUpdate, Refresh,
         SyncContract, CheckRector, BeginSignature, CompleteSignature, LockForDeletion,
         Purge, DeleteContractRecord, CommitDeletion, BreakOff
<1>2. CASE ~adSerial
  BY <1>1, <1>2 DEF SerialInv
<1>3. CASE adSerial /\ UNCHANGED adVars
  <2>1. /\ adCall' = adCall /\ adContract' = adContract /\ adMirror' = adMirror
        /\ adSignatures' = adSignatures /\ adUnsynced' = adUnsynced
    BY <1>3 DEF adVars
  <2> QED
    BY <1>1, <1>3, <2>1
    DEF SerialInv, AtMostOneBusy, MarkedIffSigned, MirrorAgrees, Busy, Owes, CopyIsCurrent,
        ChecksHold, MirrorIsServed, SignedCopy, MirrorOf
<1>4. CASE adSerial /\ AdNext
  <2>1. PICK r \in AdRequests :
          \/ \E kind \in AdKinds \ {"none"} : LoadContract(r, kind)
          \/ LockForUpdate(r) \/ LockForDeletion(r) \/ Purge(r) \/ CheckRector(r)
          \/ CommitContractUpdate(r)
          \/ Refresh(r)
          \/ SyncContract(r)
          \/ BeginSignature(r)
          \/ CompleteSignature(r)
          \/ DeleteContractRecord(r)
          \/ CommitDeletion(r)
          \/ BreakOff(r)
    BY <1>4 DEF AdNext
  <2>2. CASE \E kind \in AdKinds \ {"none"} : LoadContract(r, kind)
    BY <1>4, <2>2, LoadLeaves
  <2>3. CASE LockForUpdate(r) \/ LockForDeletion(r) \/ Purge(r) \/ CheckRector(r)
    BY <1>4, <2>3, LocksLeave
  <2>4. CASE CommitContractUpdate(r)
    BY <1>4, <2>4, UpdateLeaves
  <2>5. CASE Refresh(r)
    BY <1>4, <2>5, RefreshLeaves
  <2>6. CASE SyncContract(r)
    BY <1>4, <2>6, SyncLeaves
  <2>7. CASE BeginSignature(r)
    BY <1>4, <2>7, BeginLeaves
  <2>8. CASE CompleteSignature(r)
    BY <1>4, <2>8, CompleteLeaves
  <2>9. CASE DeleteContractRecord(r)
    BY <1>4, <2>9, DeleteRecordLeaves
  <2>10. CASE CommitDeletion(r)
    BY <1>4, <2>10, CommitDeletionLeaves
  <2>11. CASE BreakOff(r)
    BY <1>4, <2>11, BreakOffLeaves
  <2> QED
    BY <2>1, <2>2, <2>3, <2>4, <2>5, <2>6, <2>7, <2>8, <2>9, <2>10, <2>11
<1> QED  BY <1>2, <1>3, <1>4

(* SerialInv is inductive on top of AdInv.                                 *)
THEOREM LoneRequestsInvariant == AdSpec => []SerialInv
<1>1. AdInv /\ SerialInv /\ [AdNext]_adVars => SerialInv'
  BY SerialStep
<1> QED  BY InitSerial, <1>1, AdmissionsInvariant, PTL DEF AdSpec

(* Among requests that do not overlap, one that ends regularly leaves the  *)
(* mirror as the contract is, the last signature and the deletion          *)
(* included, whatever earlier ones broke off (mssql_mirror_service.py:28,  *)
(* admissions/signals.py:9).                                               *)
THEOREM LoneRequestsAreMirrored == AdSpec => []LoneRequestMirrors
<1>1. SerialInv => LoneRequestMirrors
  BY DEF SerialInv, LoneRequestMirrors, MirrorAgrees, Busy
<1> QED  BY <1>1, LoneRequestsInvariant, PTL

(* A deletion that overlaps no other request never takes the vice rector's *)
(* signature with it, not even when an earlier request stopped between the *)
(* signature and the save of the contract's status                         *)
(* (contract_deletion_service.py:30-60).                                   *)
THEOREM LoneDeletionsSpareTheRector == AdSpec => LoneDeletionSparesRector
<1> DEFINE Spares == adSerial /\ "rector" \in adSignatures => adContract'.present
<1>1. AdInv /\ SerialInv /\ [AdNext]_adVars => [Spares]_adVars
  <2> SUFFICES ASSUME AdInv, SerialInv, AdNext, adSerial, "rector" \in adSignatures
               PROVE  adContract'.present
    OBVIOUS
  <2>1. adContract.present
    BY DEF SerialInv, MarkedIffSigned, AdParties
  <2>2. \A r \in AdRequests : ~CommitDeletion(r)
    BY CommitDeletionLeaves DEF AdInv
  <2>3. PICK r \in AdRequests :
          \/ UNCHANGED adContract
          \/ CommitContractUpdate(r) \/ Refresh(r)
          \/ BeginSignature(r) \/ CompleteSignature(r)
    BY <2>2
    DEF AdNext, LoadContract, LockForUpdate, SyncContract, CheckRector, LockForDeletion,
        Purge, DeleteContractRecord, BreakOff
  <2> QED
    BY <2>1, <2>3
    DEF AdInv, AdTypeOK, AdContractRow, CommitContractUpdate, Refresh, BeginSignature,
        CompleteSignature
<1> QED  BY <1>1, AdmissionsInvariant, LoneRequestsInvariant, PTL DEF AdSpec, LoneDeletionSparesRector

-----------------------------------------------------------------------------
(***************************************************************************)
(* The contract's data (AdmissionData): what requests that do not overlap  *)
(* leave in the row, the documents and the signer.                         *)
(***************************************************************************)
LEMMA NoEditsTyped == FirstPayload \in Payload /\ NoEdits \in ManualEdits
BY DtAssumption DEF FirstPayload, Payload, NoEdits, ManualEdits

LEMMA RowOfTyped ==
  ASSUME NEW payload \in Payload, NEW manual \in ManualEdits
  PROVE  RowOf(payload, manual) \in DtRow
BY DEF RowOf, Payload, DtRow

LEMMA DtIdleTyped == DtIdle \in DtCall
<1>1. FirstPayload \in FieldValues
  BY DtAssumption DEF FirstPayload, FieldValues
<1> QED  BY <1>1, NoEditsTyped, RowOfTyped DEF DtIdle, DtCall, DtPc

LEMMA MergedTyped ==
  ASSUME NEW payload \in Payload, NEW manual \in ManualEdits
  PROVE  MergedPayload(payload, manual) \in Payload
BY DEF MergedPayload, Payload, ManualEdits

LEMMA BuiltTyped ==
  ASSUME NEW payload \in Payload, NEW manual \in ManualEdits
  PROVE  BuildValues(payload, manual) \in FieldValues
<1>1. payload \in FieldValues
  BY DEF Payload, FieldValues
<1> QED  BY <1>1 DEF BuildValues, FieldValues, ManualEdits

LEMMA SummaryTyped ==
  ASSUME NEW row \in DtRow, NEW posted \in FieldValues
  PROVE  Summary(row, posted) \in DtRow
<1>1. posted.applicant # 0 => posted.applicant \in 1 .. Applicants
  BY DEF FieldValues
<1> QED  BY <1>1 DEF Summary, DtRow, FieldValues

LEMMA DtInitTyped == DtInit => DtTypeOK
<1> SUFFICES ASSUME DtInit PROVE DtTypeOK
  OBVIOUS
<1>1. dtRow \in DtRow
  BY NoEditsTyped, RowOfTyped DEF DtInit
<1>2. dtShown \in FieldValues /\ dtSigner \in 1 .. Applicants
  BY DtAssumption DEF DtInit, FirstPayload, FieldValues
<1>3. dtCall \in [DtRequests -> DtCall]
  BY DtIdleTyped DEF DtInit
<1>4. dtChanges \in 0 .. MaxChanges
  BY DtAssumption DEF DtInit
<1> QED  BY <1>1, <1>2, <1>3, <1>4 DEF DtInit, DtTypeOK

(* A step of r changes its own call only, and that in one of these ways.   *)
DtOthersRest(r) == \A q \in DtRequests \ {r} : dtCall'[q] = dtCall[q]

LEMMA DtBeginTyped ==
  ASSUME DtTypeOK, NEW r \in DtRequests, NEW pc \in DtPc, DtBegin(r, pc)
  PROVE  /\ dtCall' \in [DtRequests -> DtCall] /\ DtOthersRest(r)
         /\ dtCall'[r].pc = pc /\ dtCall'[r].row = dtRow
<1> DEFINE call == [DtIdle EXCEPT !.pc = pc, !.row = dtRow]
<1>1. call \in DtCall /\ call.pc = pc /\ call.row = dtRow
  BY DtIdleTyped DEF DtCall, DtTypeOK
<1> HIDE DEF call
<1>2. dtCall' = [dtCall EXCEPT ![r] = call]
  BY DEF DtBegin, call
<1> QED  BY <1>1, <1>2 DEF DtTypeOK, DtOthersRest

LEMMA DtReturnTyped ==
  ASSUME DtTypeOK, NEW r \in DtRequests, DtReturn(r)
  PROVE  /\ dtCall' \in [DtRequests -> DtCall] /\ DtOthersRest(r)
         /\ dtCall'[r] = DtIdle
BY DtIdleTyped DEF DtTypeOK, DtReturn, DtOthersRest

LEMMA DtGotoTyped ==
  ASSUME DtTypeOK, NEW r \in DtRequests, NEW pc \in DtPc, DtGoto(r, pc)
  PROVE  /\ dtCall' \in [DtRequests -> DtCall] /\ DtOthersRest(r)
         /\ dtCall'[r] = [dtCall[r] EXCEPT !.pc = pc]
BY DEF DtTypeOK, DtGoto, DtCall, DtOthersRest

(* What a request has read or been sent is of the right type.              *)
LEMMA CallTyped ==
  ASSUME DtTypeOK, NEW r \in DtRequests
  PROVE  /\ dtCall[r] \in DtCall /\ dtCall[r].row \in DtRow
         /\ dtCall[r].posted \in FieldValues
         /\ dtCall[r].row.payload \in Payload /\ dtCall[r].row.manual \in ManualEdits
         /\ dtRow.payload \in Payload /\ dtRow.manual \in ManualEdits
BY DEF DtTypeOK, DtCall, DtRow

LEMMA DtBeginsTyped ==
  ASSUME DtTypeOK, NEW r \in DtRequests, BeginUpdate(r) \/ BeginRender(r) \/ BeginEdit(r)
  PROVE  DtTypeOK' /\ DtOthersRest(r)
<1>1. ASSUME Changes PROVE dtChanges' \in 0 .. MaxChanges
  BY <1>1, DtAssumption DEF Changes, DtTypeOK
<1>2. CASE BeginUpdate(r)
  BY <1>1, <1>2, DtBeginTyped DEF BeginUpdate, DtPc, DtTypeOK
<1>3. CASE BeginRender(r)
  BY <1>3, DtBeginTyped DEF BeginRender, DtPc, DtTypeOK
<1>4. CASE BeginEdit(r)
  <2>1. PICK posted \in FieldValues :
          dtCall' = [dtCall EXCEPT ![r] = [pc |-> "values", row |-> dtRow, posted |-> posted]]
    BY <1>4 DEF BeginEdit
  <2>2. [pc |-> "values", row |-> dtRow, posted |-> posted] \in DtCall
    BY DEF DtTypeOK, DtCall, DtPc
  <2>3. dtCall' \in [DtRequests -> DtCall] /\ DtOthersRest(r)
    BY <2>1, <2>2 DEF DtTypeOK, DtOthersRest
  <2> QED  BY <1>1, <1>4, <2>3 DEF BeginEdit, DtTypeOK
<1> QED  BY <1>2, <1>3, <1>4

LEMMA DtServerTyped ==
  ASSUME DtTypeOK, NEW r \in DtRequests,
         \/ UpdateContractShell(r) \/ EnqueueContract(r) \/ RenderContractDocuments(r)
         \/ DtBreakOff(r)
  PROVE  DtTypeOK' /\ DtOthersRest(r)
<1>1. CASE UpdateContractShell(r)
  <2>1. PICK payload \in Payload : dtRow' = RowOf(MergedPayload(payload, dtRow.manual), dtRow.manual)
    BY <1>1 DEF UpdateContractShell, EditsToKeep
  <2>2. dtRow' \in DtRow
    BY <2>1, CallTyped, MergedTyped, RowOfTyped
  <2> QED  BY <1>1, <2>2, DtGotoTyped DEF UpdateContractShell, DtPc, DtTypeOK
<1>2. CASE EnqueueContract(r)
  BY <1>2, DtReturnTyped DEF EnqueueContract, DtTypeOK
<1>3. CASE RenderContractDocuments(r)
  <2>1. dtShown' \in FieldValues
    BY <1>3, CallTyped, BuiltTyped DEF RenderContractDocuments
  <2>2. dtSigner' \in 1 .. Applicants
    BY <1>3, CallTyped DEF RenderContractDocuments, Payload
  <2> QED  BY <1>3, <2>1, <2>2, DtReturnTyped DEF RenderContractDocuments, DtTypeOK
<1>4. CASE DtBreakOff(r)
  BY <1>4, DtReturnTyped DEF DtBreakOff, DtTypeOK
<1> QED  BY <1>1, <1>2, <1>3, <1>4

LEMMA DtEditTyped ==
  ASSUME DtTypeOK, NEW r \in DtRequests,
         WriteFieldValues(r) \/ UpdateStudentSigner(r) \/ SaveContract(r)
  PROVE  DtTypeOK' /\ DtOthersRest(r)
<1>1. CASE WriteFieldValues(r)
  <2> DEFINE row == Summary(dtCall[r].row, dtCall[r].posted)
             call == [dtCall[r] EXCEPT !.pc = "signer", !.row = row]
  <2>1. row \in DtRow
    BY CallTyped, SummaryTyped
  <2>2. call \in DtCall
    BY <2>1, CallTyped DEF DtCall, DtPc
  <2>3. dtCall' = [dtCall EXCEPT ![r] = call]
    BY <1>1 DEF WriteFieldValues, DtTypeOK
  <2>4. dtCall' \in [DtRequests -> DtCall] /\ DtOthersRest(r)
    BY <2>2, <2>3 DEF DtTypeOK, DtOthersRest
  <2>5. dtShown' \in FieldValues
    BY <1>1, CallTyped DEF WriteFieldValues, FieldValues, DtTypeOK
  <2> QED  BY <1>1, <2>4, <2>5 DEF WriteFieldValues, DtTypeOK
<1>2. CASE UpdateStudentSigner(r)
  <2>1. dtSigner' \in 1 .. Applicants
    BY <1>2, CallTyped DEF UpdateStudentSigner, DtRow
  <2> QED  BY <1>2, <2>1, DtGotoTyped DEF UpdateStudentSigner, DtPc, DtTypeOK
<1>3. CASE SaveContract(r)
  <2> DEFINE posted == dtCall[r].posted
             manual == [present |-> TRUE, applicant |-> posted.applicant,
                        tuition |-> posted.tuition, paid |-> posted.paid]
  <2>1. manual \in ManualEdits
    BY CallTyped DEF FieldValues, ManualEdits
  <2>2. dtRow' = [dtCall[r].row EXCEPT !.paid = dtRow.paid, !.manual = manual]
    BY <1>3 DEF SaveContract
  <2>3. dtRow' \in DtRow
    BY <2>1, <2>2, CallTyped DEF DtRow, DtTypeOK
  <2> QED  BY <1>3, <2>3, DtReturnTyped DEF SaveContract, DtTypeOK
<1> QED  BY <1>1, <1>2, <1>3

LEMMA DtStepTyped ==
  ASSUME DtTypeOK, [DtNext]_dtVars
  PROVE  DtTypeOK'
<1>1. CASE UNCHANGED dtVars
  BY <1>1 DEF dtVars, DtTypeOK
<1>2. CASE DtNext
  BY <1>2, DtBeginsTyped, DtServerTyped, DtEditTyped DEF DtNext
<1> QED  BY <1>1, <1>2

(* Row, documents, signer and requests stay well formed.                   *)
THEOREM AdmissionDataTypeCorrect == DtSpec => []DtTypeOK
BY DtInitTyped, DtStepTyped, PTL DEF DtSpec

(* Whoever updates a contract finds the applicant's edits in the row it    *)
(* has locked and writes them back; only the applicant's own save writes   *)
(* others (contract_builder.py:163-170).                                   *)
THEOREM ApplicantsEditsAreKept == DtSpec => EditsAreKept
<1>1. ASSUME DtNext
      PROVE  \/ dtRow'.manual = dtRow.manual
             \/ \E r \in DtRequests : DtAt(r, "contract")
  <2>1. ASSUME NEW r \in DtRequests, UpdateContractShell(r)
        PROVE  dtRow'.manual = dtRow.manual
    BY <2>1 DEF UpdateContractShell, EditsToKeep, RowOf
  <2>2. ASSUME NEW r \in DtRequests, SaveContract(r)
        PROVE  DtAt(r, "contract")
    BY <2>2 DEF SaveContract
  <2> QED
    BY <1>1, <2>1, <2>2
    DEF DtNext, BeginUpdate, EnqueueContract, BeginRender, RenderContractDocuments,
        BeginEdit, WriteFieldValues, UpdateStudentSigner, DtBreakOff
<1> QED  BY <1>1, PTL DEF DtSpec, EditsAreKept

-----------------------------------------------------------------------------
(***************************************************************************)
(* Requests for the data that do not overlap.  A copy is the row, and what *)
(* the documents and the signer still lack is in the hands of the one      *)
(* request, or of the render that has been queued.                         *)
(***************************************************************************)
DtBusy(r) == dtCall[r] # DtIdle

OneDtRequest == \A q, r \in DtRequests : DtBusy(q) /\ DtBusy(r) => q = r

(* The row has the tuition that its documents are to show.                 *)
RowAgrees ==
  /\ dtRow.paid = dtRow.payload.paid
  /\ dtRow.tuition = BuildValues(dtRow.payload, dtRow.manual).tuition
  /\ ~dtRow.paid => dtRow.tuition = dtRow.payload.tuition

ApplicantIsSent == dtRow.applicant = dtRow.payload.applicant

Shows ==
  /\ dtRow.tuition = dtShown.tuition
  /\ dtSigner = dtRow.applicant
  /\ IF dtRow.manual.present
     THEN dtShown.applicant = dtRow.manual.applicant /\ dtShown.paid = dtRow.manual.paid
     ELSE dtShown.applicant = dtSigner /\ dtShown.paid = dtRow.paid

(* The documents show the row, or a render that will do it is queued.      *)
Settled ==
  /\ dtJob # "processing"
  /\ ~dtBroken => IF dtJob = "done" THEN Shows ELSE ApplicantIsSent

Updating(r) ==
  /\ dtCall[r].pc = "update" => Settled
  /\ dtCall[r].pc = "enqueue" => dtJob # "processing" /\ ApplicantIsSent

Rendering(r) ==
  dtCall[r].pc = "render" => dtCall[r].row = dtRow /\ (~dtBroken => ApplicantIsSent)

(* What the form may hold.                                                 *)
Postable(posted) == IF dtRow.paid THEN posted.tuition # 0 ELSE posted.tuition = 0

Editing(r) ==
  LET posted == dtCall[r].posted IN
  /\ dtCall[r].pc \in {"values", "signer", "contract"} => dtJob = "done" /\ Postable(posted)
  /\ dtCall[r].pc = "values" => dtCall[r].row = dtRow /\ (~dtBroken => Shows)
  /\ dtCall[r].pc \in {"signer", "contract"} =>
       /\ dtCall[r].row = Summary(dtRow, posted)
       /\ dtShown.applicant = posted.applicant /\ dtShown.paid = posted.paid
       /\ ~dtBroken => dtShown.tuition = dtCall[r].row.tuition
  /\ dtCall[r].pc = "contract" => dtSigner = dtCall[r].row.applicant

LoneDtRequest(r) ==
  dtCall[r].pc # "idle" /\ Updating(r) /\ Rendering(r) /\ Editing(r)

DtSerialInv ==
  dtSerial =>
    /\ OneDtRequest
    /\ RowAgrees
    /\ \A r \in DtRequests : DtBusy(r) => LoneDtRequest(r)
    /\ (\A r \in DtRequests : ~DtBusy(r)) => Settled

(* The step of the only request.                                           *)
DtOnly(r) == \A q \in DtRequests \ {r} : ~DtBusy(q) /\ dtCall'[q] = dtCall[q]

LEMMA DtBusyStep ==
  ASSUME NEW r \in DtRequests, DtOnly(r), RowAgrees', LoneDtRequest(r)'
  PROVE  DtSerialInv'
<1>1. \A q \in DtRequests \ {r} : ~DtBusy(q)'
  BY DEF DtOnly, DtBusy
<1>2. DtBusy(r)'
  BY DEF LoneDtRequest, DtBusy, DtIdle
<1> QED  BY <1>1, <1>2 DEF DtSerialInv, OneDtRequest

LEMMA DtLastStep ==
  ASSUME NEW r \in DtRequests, DtOnly(r), RowAgrees', dtCall'[r] = DtIdle, Settled'
  PROVE  DtSerialInv'
<1>1. \A q \in DtRequests : ~DtBusy(q)'
  BY DEF DtOnly, DtBusy
<1> QED  BY <1>1 DEF DtSerialInv, OneDtRequest

LEMMA DtGoesOn ==
  ASSUME DtSerialInv, dtSerial, NEW r \in DtRequests, dtCall[r].pc # "idle",
         DtOthersRest(r)
  PROVE  DtOnly(r) /\ RowAgrees /\ LoneDtRequest(r)
<1>1. DtBusy(r)
  BY DEF DtBusy, DtIdle
<1> QED  BY <1>1 DEF DtSerialInv, OneDtRequest, DtOnly, DtOthersRest

LEMMA RowStays ==
  ASSUME RowAgrees, UNCHANGED dtRow
  PROVE  RowAgrees'
BY DEF RowAgrees, BuildValues

(* A request begins in peace ...                                           *)
LEMMA DtBegins ==
  ASSUME DtTypeOK, DtSerialInv, dtSerial, NEW r \in DtRequests,
         BeginUpdate(r) \/ BeginRender(r) \/ BeginEdit(r)
  PROVE  DtSerialInv'
<1>1. \A q \in DtRequests : ~DtBusy(q)
  BY DEF BeginUpdate, BeginRender, BeginEdit, DtBegin, DtBusy
<1>2. Settled /\ RowAgrees /\ DtOnly(r)
  BY <1>1, DtBeginsTyped DEF DtSerialInv, DtOnly, DtOthersRest
<1>3. UNCHANGED <<dtRow, dtShown, dtSigner, dtBroken>> /\ RowAgrees'
  BY <1>2, RowStays DEF BeginUpdate, BeginRender, BeginEdit
<1>4. CASE BeginUpdate(r)
  <2>1. dtCall'[r].pc = "update" /\ dtJob' = dtJob
    BY <1>4, DtBeginTyped DEF BeginUpdate, DtPc
  <2>2. Settled'
    BY <1>2, <1>3, <2>1 DEF Settled, Shows, ApplicantIsSent
  <2>3. LoneDtRequest(r)'
    BY <2>1, <2>2 DEF LoneDtRequest, Updating, Rendering, Editing
  <2> QED  BY <1>2, <1>3, <2>3, DtBusyStep
<1>5. CASE BeginRender(r)
  <2>1. dtCall'[r].pc = "render" /\ dtCall'[r].row = dtRow /\ dtJob = "queued"
    BY <1>5, DtBeginTyped DEF BeginRender, DtPc
  <2>2. ~dtBroken => ApplicantIsSent
    BY <1>2, <2>1 DEF Settled
  <2>3. LoneDtRequest(r)'
    BY <1>3, <2>1, <2>2
    DEF LoneDtRequest, Updating, Rendering, Editing, ApplicantIsSent
  <2> QED  BY <1>2, <1>3, <2>3, DtBusyStep
<1>6. CASE BeginEdit(r)
  <2>1. PICK posted \in FieldValues :
          /\ IF dtRow.paid THEN posted.tuition # 0 /\ posted.paid
             ELSE posted.tuition = 0 /\ posted.paid = dtShown.paid
          /\ dtCall' = [dtCall EXCEPT ![r] = [pc |-> "values", row |-> dtRow,
                                              posted |-> posted]]
    BY <1>6 DEF BeginEdit
  <2>2. /\ dtCall'[r].pc = "values" /\ dtCall'[r].row = dtRow
        /\ dtCall'[r].posted = posted /\ dtJob' = dtJob /\ dtJob = "done"
    BY <1>6, <2>1 DEF BeginEdit, DtTypeOK
  <2>3. ~dtBroken => Shows
    BY <1>2, <2>2 DEF Settled
  <2>4. Postable(dtCall[r].posted)'
    BY <1>3, <2>1, <2>2 DEF Postable
  <2>5. Editing(r)'
    BY <1>3, <2>2, <2>3, <2>4 DEF Editing, Shows
  <2>6. LoneDtRequest(r)'
    BY <2>2, <2>5 DEF LoneDtRequest, Updating, Rendering
  <2> QED  BY <1>2, <1>3, <2>6, DtBusyStep
<1> QED  BY <1>4, <1>5, <1>6

(* ... an update leaves what is to be rendered ...                         *)
LEMMA UpdateAgrees ==
  ASSUME DtTypeOK, DtSerialInv, dtSerial, NEW r \in DtRequests, UpdateContractShell(r)
  PROVE  DtSerialInv'
<1>1. /\ dtCall[r].pc = "update" /\ dtJob' = dtJob
      /\ dtCall'[r].pc = "enqueue" /\ DtOthersRest(r)
  BY CallTyped, DtGotoTyped DEF UpdateContractShell, DtAt, DtPc, DtCall
<1>2. DtOnly(r) /\ LoneDtRequest(r)
  BY <1>1, DtGoesOn
<1>3. PICK payload \in Payload :
        dtRow' = RowOf(MergedPayload(payload, dtRow.manual), dtRow.manual)
  BY DEF UpdateContractShell, EditsToKeep
<1>4. RowAgrees'
  BY <1>3 DEF RowAgrees, RowOf, MergedPayload, BuildValues, Payload
<1>5. ApplicantIsSent' /\ dtJob' # "processing"
  BY <1>1, <1>2, <1>3 DEF ApplicantIsSent, RowOf, LoneDtRequest, Updating, Settled
<1>6. LoneDtRequest(r)'
  BY <1>1, <1>5 DEF LoneDtRequest, Updating, Rendering, Editing
<1> QED  BY <1>2, <1>4, <1>6, DtBusyStep

LEMMA EnqueueAgrees ==
  ASSUME DtTypeOK, DtSerialInv, dtSerial, NEW r \in DtRequests, EnqueueContract(r)
  PROVE  DtSerialInv'
<1>1. /\ dtCall[r].pc = "enqueue" /\ dtRow' = dtRow
      /\ dtCall'[r] = DtIdle /\ DtOthersRest(r)
  BY DtReturnTyped DEF EnqueueContract, DtAt
<1>2. DtOnly(r) /\ RowAgrees' /\ LoneDtRequest(r)
  BY <1>1, DtGoesOn, RowStays
<1>3. ApplicantIsSent /\ dtJob' = "queued"
  BY <1>1, <1>2 DEF LoneDtRequest, Updating, EnqueueContract
<1>4. Settled'
  BY <1>1, <1>3 DEF Settled, ApplicantIsSent
<1> QED  BY <1>1, <1>2, <1>4, DtLastStep

(* ... a render shows it ...                                               *)
LEMMA RenderShows ==
  ASSUME DtTypeOK, DtSerialInv, dtSerial, NEW r \in DtRequests,
         RenderContractDocuments(r)
  PROVE  DtSerialInv'
<1>1. /\ dtCall[r].pc = "render" /\ dtRow' = dtRow /\ dtBroken' = dtBroken
      /\ dtCall'[r] = DtIdle /\ DtOthersRest(r) /\ dtJob' = "done"
  BY DtReturnTyped DEF RenderContractDocuments, DtAt
<1>2. DtOnly(r) /\ RowAgrees /\ RowAgrees' /\ LoneDtRequest(r)
  BY <1>1, DtGoesOn, RowStays
<1>3. dtCall[r].row = dtRow /\ (~dtBroken => ApplicantIsSent)
  BY <1>1, <1>2 DEF LoneDtRequest, Rendering
<1>4. /\ dtShown' = BuildValues(dtRow.payload, dtRow.manual)
      /\ dtSigner' = dtRow.payload.applicant
  BY <1>3 DEF RenderContractDocuments
<1>5. ~dtBroken => Shows'
  BY <1>1, <1>2, <1>3, <1>4 DEF Shows, RowAgrees, ApplicantIsSent, BuildValues
<1>6. Settled'
  BY <1>1, <1>5 DEF Settled
<1> QED  BY <1>1, <1>2, <1>6, DtLastStep

(* ... and an edit writes itself everywhere.                               *)
LEMMA WriteAgrees ==
  ASSUME DtTypeOK, DtSerialInv, dtSerial, NEW r \in DtRequests, WriteFieldValues(r)
  PROVE  DtSerialInv'
<1> DEFINE posted == dtCall[r].posted
<1>1. /\ dtCall[r].pc = "values" /\ DtOthersRest(r)
      /\ UNCHANGED <<dtRow, dtJob, dtBroken>>
      /\ dtCall'[r].pc = "signer" /\ dtCall'[r].row = Summary(dtCall[r].row, posted)
      /\ dtCall'[r].posted = posted
  BY CallTyped DEF WriteFieldValues, DtAt, DtTypeOK, DtCall, DtOthersRest
<1>2. DtOnly(r) /\ RowAgrees' /\ LoneDtRequest(r)
  BY <1>1, DtGoesOn, RowStays
<1>3. /\ dtCall[r].row = dtRow /\ dtJob = "done" /\ Postable(posted)
      /\ ~dtBroken => Shows
  BY <1>1, <1>2 DEF LoneDtRequest, Editing
<1>4. posted \in FieldValues
  BY CallTyped
<1>5. /\ dtShown'.applicant = posted.applicant /\ dtShown'.paid = posted.paid
      /\ dtShown'.tuition = IF dtRow.paid THEN posted.tuition ELSE dtShown.tuition
  BY <1>3, <1>4 DEF WriteFieldValues, FieldValues
<1>6. Summary(dtRow, posted).tuition = IF dtRow.paid THEN posted.tuition ELSE dtRow.tuition
  BY DEF Summary, DtTypeOK, DtRow
<1>7. ~dtBroken => dtShown'.tuition = Summary(dtRow, posted).tuition
  BY <1>3, <1>5, <1>6 DEF Shows
<1>8. Postable(posted)' /\ Summary(dtRow, posted)' = Summary(dtRow, posted)
  BY <1>1, <1>3 DEF Postable, Summary
<1>9. Editing(r)'
  BY <1>1, <1>3, <1>5, <1>7, <1>8 DEF Editing
<1>10. LoneDtRequest(r)'
  BY <1>1, <1>9 DEF LoneDtRequest, Updating, Rendering
<1> QED  BY <1>2, <1>10, DtBusyStep

LEMMA SignerAgrees ==
  ASSUME DtTypeOK, DtSerialInv, dtSerial, NEW r \in DtRequests, UpdateStudentSigner(r)
  PROVE  DtSerialInv'
<1> DEFINE posted == dtCall[r].posted
<1>1. /\ dtCall[r].pc = "signer" /\ DtOthersRest(r)
      /\ UNCHANGED <<dtRow, dtShown, dtJob, dtBroken>>
      /\ dtCall'[r].pc = "contract" /\ dtCall'[r].row = dtCall[r].row
      /\ dtCall'[r].posted = posted
  BY CallTyped, DtGotoTyped DEF UpdateStudentSigner, DtAt, DtPc, DtCall
<1>2. DtOnly(r) /\ RowAgrees' /\ LoneDtRequest(r)
  BY <1>1, DtGoesOn, RowStays
<1>3. dtSigner' = dtCall'[r].row.applicant
  BY <1>1 DEF UpdateStudentSigner
<1>4. /\ Postable(posted)' <=> Postable(posted)
      /\ Summary(dtRow, posted)' = Summary(dtRow, posted)
  BY <1>1 DEF Postable, Summary
<1>5. Editing(r)'
  BY <1>1, <1>2, <1>3, <1>4 DEF LoneDtRequest, Editing
<1>6. LoneDtRequest(r)'
  BY <1>1, <1>5 DEF LoneDtRequest, Updating, Rendering
<1> QED  BY <1>2, <1>6, DtBusyStep

LEMMA SaveAgrees ==
  ASSUME DtTypeOK, DtSerialInv, dtSerial, NEW r \in DtRequests, SaveContract(r)
  PROVE  DtSerialInv'
<1> DEFINE posted == dtCall[r].posted
           manual == [present |-> TRUE, applicant |-> posted.applicant,
                      tuition |-> posted.tuition, paid |-> posted.paid]
           row == Summary(dtRow, posted)
<1>1. /\ dtCall[r].pc = "contract" /\ DtOthersRest(r)
      /\ UNCHANGED <<dtShown, dtSigner, dtJob, dtBroken>> /\ dtCall'[r] = DtIdle
  BY DtReturnTyped DEF SaveContract, DtAt
<1>2. DtOnly(r) /\ RowAgrees /\ LoneDtRequest(r)
  BY <1>1, DtGoesOn
<1>3. /\ dtCall[r].row = row /\ dtJob = "done" /\ Postable(posted)
      /\ dtShown.applicant = posted.applicant /\ dtShown.paid = posted.paid
      /\ ~dtBroken => dtShown.tuition = row.tuition
      /\ dtSigner = row.applicant
  BY <1>1, <1>2 DEF LoneDtRequest, Editing
<1>4. row \in DtRow
  BY CallTyped, SummaryTyped DEF DtTypeOK
<1>5. dtRow' = [row EXCEPT !.paid = dtRow.paid, !.manual = manual]
  BY <1>3 DEF SaveContract
<1>6. /\ row.payload = dtRow.payload
      /\ row.tuition = IF dtRow.paid THEN posted.tuition ELSE dtRow.tuition
  BY DEF Summary, DtTypeOK, DtRow
<1> HIDE DEF row
<1>7. /\ dtRow'.paid = dtRow.paid /\ dtRow'.payload = dtRow.payload
      /\ dtRow'.tuition = row.tuition /\ dtRow'.applicant = row.applicant
      /\ dtRow'.manual = manual
  BY <1>4, <1>5, <1>6 DEF DtRow
<1>8. RowAgrees'
  <2>1. posted.tuition \in Nat
    BY CallTyped DEF FieldValues
  <2> QED
    BY <1>2, <1>3, <1>6, <1>7, <2>1 DEF RowAgrees, BuildValues, Postable
<1>9. ~dtBroken => Shows'
  BY <1>1, <1>3, <1>7 DEF Shows
<1>10. Settled'
  BY <1>1, <1>3, <1>9 DEF Settled
<1> QED  BY <1>1, <1>2, <1>8, <1>10, DtLastStep

(* A render that broke off is queued again.                                *)
LEMMA DtBreakOffAgrees ==
  ASSUME DtTypeOK, DtSerialInv, dtSerial, NEW r \in DtRequests, DtBreakOff(r)
  PROVE  DtSerialInv'
<1>1. /\ UNCHANGED <<dtRow, dtShown, dtSigner>> /\ DtOthersRest(r) /\ dtCall'[r] = DtIdle
      /\ DtBusy(r)
  BY DtReturnTyped DEF DtBreakOff, DtBusy
<1>2. /\ dtCall[r].pc # "idle"
      /\ dtCall[r].pc \in DtPc
  BY <1>1, CallTyped DEF DtSerialInv, LoneDtRequest, DtCall
<1>3. DtOnly(r) /\ RowAgrees' /\ LoneDtRequest(r)
  BY <1>1, <1>2, DtGoesOn, RowStays
<1>4. CASE dtCall[r].pc = "update"
  <2>1. Settled /\ dtJob' = dtJob /\ dtBroken' = dtBroken
    BY <1>3, <1>4 DEF LoneDtRequest, Updating, DtBreakOff, DtAt, DtTypeOK
  <2>2. Settled'
    BY <1>1, <2>1 DEF Settled, Shows, ApplicantIsSent
  <2> QED  BY <1>1, <1>3, <2>2, DtLastStep
<1>5. CASE dtCall[r].pc = "render"
  <2>1. dtJob' = "queued" /\ dtBroken' = dtBroken /\ (~dtBroken => ApplicantIsSent)
    BY <1>3, <1>5 DEF LoneDtRequest, Rendering, DtBreakOff, DtAt, DtTypeOK
  <2>2. Settled'
    BY <1>1, <2>1 DEF Settled, ApplicantIsSent
  <2> QED  BY <1>1, <1>3, <2>2, DtLastStep
<1>6. CASE dtCall[r].pc \in {"enqueue", "values", "signer", "contract"}
  <2>1. dtJob' = dtJob /\ dtBroken' /\ dtJob # "processing"
    BY <1>3, <1>6 DEF LoneDtRequest, Updating, Editing, DtBreakOff, DtAt
  <2>2. Settled'
    BY <2>1 DEF Settled
  <2> QED  BY <1>1, <1>3, <2>2, DtLastStep
<1> QED  BY <1>2, <1>4, <1>5, <1>6 DEF DtPc

LEMMA DtInitSerial == DtInit => DtSerialInv
<1> SUFFICES ASSUME DtInit PROVE DtSerialInv
  OBVIOUS
<1>1. \A r \in DtRequests : ~DtBusy(r)
  BY DEF DtInit, DtBusy
<1>2. RowAgrees
  BY DEF DtInit, RowAgrees, RowOf, BuildValues, FirstPayload, NoEdits
<1>3. Settled
  BY DEF DtInit, Settled, Shows, RowOf, FirstPayload, NoEdits
<1> QED  BY <1>1, <1>2, <1>3 DEF DtSerialInv, OneDtRequest

LEMMA DtSerialStep ==
  ASSUME DtTypeOK, DtSerialInv, [DtNext]_dtVars
  PROVE  DtSerialInv'
<1>1. dtSerial' = dtSerial
  BY DEF DtNext, dtVars, BeginUpdate, UpdateContractShell, EnqueueContract, BeginRender,
         RenderContractDocuments, BeginEdit, WriteFieldValues, UpdateStudentSigner,
         SaveContract, DtBreakOff
<1>2. CASE ~dtSerial
  BY <1>1, <1>2 DEF DtSerialInv
<1>3. CASE UNCHANGED dtVars
  BY <1>3
  DEF dtVars, DtSerialInv, OneDtRequest, RowAgrees, BuildValues, DtBusy, LoneDtRequest,
      Updating, Rendering, Editing, Postable, Summary, Settled, Shows, ApplicantIsSent
<1>4. CASE dtSerial /\ DtNext
  <2>1. PICK r \in DtRequests :
          \/ BeginUpdate(r) \/ BeginRender(r) \/ BeginEdit(r)
          \/ UpdateContractShell(r) \/ EnqueueContract(r) \/ RenderContractDocuments(r)
          \/ WriteFieldValues(r) \/ UpdateStudentSigner(r) \/ SaveContract(r)
          \/ DtBreakOff(r)
    BY <1>4 DEF DtNext
  <2> QED
    BY <1>4, <2>1, DtBegins, UpdateAgrees, EnqueueAgrees, RenderShows, WriteAgrees,
       SignerAgrees, SaveAgrees, DtBreakOffAgrees
<1> QED  BY <1>2, <1>3, <1>4

(* DtSerialInv is inductive on top of DtTypeOK.                            *)
THEOREM LoneDataInvariant == DtSpec => []DtSerialInv
<1>1. DtTypeOK /\ DtSerialInv /\ [DtNext]_dtVars => DtSerialInv'
  BY DtSerialStep
<1> QED  BY DtInitSerial, <1>1, AdmissionDataTypeCorrect, PTL DEF DtSpec

(* Between requests that do not overlap and do not break off, the tuition  *)
(* is the same in the row and the documents, the signer is the row's       *)
(* applicant, and the documents show the applicant's edits, or what the    *)
(* API sent (contract_builder.py:528-569, admissions/views.py:1665-1758).  *)
THEOREM LoneRequestsAreShown == DtSpec => []LoneRequestsShowTheContract
<1>1. DtSerialInv => LoneRequestsShowTheContract
  BY DEF DtSerialInv, LoneRequestsShowTheContract, Settled, Shows, DtBusy
<1> QED  BY <1>1, LoneDataInvariant, PTL
=============================================================================
