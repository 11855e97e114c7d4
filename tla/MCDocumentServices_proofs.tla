--------------------- MODULE MCDocumentServices_proofs ---------------------
(***************************************************************************)
(* The services around a document side by side.  A step of theirs is a     *)
(* step of one of them, or of none, in the eyes of each; what is a theorem *)
(* of a service by itself is therefore one of all of them together.        *)
(***************************************************************************)
EXTENDS MCDocumentServices, AuditChain_proofs, SmsOtp_proofs, Evidence_proofs,
        Admissions_proofs, DocumentServices_proofs

Everything == <<focus, vars, smsVars, ldgVars, lvVars, evVars, adVars, tpVars,
                ecVars, dtVars, mwVars>>

(* A step of the services is for each one its own or leaves it alone.      *)
LEMMA StepOfServices ==
  ASSUME [ServicesNext]_Everything
  PROVE  /\ [Next]_vars
         /\ [SmsNext]_smsVars
         /\ [LdgNext]_ldgVars
         /\ [LvNext]_lvVars
         /\ [EvNext]_evVars
         /\ [AdNext]_adVars
         /\ [TpNext]_tpVars
         /\ [EcNext]_ecVars
         /\ [DtNext]_dtVars
         /\ [MwNext]_mwVars
  <1>1. CASE UNCHANGED Everything
    BY <1>1, Zenon DEF Everything
  <1>2. CASE ServicesNext
    BY <1>2, Zenon DEF ServicesNext
  <1> QED BY <1>1, <1>2

(* So each service behaves as it does by itself.                           *)
LEMMA ServicesBehave ==
  ServicesSpec => /\ Spec
                  /\ SmsSpec
                  /\ LdgSpec
                  /\ LvSpec
                  /\ EvSpec
                  /\ AdSpec
                  /\ TpSpec
                  /\ EcSpec
                  /\ DtSpec
                  /\ MwSpec
  <1>1. ServicesInit => /\ Init
                        /\ SmsInit
                        /\ LdgInit
                        /\ LvInit
                        /\ EvInit
                        /\ AdInit
                        /\ TpInit
                        /\ EcInit
                        /\ DtInit
                        /\ MwInit
    BY DEF ServicesInit
  <1> QED BY <1>1, StepOfServices, PTL
          DEF ServicesSpec, Everything, Spec, SmsSpec, LdgSpec, LvSpec, EvSpec, AdSpec,
              TpSpec, EcSpec, DtSpec, MwSpec

(* The tables, copies and statuses of every service keep their types.      *)
THEOREM ServicesTypeCorrect == ServicesSpec => []ServicesTypeOK
  <1>1. LvInv => LvTypeOK
    BY DEF LvInv
  <1>2. TpInv => TpTypeOK
    BY DEF TpInv
  <1>3. EcInv => EcTypeOK
    BY DEF EcInv, EcTypeOK
  <1>4. MwInv => MwTypeOK
    BY DEF MwInv
  <1>5. (/\ TypeOK /\ SmsTypeOK /\ LdgTypeOK /\ LvTypeOK /\ EvTypeOK
         /\ AdTypeOK /\ TpTypeOK /\ EcTypeOK /\ DtTypeOK /\ MwTypeOK)
        => ServicesTypeOK
    BY Zenon DEF ServicesTypeOK
  <1> QED BY <1>1, <1>2, <1>3, <1>4, <1>5, ServicesBehave, ChainTypeCorrect,
             SmsTypeCorrect, LedgerTypeCorrect, EvidenceTypeCorrect,
             AdmissionsTypeCorrect, AdmissionDataTypeCorrect, LawVisionInvariant,
             TemplatesInvariant, EcpVerifierInvariant, MoneyWordsInvariant, PTL

(* Whatever the services promise by themselves, in any state ...           *)
THEOREM ServicesKeepTheirInvariants ==
  ServicesSpec => [](/\ LoneAppendsFollow
                     /\ CodesKeepTheCooldown
                     /\ SignatureIsMarked
                     /\ NoSignerIsLockedOut
                     /\ SubmittedIsProven
                     /\ LedgeredOnceUnlessUnheard
                     /\ HashesTellContents
                     /\ LinkedContentIsStored
                     /\ BundleIsConsistent
                     /\ SignedInOrder
                     /\ LoneRequestMirrors
                     /\ TemplateFileExists
                     /\ LoneRequestsAgree
                     /\ RenderedNamesHaveFields
                     /\ ValidityFollowsTheChain
                     /\ LoneRequestsShowTheContract
                     /\ WordsSayTheAmount)
  BY ServicesBehave, LoneEntriesFollow, CodesAreSpaced, SignaturesStayMarked,
     NobodyIsLockedOut, SubmittedRecordsAreProven, DocumentsAreLedgeredOnce,
     HashesAreTold, OfferedFilesAreStored, BundlesAreConsistent,
     ContractsAreSignedInOrder, LoneRequestsAreMirrored, TemplatesHaveFiles,
     LoneTemplatesAgree, RenderedDocumentsHaveFields, ValidSignaturesHaveChains,
     LoneRequestsAreShown, AmountsAreSaid, PTL

(* ... or in any step, they keep side by side.                             *)
THEOREM ServicesKeepTheirSteps ==
  ServicesSpec => /\ BrokenStaysBroken
                  /\ SuccessIsKept
                  /\ LoneDeletionSparesRector
                  /\ EditsAreKept
                  /\ KeepsThePromise
  BY ServicesBehave, BrokenChainStaysBroken, ReportsAreKept,
     LoneDeletionsSpareTheRector, ApplicantsEditsAreKept, AdmissionsKeepThePromise, PTL
=============================================================================
