--------------------------- MODULE AdmissionData ---------------------------
(***************************************************************************)
(* The data of one admission contract and the places that hold them: the   *)
(* contract row with the API's payload and the applicant's manual edits in *)
(* it, the field values of its documents, and the student signer.          *)
(*                                                                         *)
(* An API update rewrites payload and row in a transaction that holds the  *)
(* row, then queues a render; the render normalises the payload again and  *)
(* rewrites fields and signer.  The applicant's edit is a request without  *)
(* a transaction that works on the contract it read first.                 *)
(*                                                                         *)
(* applicant stands for full name, IIN, phone and email, tuition for the   *)
(* amount, paid for the funding type and, in the documents, for the basis  *)
(* of admission, whose text is derived from it.  A value is a number, 0 is *)
(* the empty one.  Signatures are the subject of Admissions, the queue of  *)
(* RenderQueue: a render is tried here until it is done.                   *)
(***************************************************************************)
EXTENDS Naturals

CONSTANTS
  DtRequests,  \* slots for requests in flight at the same time
  Applicants,  \* number of values an applicant's data may have
  Amounts,     \* number of tuition amounts
  MaxChanges   \* bound on the number of updates and edits

ASSUME DtAssumption ==
  Applicants \in Nat \ {0} /\ Amounts \in Nat \ {0} /\ MaxChanges \in Nat

VARIABLES
  dtRow,      \* the contract row
  dtShown,    \* the field values of both documents
  dtSigner,   \* the applicant's data in the student signer
  dtJob,      \* status of the render job
  dtCall,     \* what each request has read and where it stands
  dtChanges,  \* number of updates and edits so far
  dtSerial,   \* history: requests run one after the other
  dtBroken    \* history: an edit broke off

dtVars == <<dtRow, dtShown, dtSigner, dtJob, dtCall, dtChanges, dtSerial, dtBroken>>

(* What normalize_payload demands of a payload: an applicant.              *)
Payload == [applicant : 1 .. Applicants, tuition : 0 .. Amounts, paid : BOOLEAN]
FieldValues == [applicant : 0 .. Applicants, tuition : 0 .. Amounts, paid : BOOLEAN]

(* raw_payload["_manual_edits"]: a tuition of 0 is a key that is missing.  *)
ManualEdits == [present : BOOLEAN, applicant : 0 .. Applicants,
                tuition : 0 .. Amounts, paid : BOOLEAN]
NoEdits == [present |-> FALSE, applicant |-> 0, tuition |-> 0, paid |-> FALSE]

DtRow == [applicant : 1 .. Applicants, tuition : 0 .. Amounts, paid : BOOLEAN,
          payload : Payload, manual : ManualEdits]

RowOf(payload, manual) ==
  [applicant |-> payload.applicant, tuition |-> payload.tuition, paid |-> payload.paid,
   payload |-> payload, manual |-> manual]

FirstPayload == [applicant |-> 1, tuition |-> 0, paid |-> TRUE]

DtPc == {"idle", "update", "enqueue", "render", "values", "signer", "contract"}
DtCall == [pc : DtPc, row : DtRow, posted : FieldValues]
DtIdle == [pc |-> "idle", row |-> RowOf(FirstPayload, NoEdits), posted |-> FirstPayload]

DtTypeOK ==
  /\ dtRow \in DtRow
  /\ dtShown \in FieldValues
  /\ dtSigner \in 1 .. Applicants
  /\ dtJob \in {"queued", "processing", "done"}
  /\ dtCall \in [DtRequests -> DtCall]
  /\ dtChanges \in 0 .. MaxChanges
  /\ dtSerial \in BOOLEAN
  /\ dtBroken \in BOOLEAN

(* A contract that was created and rendered.                               *)
DtInit ==
  /\ dtRow = RowOf(FirstPayload, NoEdits)
  /\ dtShown = FirstPayload
  /\ dtSigner = FirstPayload.applicant
  /\ dtJob = "done"
  /\ dtCall = [r \in DtRequests |-> DtIdle]
  /\ dtChanges = 0
  /\ dtSerial \in BOOLEAN
  /\ dtBroken = FALSE

-----------------------------------------------------------------------------
DtAt(r, pc) == dtCall[r].pc = pc
DtGoto(r, pc) == dtCall' = [dtCall EXCEPT ![r].pc = pc]
DtReturn(r) == dtCall' = [dtCall EXCEPT ![r] = DtIdle]

(* The request reads the contract and goes on at pc.                       *)
DtBegin(r, pc) ==
  /\ dtCall[r] = DtIdle
  /\ dtSerial => \A q \in DtRequests : dtCall[q] = DtIdle
  /\ dtCall' = [dtCall EXCEPT ![r] = [DtIdle EXCEPT !.pc = pc, !.row = dtRow]]

Changes ==
  /\ dtChanges < MaxChanges
  /\ dtChanges' = dtChanges + 1

(* admission_contract_api finds the contract by its external id.           *)
BeginUpdate(r) ==
  /\ DtBegin(r, "update")
  /\ Changes
  /\ UNCHANGED <<dtRow, dtShown, dtSigner, dtJob, dtSerial, dtBroken>>

(* Mutant: only _manual_edits is copied. *)
EditsOnly(payload, manual) == payload

(* merge_preserved_manual_edits, then normalize_payload: of the edits that *)
(* are copied into the new payload only the tuition lies where the second  *)
(* one looks first; the nested applicant is the API's.                     *)
MergedPayload(payload, manual) ==
  IF manual.present /\ manual.tuition # 0
  THEN [payload EXCEPT !.tuition = manual.tuition] ELSE payload

(* Mutant: the edits of the contract that was read before the lock. *)
EditsRead(r) == dtCall[r].row.manual

(* The edits in the row that select_for_update returns.                    *)
EditsToKeep(r) == dtRow.manual

(* _update_contract_shell                                                  *)
UpdateContractShell(r) ==
  /\ DtAt(r, "update")
  /\ \E payload \in Payload :
       dtRow' = RowOf(MergedPayload(payload, EditsToKeep(r)), EditsToKeep(r))
  /\ DtGoto(r, "enqueue")
  /\ UNCHANGED <<dtShown, dtSigner, dtJob, dtChanges, dtSerial, dtBroken>>

(* enqueue_contract: a job that is being processed is left alone.          *)
EnqueueContract(r) ==
  /\ DtAt(r, "enqueue")
  /\ dtJob' = IF dtJob = "processing" THEN dtJob ELSE "queued"
  /\ DtReturn(r)
  /\ UNCHANGED <<dtRow, dtShown, dtSigner, dtChanges, dtSerial, dtBroken>>

-----------------------------------------------------------------------------
(* The worker takes the job and render_contract_documents reads the row.   *)
BeginRender(r) ==
  /\ dtJob = "queued"
  /\ DtBegin(r, "render")
  /\ dtJob' = "processing"
  /\ UNCHANGED <<dtRow, dtShown, dtSigner, dtChanges, dtSerial, dtBroken>>

(* build_values: the manual edits, the empty ones too, override what the   *)
(* payload says; the basis is derived only where nothing sets it.          *)
BuildValues(payload, manual) ==
  IF ~manual.present THEN payload
  ELSE [applicant |-> manual.applicant,
        tuition |-> IF manual.tuition # 0 THEN manual.tuition ELSE payload.tuition,
        paid |-> manual.paid]

(* The transaction writes the field values and update_student_signer, who  *)
(* takes his data from the payload alone.                                  *)
RenderContractDocuments(r) ==
  LET row == dtCall[r].row IN
  /\ DtAt(r, "render")
  /\ dtShown' = BuildValues(row.payload, row.manual)
  /\ dtSigner' = row.payload.applicant
  /\ dtJob' = "done"
  /\ DtReturn(r)
  /\ UNCHANGED <<dtRow, dtChanges, dtSerial, dtBroken>>

-----------------------------------------------------------------------------
(* A form may be posted when the documents are ready: any applicant's data *)
(* or none; a tuition, which is required, where the contract is paid for;  *)
(* the text of the basis as it is displayed.                               *)
BeginEdit(r) ==
  /\ dtJob = "done"
  /\ dtCall[r] = DtIdle
  /\ dtSerial => \A q \in DtRequests : dtCall[q] = DtIdle
  /\ \E posted \in FieldValues :
       /\ IF dtRow.paid THEN posted.tuition # 0 /\ posted.paid
          ELSE posted.tuition = 0 /\ posted.paid = dtShown.paid
       /\ dtCall' = [dtCall EXCEPT ![r] = [pc |-> "values", row |-> dtRow,
                                           posted |-> posted]]
  /\ Changes
  /\ UNCHANGED <<dtRow, dtShown, dtSigner, dtJob, dtSerial, dtBroken>>

(* update_contract_summary_fields: an empty value keeps the contract's.    *)
Summary(row, posted) ==
  [row EXCEPT
     !.applicant = IF posted.applicant # 0 THEN posted.applicant ELSE row.applicant,
     !.tuition = IF row.paid THEN posted.tuition ELSE row.tuition]

(* update_admission_contract_fields writes the field values, renders both  *)
(* documents ...  Each value is an autocommitted statement of its own, and *)
(* each rendering too: they are one step here, for no property speaks of   *)
(* the documents while a request is on its way, or after one broke off.    *)
WriteFieldValues(r) ==
  LET posted == dtCall[r].posted
      row == dtCall[r].row
  IN
  /\ DtAt(r, "values")
  /\ dtShown' = [posted EXCEPT !.tuition = IF row.paid THEN posted.tuition
                                            ELSE dtShown.tuition]
  /\ dtCall' = [dtCall EXCEPT ![r].pc = "signer", ![r].row = Summary(row, posted)]
  /\ UNCHANGED <<dtRow, dtSigner, dtJob, dtChanges, dtSerial, dtBroken>>

(* ... saves the signer ...                                                *)
UpdateStudentSigner(r) ==
  /\ DtAt(r, "signer")
  /\ dtSigner' = dtCall[r].row.applicant
  /\ DtGoto(r, "contract")
  /\ UNCHANGED <<dtRow, dtShown, dtJob, dtChanges, dtSerial, dtBroken>>

(* ... and the contract: its summary fields, but not its funding type, and *)
(* the payload as it was read with the new edits in it.                    *)
SaveContract(r) ==
  LET row == dtCall[r].row IN
  /\ DtAt(r, "contract")
  /\ dtRow' = [row EXCEPT
       !.paid = dtRow.paid,
       !.manual = [present |-> TRUE, applicant |-> dtCall[r].posted.applicant,
                   tuition |-> dtCall[r].posted.tuition, paid |-> dtCall[r].posted.paid]]
  /\ DtReturn(r)
  /\ UNCHANGED <<dtShown, dtSigner, dtJob, dtChanges, dtSerial, dtBroken>>

(* The process dies, a document cannot be rendered, a template is missing. *)
(* A render that was begun is taken up again.                              *)
DtBreakOff(r) ==
  /\ dtCall[r] # DtIdle
  /\ dtJob' = IF DtAt(r, "render") THEN "queued" ELSE dtJob
  /\ dtBroken' = (dtBroken \/ dtCall[r].pc \notin {"update", "render"})
  /\ DtReturn(r)
  /\ UNCHANGED <<dtRow, dtShown, dtSigner, dtChanges, dtSerial>>

DtNext ==
  \E r \in DtRequests :
    \/ BeginUpdate(r) \/ UpdateContractShell(r) \/ EnqueueContract(r)
    \/ BeginRender(r) \/ RenderContractDocuments(r)
    \/ BeginEdit(r) \/ WriteFieldValues(r) \/ UpdateStudentSigner(r) \/ SaveContract(r)
    \/ DtBreakOff(r)

DtSpec == DtInit /\ [][DtNext]_dtVars

-----------------------------------------------------------------------------
(* Between requests that do not overlap and do not break off, the tuition  *)
(* is the same in the row and the documents, also when it was edited and   *)
(* the API has sent another one since; the signer is the row's applicant;  *)
(* and the documents show the applicant's edits, or what the API sent, the *)
(* basis that follows from the funding included.  With edits they need not *)
(* agree with the signer and the funding: after an edit and an update they *)
(* do not (contract_builder.py:528-569, admissions/views.py:1665-1758).    *)
LoneRequestsShowTheContract ==
  dtSerial /\ ~dtBroken /\ dtJob = "done" /\ (\A r \in DtRequests : dtCall[r] = DtIdle) =>
    /\ dtRow.tuition = dtShown.tuition
    /\ dtSigner = dtRow.applicant
    /\ IF dtRow.manual.present
       THEN dtShown.applicant = dtRow.manual.applicant /\ dtShown.paid = dtRow.manual.paid
       ELSE dtShown.applicant = dtSigner /\ dtShown.paid = dtRow.paid

(* An update never takes an applicant's edits away, even those saved after *)
(* the update had read the contract: it looks for them in the row it has   *)
(* locked (contract_builder.py:163-170).                                   *)
EditsAreKept ==
  [][dtRow.manual.present =>
       \/ dtRow'.manual = dtRow.manual
       \/ \E r \in DtRequests : DtAt(r, "contract")]_dtVars
=============================================================================
