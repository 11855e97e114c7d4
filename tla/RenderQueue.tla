---------------------------- MODULE RenderQueue ----------------------------
(***************************************************************************)
(* Admission contracts and the background worker that renders them.        *)
(*                                                                         *)
(* The admissions API creates or updates a contract in one transaction and *)
(* queues a render job in another; worker processes poll the queue, take a *)
(* job under FOR UPDATE SKIP LOCKED and render outside that transaction;   *)
(* the applicant's page refreshes the contract's status, queues again and  *)
(* takes the applicant's signature.  Rows are saved from copies read       *)
(* earlier, as in Signing.                                                 *)
(*                                                                         *)
(* A payload is a version number, and a document is the version it shows,  *)
(* 0 when it has no rendered file.  The contracts modelled have a vice     *)
(* rector who has not signed yet, so the applicant's signature leaves the  *)
(* document partially signed and Document.save accepts further saves.      *)
(***************************************************************************)
EXTENDS Naturals, FiniteSets

CONSTANTS
  Contracts,    \* admission contracts, by external id
  Workers,      \* processes that run process_admission_render_jobs
  Requests,     \* slots for HTTP requests in flight
  Events,       \* what may happen besides creating and rendering contracts
  MaxAttempts,  \* AdmissionRenderJob.max_attempts
  MaxPayload,   \* bound on the number of payloads a contract receives
  None          \* no contract, no lock

ASSUME QueueAssumption ==
  /\ MaxAttempts \in Nat \ {0}
  /\ MaxPayload \in Nat \ {0}
  /\ None \notin Contracts
  /\ None \notin Requests
  /\ Events \subseteq {"update", "page", "sign", "crash", "abort", "stall"}

VARIABLES
  contract,      \* the admission contract row, its document and its applicant
  job,           \* the render job row of each contract
  worker,        \* what each worker has read and where it stands
  request,       \* what each request has read and where it stands
  contractLock,  \* request that holds each contract row FOR UPDATE
  stolen,        \* history: jobs put back in the queue while in processing
  owed           \* history: contracts updated and not queued again since

vars == <<contract, job, worker, request, contractLock, stolen, owed>>

Payload == 0 .. MaxPayload
ContractStatus == {"absent", "document_created", "student_signing",
                   "vice_rector_pending", "failed"}
ContractRow == [status : ContractStatus, payload : Payload, shown : Payload,
                signer : {"absent", "pending", "signed"}, signature : Payload]
JobStatus == {"absent", "queued", "processing", "done", "failed"}
JobRow == [status : JobStatus, attempts : 0 .. MaxAttempts,
           lock : {"none", "fresh", "stale"}, due : BOOLEAN]

(* Where a worker stands, the contract of its job, and the copies it took. *)
Work == [pc : {"idle", "acquire", "read", "render", "done", "failed_job",
               "failed_contract"},
         on : Contracts \cup {None}, attempts : 0 .. MaxAttempts,
         status : ContractStatus, payload : Payload]

(* The same for a request; reset is enqueue_contract's reset_failed.       *)
Call == [pc : {"idle", "update", "enqueue", "requeue", "refresh", "begin_sign",
               "sign", "signed"},
         on : Contracts \cup {None}, reset : BOOLEAN, attempts : 0 .. MaxAttempts,
         status : ContractStatus, ready : BOOLEAN, shown : Payload]

NoContract == [status |-> "absent", payload |-> 0, shown |-> 0,
               signer |-> "absent", signature |-> 0]
NoJob == [status |-> "absent", attempts |-> 0, lock |-> "none", due |-> FALSE]
Resting == [pc |-> "idle", on |-> None, attempts |-> 0, status |-> "absent",
            payload |-> 0]
NoCall == [pc |-> "idle", on |-> None, reset |-> FALSE, attempts |-> 0,
           status |-> "absent", ready |-> FALSE, shown |-> 0]

TypeOK ==
  /\ contract \in [Contracts -> ContractRow]
  /\ job \in [Contracts -> JobRow]
  /\ worker \in [Workers -> Work]
  /\ request \in [Requests -> Call]
  /\ contractLock \in [Contracts -> Requests \cup {None}]
  /\ stolen \subseteq Contracts
  /\ owed \subseteq Contracts

Init ==
  /\ contract = [c \in Contracts |-> NoContract]
  /\ job = [c \in Contracts |-> NoJob]
  /\ worker = [w \in Workers |-> Resting]
  /\ request = [r \in Requests |-> NoCall]
  /\ contractLock = [c \in Contracts |-> None]
  /\ stolen = {}
  /\ owed = {}

-----------------------------------------------------------------------------
Exists(c) == contract[c].status # "absent"

(* The worker has the job and has not handed it back yet.                  *)
Busy(w, c) ==
  /\ worker[w].on = c
  /\ worker[w].pc \in {"read", "render", "done", "failed_job"}

(* Contracts of C whose job is taken from a worker that is still busy.     *)
Taken(C) ==
  {c \in C : job[c].status = "processing" /\ \E w \in Workers : Busy(w, c)}

(* is_contract_ready *)
Ready(c) ==
  /\ job[c].status \notin {"queued", "processing"}
  /\ contract[c].signer # "absent"
  /\ contract[c].shown # 0

(* Mutants: the filter without max_attempts, and without the status. *)
AcquirableForever(c) ==
  /\ job[c].status = "queued"
  /\ job[c].due
  /\ contractLock[c] = None

AcquirableInProcessing(c) ==
  /\ job[c].status \in {"queued", "processing"}
  /\ job[c].due
  /\ job[c].attempts < MaxAttempts
  /\ contractLock[c] = None

(* The filter of acquire_next_job.  select_for_update(skip_locked=True)    *)
(* covers the contract that select_related joins, so a job whose contract  *)
(* is locked is skipped.                                                   *)
Acquirable(c) ==
  /\ job[c].status = "queued"
  /\ job[c].due
  /\ job[c].attempts < MaxAttempts
  /\ contractLock[c] = None

(* refresh_status_from_signers on a contract that status and signer are    *)
(* copies of: a failed contract stays failed.                              *)
RefreshedStatus(status, signer) ==
  IF status = "failed" THEN "failed"
  ELSE [absent |-> "document_created", pending |-> "student_signing",
        signed |-> "vice_rector_pending"][signer]

SaveStatus(c, status) ==
  /\ contractLock[c] = None
  /\ contract' = [contract EXCEPT ![c] = [@ EXCEPT !.status = status]]

-----------------------------------------------------------------------------
(* The worker: process_pending with its default limit of one job.          *)

Advance(w, row) == worker' = [worker EXCEPT ![w] = row]
Rest(w) == Advance(w, Resting)

(* Mutant: stale jobs are looked for among the queued ones. *)
StaleQueued(c) == job[c].status = "queued" /\ job[c].lock = "stale"

(* requeue_stale_processing_jobs is one UPDATE over all stale jobs.        *)
Stale(c) == job[c].status = "processing" /\ job[c].lock = "stale"

RequeueStale(w) ==
  /\ worker[w].pc = "idle"
  /\ Advance(w, [Resting EXCEPT !.pc = "acquire"])
  /\ job' = [c \in Contracts |->
               IF Stale(c)
               THEN [job[c] EXCEPT !.status = "queued", !.lock = "none", !.due = TRUE]
               ELSE job[c]]
  /\ stolen' = stolen \cup Taken({c \in Contracts : Stale(c)})
  /\ UNCHANGED <<contract, request, contractLock, owed>>

NothingToRender(w) ==
  /\ worker[w].pc = "acquire"
  /\ ~ \E c \in Contracts : Acquirable(c)
  /\ Rest(w)
  /\ UNCHANGED <<contract, job, request, contractLock, stolen, owed>>

AcquiredRow(row) ==
  [row EXCEPT !.status = "processing", !.lock = "fresh", !.attempts = @ + 1]

AcquireNextJob(w, c) ==
  /\ worker[w].pc = "acquire"
  /\ Acquirable(c)
  /\ job' = [job EXCEPT ![c] = AcquiredRow(@)]
  /\ Advance(w, [pc |-> "read", on |-> c, attempts |-> job'[c].attempts,
                 status |-> contract[c].status, payload |-> 0])
  /\ UNCHANGED <<contract, request, contractLock, stolen, owed>>

(* render_contract_documents reads the contract afresh, without a lock.    *)
ReadPayload(w) ==
  /\ worker[w].pc = "read"
  /\ Advance(w, [worker[w] EXCEPT !.pc = "render",
                                  !.payload = contract[worker[w].on].payload])
  /\ UNCHANGED <<contract, job, request, contractLock, stolen, owed>>

(* Its transaction commits the documents, the signers reset to pending and *)
(* the contract's status together.                                         *)
RenderContract(w) ==
  LET c == worker[w].on IN
  /\ worker[w].pc = "render"
  /\ contractLock[c] = None
  /\ contract' = [contract EXCEPT ![c] = [@ EXCEPT !.shown = worker[w].payload,
                                                   !.signer = "pending",
                                                   !.status = "student_signing"]]
  /\ Advance(w, [worker[w] EXCEPT !.pc = "done"])
  /\ UNCHANGED <<job, request, contractLock, stolen, owed>>

MarkDone(w) ==
  LET c == worker[w].on IN
  /\ worker[w].pc = "done"
  /\ job' = [job EXCEPT ![c] = [@ EXCEPT !.status = "done", !.lock = "none"]]
  /\ Rest(w)
  /\ UNCHANGED <<contract, request, contractLock, stolen, owed>>

(* Any exception of the rendering, a deadlock with an update included.     *)
RenderFails(w) ==
  /\ worker[w].pc \in {"read", "render"}
  /\ Advance(w, [worker[w] EXCEPT !.pc = "failed_job"])
  /\ UNCHANGED <<contract, job, request, contractLock, stolen, owed>>

Exhausted(w) == worker[w].attempts >= MaxAttempts

(* Mutant: the last failed attempt falls through to DONE. *)
FailedRowDone(w, row) ==
  IF Exhausted(w) THEN [row EXCEPT !.status = "done", !.lock = "none"]
  ELSE [row EXCEPT !.status = "queued", !.lock = "none", !.due = FALSE]

(* mark_failed_attempt saves the job, then the contract's status: FAILED,  *)
(* or the one the contract had when the job was acquired.                  *)
FailedRow(w, row) ==
  IF Exhausted(w) THEN [row EXCEPT !.status = "failed", !.lock = "none"]
  ELSE [row EXCEPT !.status = "queued", !.lock = "none", !.due = FALSE]

MarkFailedAttempt(w) ==
  LET c == worker[w].on IN
  /\ worker[w].pc = "failed_job"
  /\ job' = [job EXCEPT ![c] = FailedRow(w, @)]
  /\ Advance(w, [worker[w] EXCEPT !.pc = "failed_contract"])
  /\ UNCHANGED <<contract, request, contractLock, stolen, owed>>

SaveFailedContract(w) ==
  /\ worker[w].pc = "failed_contract"
  /\ SaveStatus(worker[w].on, IF Exhausted(w) THEN "failed" ELSE worker[w].status)
  /\ Rest(w)
  /\ UNCHANGED <<job, request, contractLock, stolen, owed>>

WorkerStep(w) ==
  \/ RequeueStale(w)
  \/ NothingToRender(w)
  \/ \E c \in Contracts : AcquireNextJob(w, c)
  \/ ReadPayload(w)
  \/ RenderContract(w)
  \/ MarkDone(w)
  \/ RenderFails(w)
  \/ MarkFailedAttempt(w)
  \/ SaveFailedContract(w)

(* The process dies with a job in hand; a new process takes its place.     *)
WorkerCrash(w) ==
  /\ "crash" \in Events
  /\ worker[w].on # None
  /\ Rest(w)
  /\ UNCHANGED <<contract, job, request, contractLock, stolen, owed>>

-----------------------------------------------------------------------------
(* The admissions API.                                                     *)

Answer(r) == request' = [request EXCEPT ![r] = NoCall]
Continue(r, pc) == request' = [request EXCEPT ![r] = [@ EXCEPT !.pc = pc]]

(* create_pending_from_payload, then enqueue_contract.                     *)
CreateContract(r, c) ==
  /\ request[r] = NoCall
  /\ ~Exists(c)
  /\ contract' = [contract EXCEPT ![c] = [NoContract EXCEPT
                    !.status = "document_created", !.payload = 1]]
  /\ request' = [request EXCEPT ![r] = [NoCall EXCEPT !.pc = "enqueue", !.on = c]]
  /\ UNCHANGED <<job, worker, contractLock, stolen, owed>>

(* update_pending_from_payload locks the contract and looks for signatures *)
(* of the contract's signers, whose rows it does not lock ...              *)
BeginUpdate(r, c) ==
  /\ "update" \in Events
  /\ request[r] = NoCall
  /\ Exists(c)
  /\ contractLock[c] = None
  /\ contract[c].signer # "signed"
  /\ contract[c].payload < MaxPayload
  /\ contractLock' = [contractLock EXCEPT ![c] = r]
  /\ request' = [request EXCEPT ![r] = [NoCall EXCEPT !.pc = "update", !.on = c]]
  /\ UNCHANGED <<contract, job, worker, stolen, owed>>

(* ... and commits the new payload with the rendered files cleared.        *)
UpdatedRow(row) ==
  [row EXCEPT !.status = "document_created", !.payload = @ + 1, !.shown = 0]

CommitUpdate(r) ==
  LET c == request[r].on IN
  /\ request[r].pc = "update"
  /\ contract' = [contract EXCEPT ![c] = UpdatedRow(@)]
  /\ contractLock' = [contractLock EXCEPT ![c] = None]
  /\ owed' = owed \cup {c}
  /\ request' = [request EXCEPT ![r] = [@ EXCEPT !.pc = "enqueue", !.reset = TRUE]]
  /\ UNCHANGED <<job, worker, stolen>>

(* enqueue_contract keeps a job in processing, and without reset_failed a  *)
(* finished or failed one.                                                 *)
ShouldRequeue(c, reset) ==
  IF reset THEN job[c].status # "processing" ELSE job[c].status = "queued"

(* get_or_create makes the job ...                                         *)
CreateJob(r) ==
  LET c == request[r].on IN
  /\ request[r].pc = "enqueue"
  /\ job[c].status = "absent"
  /\ job' = [job EXCEPT ![c] = [NoJob EXCEPT !.status = "queued", !.due = TRUE]]
  /\ owed' = owed \ {c}
  /\ Answer(r)
  /\ UNCHANGED <<contract, worker, contractLock, stolen>>

(* ... or reads it, to be queued again from that copy ...                  *)
DecideRequeue(r) ==
  LET c == request[r].on
      reset == request[r].reset
  IN
  /\ request[r].pc = "enqueue"
  /\ job[c].status # "absent"
  /\ ShouldRequeue(c, reset)
  /\ request' = [request EXCEPT ![r] = [@ EXCEPT
       !.pc = "requeue", !.attempts = IF reset THEN 0 ELSE job[c].attempts]]
  /\ UNCHANGED <<contract, job, worker, contractLock, stolen, owed>>

(* ... or kept as it is.                                                   *)
KeepJob(r) ==
  /\ request[r].pc = "enqueue"
  /\ job[request[r].on].status # "absent"
  /\ ~ShouldRequeue(request[r].on, request[r].reset)
  /\ Answer(r)
  /\ UNCHANGED <<contract, job, worker, contractLock, stolen, owed>>

(* Mutants: locked_at, or status, is missing in update_fields. *)
RequeuedRowLocked(row, attempts) ==
  [row EXCEPT !.status = "queued", !.due = TRUE, !.attempts = attempts]

RequeuedRowStatusKept(row, attempts) ==
  [row EXCEPT !.due = TRUE, !.lock = "none", !.attempts = attempts]

RequeuedRow(row, attempts) ==
  [row EXCEPT !.status = "queued", !.due = TRUE, !.lock = "none",
              !.attempts = attempts]

(* The save that follows, whatever became of the job meanwhile.            *)
SaveRequeue(r) ==
  LET c == request[r].on IN
  /\ request[r].pc = "requeue"
  /\ job' = [job EXCEPT ![c] = RequeuedRow(@, request[r].attempts)]
  /\ stolen' = stolen \cup Taken({c})
  /\ owed' = owed \ {c}
  /\ Answer(r)
  /\ UNCHANGED <<contract, worker, contractLock>>

-----------------------------------------------------------------------------
(* The applicant's page and signature.                                     *)

(* applicant_contract: a failed contract is only shown; any other gets its *)
(* status from the copies, and a job when it was not ready.  The protected *)
(* link's page saves the status and no more.                               *)
OpenPage(r, c) ==
  /\ "page" \in Events
  /\ request[r] = NoCall
  /\ contract[c].status \notin {"absent", "failed"}
  /\ request' = [request EXCEPT ![r] = [NoCall EXCEPT
       !.pc = "refresh", !.on = c, !.ready = Ready(c),
       !.status = RefreshedStatus(contract[c].status, contract[c].signer)]]
  /\ UNCHANGED <<contract, job, worker, contractLock, stolen, owed>>

RefreshStatus(r) ==
  /\ request[r].pc = "refresh"
  /\ SaveStatus(request[r].on, request[r].status)
  /\ \/ Answer(r)
     \/ ~request[r].ready /\ Continue(r, "enqueue")
  /\ UNCHANGED <<job, worker, contractLock, stolen, owed>>

(* applicant_ecp_signing_complete: ready, and not signed yet.              *)
StartSignature(r, c) ==
  /\ "sign" \in Events
  /\ request[r] = NoCall
  /\ Ready(c)
  /\ contract[c].signer # "signed"
  /\ request' = [request EXCEPT ![r] = [NoCall EXCEPT
       !.pc = "begin_sign", !.on = c, !.shown = contract[c].shown,
       !.status = RefreshedStatus(contract[c].status, "signed")]]
  /\ UNCHANGED <<contract, job, worker, contractLock, stolen, owed>>

(* The signer's method and status are saved from the copy.                 *)
BeginSignature(r) ==
  /\ request[r].pc = "begin_sign"
  /\ contract' = [contract EXCEPT ![request[r].on] = [@ EXCEPT !.signer = "pending"]]
  /\ Continue(r, "sign")
  /\ UNCHANGED <<job, worker, contractLock, stolen, owed>>

(* EcpSigningService.complete_signing over the copy's hash.                *)
CommitSignature(r) ==
  LET c == request[r].on IN
  /\ request[r].pc = "sign"
  /\ contract[c].signature = 0
  /\ contract' = [contract EXCEPT ![c] = [@ EXCEPT !.signature = request[r].shown,
                                                   !.signer = "signed"]]
  /\ Continue(r, "signed")
  /\ UNCHANGED <<job, worker, contractLock, stolen, owed>>

(* An error of the signing, such as the IntegrityError of a second         *)
(* signature, ends the request; a contract that had failed keeps its       *)
(* status.                                                                 *)
EndSigning(r) ==
  /\ \/ request[r].pc = "sign"
     \/ request[r].pc = "signed" /\ request[r].status = "failed"
  /\ Answer(r)
  /\ UNCHANGED <<contract, job, worker, contractLock, stolen, owed>>

(* The contract's status follows in a save of its own.                     *)
SaveSignedStatus(r) ==
  /\ request[r].pc = "signed"
  /\ request[r].status # "failed"
  /\ SaveStatus(request[r].on, request[r].status)
  /\ Answer(r)
  /\ UNCHANGED <<job, worker, contractLock, stolen, owed>>

RequestArrives(r) ==
  \E c \in Contracts :
    \/ CreateContract(r, c)
    \/ BeginUpdate(r, c)
    \/ OpenPage(r, c)
    \/ StartSignature(r, c)

RequestStep(r) ==
  \/ CommitUpdate(r)
  \/ CreateJob(r)
  \/ DecideRequeue(r)
  \/ KeepJob(r)
  \/ SaveRequeue(r)
  \/ RefreshStatus(r)
  \/ BeginSignature(r)
  \/ CommitSignature(r)
  \/ EndSigning(r)
  \/ SaveSignedStatus(r)

(* The web server dies between two statements; a transaction rolls back.   *)
RequestAborts(r) ==
  /\ "abort" \in Events
  /\ request[r] # NoCall
  /\ contractLock' = [c \in Contracts |-> IF contractLock[c] = r THEN None
                                          ELSE contractLock[c]]
  /\ Answer(r)
  /\ UNCHANGED <<contract, job, worker, stolen, owed>>

-----------------------------------------------------------------------------
(* Time: a minute until the next attempt, 20 minutes until a job in        *)
(* processing is stale.  A worker that is still busy then has stalled.     *)
RetryDelayPasses(c) ==
  /\ job[c].status = "queued"
  /\ ~job[c].due
  /\ job' = [job EXCEPT ![c] = [@ EXCEPT !.due = TRUE]]
  /\ UNCHANGED <<contract, worker, request, contractLock, stolen, owed>>

LockExpires(c) ==
  /\ job[c].lock = "fresh"
  /\ "stall" \in Events \/ ~ \E w \in Workers : worker[w].on = c
  /\ job' = [job EXCEPT ![c] = [@ EXCEPT !.lock = "stale"]]
  /\ UNCHANGED <<contract, worker, request, contractLock, stolen, owed>>

Tick(c) == RetryDelayPasses(c) \/ LockExpires(c)

Next ==
  \/ \E w \in Workers : WorkerStep(w) \/ WorkerCrash(w)
  \/ \E r \in Requests : RequestArrives(r) \/ RequestStep(r) \/ RequestAborts(r)
  \/ \E c \in Contracts : Tick(c)

Spec == Init /\ [][Next]_vars

(* The worker's loop never ends and sleeps between polls, a request that   *)
(* was accepted goes on, and time passes.  Nothing makes a request arrive, *)
(* a process die or a rendering succeed.                                   *)
Fairness ==
  /\ \A w \in Workers : WF_vars(WorkerStep(w))
  /\ \A r \in Requests : WF_vars(RequestStep(r))
  /\ \A c \in Contracts : WF_vars(Tick(c))

LiveSpec == Spec /\ Fairness

-----------------------------------------------------------------------------
(***************************************************************************)
(* Properties                                                              *)
(***************************************************************************)

(* A job in processing carries the lock time by which it is found stale,   *)
(* and no other job does: whatever copies are saved over the row, a        *)
(* crashed worker's job can be recovered.                                  *)
LockedWhileProcessing ==
  \A c \in Contracts : job[c].status = "processing" <=> job[c].lock # "none"

(* No two workers render the same contract, unless its job was taken from  *)
(* a busy worker: by the stale-job recovery, or by an enqueue_contract     *)
(* that saved the status it had read before the worker came.               *)
OneWorkerUnlessStolen ==
  \A c \in Contracts \ stolen : \A v, w \in Workers :
    (Busy(v, c) /\ Busy(w, c)) => v = w

(* A finished job has rendered the latest payload, unless the job was      *)
(* taken from a worker, or an update was committed for which no job has    *)
(* been queued (because the job was in processing, or the server died      *)
(* before it queued one).                                                  *)
DoneShowsLatestPayload ==
  \A c \in Contracts \ (stolen \cup owed) :
    job[c].status = "done" => contract[c].shown = contract[c].payload

(* A contract whose job is done has its applicant's signer, whatever       *)
(* failed, crashed or was updated on the way: nobody has to sign a         *)
(* contract without signers.                                               *)
DoneHasSigner ==
  \A c \in Contracts : job[c].status = "done" => contract[c].signer # "absent"

(* A queued job is eventually done or failed, or it is queued without an   *)
(* attempt left, which acquire_next_job never takes.                       *)
OutOfAttempts(c) == job[c].status = "queued" /\ job[c].attempts = MaxAttempts

QueuedJobIsSettled ==
  \A c \in Contracts :
    job[c].status = "queued" ~>
      (job[c].status \in {"done", "failed"} \/ OutOfAttempts(c))

(* "Admission contract has already been signed and cannot be updated."     *)
SignedContractIsKept ==
  [][\A c \in Contracts : contract[c].signer = "signed" =>
       /\ contract'[c].payload = contract[c].payload
       /\ contract'[c].shown = contract[c].shown
       /\ contract'[c].signer = "signed"]_vars

(* "The contract and application files are being generated in the          *)
(* background": what the page says comes to an end.                        *)
PreparationEnds ==
  \A c \in Contracts :
    Exists(c) ~> (Ready(c) \/ contract[c].status = "failed")

=============================================================================
