------------------------- MODULE RenderQueue_proofs -------------------------
(***************************************************************************)
(* Proofs about RenderQueue.  Several of its invariants lean on each other *)
(* (one worker per job on the state of the job a busy worker holds, the    *)
(* payload a finished job shows on what its only worker has read), so they *)
(* are proved together, as the inductive invariant IInv.                   *)
(***************************************************************************)
EXTENDS RenderQueue, TLAPS

(* A job and a signer belong to a contract that exists.                    *)
RowsExist ==
  \A c \in Contracts :
    (job[c].status # "absent" \/ contract[c].signer # "absent") => Exists(c)

(* A worker with a job in hand works on an existing contract, and so does  *)
(* every request in flight; the status they may save is a real one.        *)
WorkersExist ==
  \A w \in Workers : worker[w].pc \notin {"idle", "acquire"} =>
    /\ worker[w].on \in Contracts
    /\ Exists(worker[w].on)
    /\ worker[w].status # "absent"

RequestsExist ==
  \A r \in Requests : request[r].pc # "idle" =>
    /\ request[r].on \in Contracts
    /\ Exists(request[r].on)
    /\ request[r].pc \in {"refresh", "signed"} \cup {"begin_sign", "sign"}
         => request[r].status # "absent"

(* An update in flight holds the contract row, and had room for a payload. *)
UpdateHoldsRow ==
  \A r \in Requests : request[r].pc = "update" =>
    /\ contractLock[request[r].on] = r
    /\ contract[request[r].on].payload < MaxPayload

(* The job of a busy worker is in processing unless it was taken.          *)
BusyMeansProcessing ==
  \A c \in Contracts \ stolen : \A w \in Workers :
    Busy(w, c) => job[c].status = "processing"

(* What a worker has read, and then rendered, is the latest payload.       *)
WorkerIsCurrent ==
  \A c \in Contracts \ (stolen \cup owed) : \A w \in Workers :
    worker[w].on = c =>
      /\ worker[w].pc = "render" => worker[w].payload = contract[c].payload
      /\ worker[w].pc = "done" => contract[c].shown = contract[c].payload

(* The signers are there before the job is marked done.                    *)
RenderedHasSigner ==
  \A w \in Workers : worker[w].pc = "done" =>
    contract[worker[w].on].signer # "absent"

IInv ==
  /\ TypeOK
  /\ LockedWhileProcessing
  /\ OneWorkerUnlessStolen
  /\ DoneShowsLatestPayload
  /\ DoneHasSigner
  /\ RowsExist
  /\ WorkersExist
  /\ RequestsExist
  /\ UpdateHoldsRow
  /\ BusyMeansProcessing
  /\ WorkerIsCurrent
  /\ RenderedHasSigner

-----------------------------------------------------------------------------
(* A new row of the right type keeps a table typed.                        *)
LEMMA WorkTyped ==
  ASSUME TypeOK, NEW w \in Workers, NEW row \in Work, Advance(w, row)
  PROVE  worker' \in [Workers -> Work]
BY DEF TypeOK, Advance

LEMMA CallTyped ==
  ASSUME TypeOK, NEW r \in Requests, NEW row \in Call,
         request' = [request EXCEPT ![r] = row]
  PROVE  request' \in [Requests -> Call]
BY DEF TypeOK

LEMMA JobTyped ==
  ASSUME TypeOK, NEW c \in Contracts, NEW row \in JobRow,
         job' = [job EXCEPT ![c] = row]
  PROVE  job' \in [Contracts -> JobRow]
BY DEF TypeOK

LEMMA ContractTyped ==
  ASSUME TypeOK, NEW c \in Contracts, NEW row \in ContractRow,
         contract' = [contract EXCEPT ![c] = row]
  PROVE  contract' \in [Contracts -> ContractRow]
BY DEF TypeOK

(* The rows that actions write have the type of the rows they come from.   *)
LEMMA Bounds ==
  /\ 0 \in Payload /\ 1 \in Payload
  /\ 0 \in 0 .. MaxAttempts
BY QueueAssumption DEF QueueAssumption, Payload

LEMMA FreshRows ==
  /\ Resting \in Work
  /\ [Resting EXCEPT !.pc = "acquire"] \in Work
  /\ NoCall \in Call
  /\ NoJob \in JobRow
  /\ NoContract \in ContractRow
<1>1. Resting \in Work /\ [Resting EXCEPT !.pc = "acquire"] \in Work
  BY Bounds DEF Resting, Work, ContractStatus
<1>2. NoCall \in Call
  BY Bounds DEF NoCall, Call, ContractStatus
<1>3. NoJob \in JobRow
  BY Bounds DEF NoJob, JobRow, JobStatus
<1>4. NoContract \in ContractRow
  BY Bounds DEF NoContract, ContractRow, ContractStatus
<1>q. QED BY <1>1, <1>2, <1>3, <1>4

LEMMA RowFields ==
  ASSUME TypeOK, NEW c \in Contracts
  PROVE  /\ job[c] \in JobRow
         /\ job[c].attempts \in 0 .. MaxAttempts
         /\ contract[c] \in ContractRow
         /\ contract[c].status \in ContractStatus
         /\ contract[c].payload \in Payload
         /\ contract[c].shown \in Payload
         /\ contract[c].signer \in {"absent", "pending", "signed"}
<1>1. job[c] \in JobRow /\ contract[c] \in ContractRow
  BY DEF TypeOK
<1>q. QED BY <1>1 DEF JobRow, ContractRow

LEMMA WorkFields ==
  ASSUME TypeOK, NEW w \in Workers
  PROVE  /\ worker[w] \in Work
         /\ worker[w].status \in ContractStatus
         /\ worker[w].payload \in Payload
<1>1. worker[w] \in Work
  BY DEF TypeOK
<1>q. QED BY <1>1 DEF Work

LEMMA CallFields ==
  ASSUME TypeOK, NEW r \in Requests
  PROVE  /\ request[r] \in Call
         /\ request[r].attempts \in 0 .. MaxAttempts
         /\ request[r].status \in ContractStatus
         /\ request[r].shown \in Payload
<1>1. request[r] \in Call
  BY DEF TypeOK
<1>q. QED BY <1>1 DEF Call

LEMMA AcquiredJob ==
  ASSUME NEW row \in JobRow, row.attempts < MaxAttempts
  PROVE  /\ row.attempts + 1 \in 0 .. MaxAttempts
         /\ AcquiredRow(row) \in JobRow
<1> DEFINE n == row.attempts + 1
<1>1. n \in 0 .. MaxAttempts
  BY QueueAssumption DEF QueueAssumption, JobRow
<1> HIDE DEF n
<1>2. [row EXCEPT !.status = "processing", !.lock = "fresh", !.attempts = n] \in JobRow
  BY <1>1 DEF JobRow, JobStatus
<1>q. QED BY <1>1, <1>2 DEF n, AcquiredRow

LEMMA SettledJob ==
  ASSUME NEW row \in JobRow, NEW w
  PROVE  /\ [row EXCEPT !.status = "done", !.lock = "none"] \in JobRow
         /\ FailedRow(w, row) \in JobRow
BY DEF FailedRow, JobRow, JobStatus

LEMMA QueuedJob ==
  ASSUME NEW row \in JobRow, NEW n \in 0 .. MaxAttempts
  PROVE  /\ RequeuedRow(row, n) \in JobRow
         /\ [NoJob EXCEPT !.status = "queued", !.due = TRUE] \in JobRow
BY Bounds DEF RequeuedRow, NoJob, JobRow, JobStatus

LEMMA TimedJob ==
  ASSUME NEW row \in JobRow
  PROVE  /\ [row EXCEPT !.due = TRUE] \in JobRow
         /\ [row EXCEPT !.lock = "stale"] \in JobRow
         /\ [row EXCEPT !.status = "queued", !.lock = "none", !.due = TRUE] \in JobRow
BY DEF JobRow, JobStatus

LEMMA RenderedContract ==
  ASSUME NEW row \in ContractRow, NEW status \in ContractStatus, NEW p \in Payload
  PROVE  /\ [row EXCEPT !.status = status] \in ContractRow
         /\ [row EXCEPT !.shown = p, !.signer = "pending",
                        !.status = "student_signing"] \in ContractRow
BY DEF ContractRow, ContractStatus

LEMMA UpdatedContract ==
  ASSUME NEW row \in ContractRow, row.payload < MaxPayload
  PROVE  UpdatedRow(row) \in ContractRow
<1> DEFINE n == row.payload + 1
<1>1. n \in Payload
  BY QueueAssumption DEF QueueAssumption, ContractRow, Payload
<1> HIDE DEF n
<1>2. [row EXCEPT !.status = "document_created", !.payload = n, !.shown = 0]
        \in ContractRow
  BY <1>1, Bounds DEF ContractRow, ContractStatus
<1>q. QED BY <1>2 DEF n, UpdatedRow

LEMMA NewContract ==
  [NoContract EXCEPT !.status = "document_created", !.payload = 1] \in ContractRow
BY Bounds DEF NoContract, ContractRow, ContractStatus

LEMMA ContractUnderSignature ==
  ASSUME NEW row \in ContractRow, NEW p \in Payload
  PROVE  /\ [row EXCEPT !.signer = "pending"] \in ContractRow
         /\ [row EXCEPT !.signature = p, !.signer = "signed"] \in ContractRow
BY DEF ContractRow

LEMMA RefreshedTyped ==
  ASSUME NEW status \in ContractStatus, NEW who \in {"absent", "pending", "signed"}
  PROVE  RefreshedStatus(status, who) \in ContractStatus
BY DEF RefreshedStatus, ContractStatus

LEMMA WorkGoesOn ==
  ASSUME NEW row \in Work, NEW p \in Payload,
         NEW pc \in {"done", "failed_job", "failed_contract"}
  PROVE  /\ [row EXCEPT !.pc = pc] \in Work
         /\ [row EXCEPT !.pc = "render", !.payload = p] \in Work
BY DEF Work

LEMMA WorkBegins ==
  ASSUME NEW c \in Contracts, NEW n \in 0 .. MaxAttempts, NEW status \in ContractStatus
  PROVE  [pc |-> "read", on |-> c, attempts |-> n, status |-> status,
          payload |-> 0] \in Work
BY Bounds DEF Work

LEMMA CallBegins ==
  ASSUME NEW c \in Contracts, NEW pc \in {"update", "enqueue"}, NEW ready \in BOOLEAN,
         NEW status \in ContractStatus, NEW p \in Payload
  PROVE  /\ [NoCall EXCEPT !.pc = pc, !.on = c] \in Call
         /\ [NoCall EXCEPT !.pc = "refresh", !.on = c, !.ready = ready,
                           !.status = status] \in Call
         /\ [NoCall EXCEPT !.pc = "begin_sign", !.on = c, !.shown = p,
                           !.status = status] \in Call
<1> USE Bounds DEF NoCall, Call, ContractStatus
<1>1. [NoCall EXCEPT !.pc = pc, !.on = c] \in Call
  OBVIOUS
<1>2. [NoCall EXCEPT !.pc = "refresh", !.on = c, !.ready = ready, !.status = status]
        \in Call
  OBVIOUS
<1>3. [NoCall EXCEPT !.pc = "begin_sign", !.on = c, !.shown = p, !.status = status]
        \in Call
  OBVIOUS
<1>q. QED BY <1>1, <1>2, <1>3

LEMMA CallGoesOn ==
  ASSUME NEW row \in Call, NEW n \in 0 .. MaxAttempts,
         NEW pc \in {"enqueue", "sign", "signed"}
  PROVE  /\ [row EXCEPT !.pc = pc] \in Call
         /\ [row EXCEPT !.pc = "requeue", !.attempts = n] \in Call
         /\ [row EXCEPT !.pc = "enqueue", !.reset = TRUE] \in Call
BY DEF Call

-----------------------------------------------------------------------------
(* Every action keeps the invariant: its types first, then its parts.      *)
LEMMA RequeueStaleKeeps ==
  ASSUME IInv, NEW w \in Workers, RequeueStale(w)
  PROVE  IInv'
<1> USE DEF IInv
<1>1. /\ UNCHANGED <<contract, request, contractLock, owed>>
      /\ stolen \subseteq stolen'
      /\ \A c \in Contracts : Stale(c) /\ (\E v \in Workers : Busy(v, c)) => c \in stolen'
  BY DEF RequeueStale, Taken, Stale
<1>2. \A c \in Contracts :
        \/ job'[c] = job[c]
        \/ /\ Stale(c)
           /\ job[c].status = "processing"
           /\ job'[c].status = "queued"
           /\ job'[c].lock = "none"
  BY DEF RequeueStale, Stale, TypeOK, JobRow, JobStatus
<1>3. /\ worker' = [worker EXCEPT ![w] = [Resting EXCEPT !.pc = "acquire"]]
      /\ worker[w].pc = "idle"
      /\ \A v \in Workers, c \in Contracts : Busy(v, c)' => Busy(v, c)
  BY DEF RequeueStale, Advance, Resting, TypeOK, Work, Busy
<1>4. TypeOK'
  <2>1. worker' \in [Workers -> Work]
    BY <1>3, FreshRows, WorkTyped DEF Advance
  <2>2. job' \in [Contracts -> JobRow]
    <3>1. \A c \in Contracts :
            [job[c] EXCEPT !.status = "queued", !.lock = "none", !.due = TRUE] \in JobRow
      BY RowFields, TimedJob
    <3>q. QED BY <3>1, RowFields DEF RequeueStale
  <2>3. stolen' \subseteq Contracts
    BY DEF RequeueStale, Taken, TypeOK
  <2>q. QED BY <1>1, <2>1, <2>2, <2>3 DEF TypeOK
<1>5. LockedWhileProcessing'
  BY <1>2 DEF LockedWhileProcessing
<1>6. OneWorkerUnlessStolen' /\ BusyMeansProcessing'
  BY <1>1, <1>2, <1>3 DEF OneWorkerUnlessStolen, BusyMeansProcessing
<1>7. RowsExist' /\ WorkersExist' /\ RequestsExist'
  BY <1>1, <1>2, <1>3 DEF RowsExist, WorkersExist, RequestsExist, Exists, Resting,
     TypeOK, Work
<1>8. DoneHasSigner' /\ RenderedHasSigner'
  BY <1>1, <1>2, <1>3 DEF DoneHasSigner, RenderedHasSigner, Resting, TypeOK, Work
<1>9. UpdateHoldsRow'
  BY <1>1 DEF UpdateHoldsRow
<1>10. DoneShowsLatestPayload' /\ WorkerIsCurrent'
  BY <1>1, <1>2, <1>3 DEF DoneShowsLatestPayload, WorkerIsCurrent, Resting, TypeOK,
     Work
<1>q. QED BY <1>4, <1>5, <1>6, <1>7, <1>8, <1>9, <1>10 DEF IInv

LEMMA NothingToRenderKeeps ==
  ASSUME IInv, NEW w \in Workers, NothingToRender(w)
  PROVE  IInv'
<1> USE DEF IInv
<1>1. TypeOK'
  <2>1. Resting \in Work
    BY FreshRows
  <2>2. worker' \in [Workers -> Work]
    BY <2>1, WorkTyped DEF NothingToRender, Rest
  <2>q. QED BY <2>2 DEF NothingToRender, TypeOK
<1>2. LockedWhileProcessing'
  BY DEF NothingToRender, Rest, Advance, Resting, LockedWhileProcessing
<1>3. OneWorkerUnlessStolen' /\ BusyMeansProcessing'
  BY DEF NothingToRender, Rest, Advance, Resting, OneWorkerUnlessStolen,
      BusyMeansProcessing, Busy
<1>4. RowsExist' /\ WorkersExist' /\ RequestsExist'
  BY DEF NothingToRender, Rest, Advance, Resting, RowsExist, WorkersExist,
      RequestsExist, Exists
<1>5. DoneHasSigner' /\ RenderedHasSigner'
  BY DEF NothingToRender, Rest, Advance, Resting, DoneHasSigner,
      RenderedHasSigner
<1>6. UpdateHoldsRow'
  BY DEF NothingToRender, Rest, Advance, Resting, UpdateHoldsRow
<1>7. DoneShowsLatestPayload' /\ WorkerIsCurrent'
  BY DEF NothingToRender, Rest, Advance, Resting, DoneShowsLatestPayload,
      WorkerIsCurrent
<1>q. QED BY <1>1, <1>2, <1>3, <1>4, <1>5, <1>6, <1>7 DEF IInv

LEMMA AcquireNextJobKeeps ==
  ASSUME IInv, NEW w \in Workers, NEW c \in Contracts, AcquireNextJob(w, c)
  PROVE  IInv'
<1> USE DEF IInv
<1>1. TypeOK'
  <2>1. AcquiredRow(job[c]) \in JobRow
    <3>1. job[c].attempts < MaxAttempts
      BY DEF AcquireNextJob, Acquirable
    <3>q. QED BY <3>1, RowFields, AcquiredJob
  <2>2. job' \in [Contracts -> JobRow]
    BY <2>1, JobTyped DEF AcquireNextJob
  <2>3. [pc |-> "read", on |-> c, attempts |-> job'[c].attempts,
          status |-> contract[c].status, payload |-> 0] \in Work
    <3>1. job'[c].attempts = job[c].attempts + 1
      BY DEF AcquireNextJob, AcquiredRow, TypeOK, JobRow
    <3>2. job'[c].attempts \in 0 .. MaxAttempts
      BY <3>1, RowFields, AcquiredJob DEF AcquireNextJob, Acquirable
    <3>q. QED BY <3>2, RowFields, WorkBegins
  <2>4. worker' \in [Workers -> Work]
    <3> DEFINE row == [pc |-> "read", on |-> c, attempts |-> job'[c].attempts,
        status |-> contract[c].status, payload |-> 0]
    <3>1. Advance(w, row)
      BY DEF AcquireNextJob
    <3>2. row \in Work
      BY <2>3
    <3> HIDE DEF row
    <3>q. QED BY <3>1, <3>2, WorkTyped
  <2>q. QED BY <2>2, <2>4 DEF AcquireNextJob, TypeOK
<1>2. LockedWhileProcessing'
  BY DEF AcquireNextJob, Advance, Acquirable, AcquiredRow,
      LockedWhileProcessing
<1>3. OneWorkerUnlessStolen' /\ BusyMeansProcessing'
  BY DEF AcquireNextJob, Advance, Acquirable, AcquiredRow,
      OneWorkerUnlessStolen, BusyMeansProcessing, Busy, TypeOK
<1>4. RowsExist' /\ WorkersExist' /\ RequestsExist'
  BY DEF AcquireNextJob, Advance, Acquirable, AcquiredRow, RowsExist,
      WorkersExist, RequestsExist, Exists
<1>5. DoneHasSigner' /\ RenderedHasSigner'
  BY DEF AcquireNextJob, Advance, Acquirable, AcquiredRow, DoneHasSigner,
      RenderedHasSigner
<1>6. UpdateHoldsRow'
  BY DEF AcquireNextJob, Advance, Acquirable, AcquiredRow, UpdateHoldsRow
<1>7. DoneShowsLatestPayload' /\ WorkerIsCurrent'
  BY DEF AcquireNextJob, Advance, Acquirable, AcquiredRow,
      DoneShowsLatestPayload, WorkerIsCurrent
<1>q. QED BY <1>1, <1>2, <1>3, <1>4, <1>5, <1>6, <1>7 DEF IInv

LEMMA ReadPayloadKeeps ==
  ASSUME IInv, NEW w \in Workers, ReadPayload(w)
  PROVE  IInv'
<1> USE DEF IInv
<1>1. TypeOK'
  <2>1. worker[w].on \in Contracts
    BY DEF ReadPayload, WorkersExist
  <2>2. [worker[w] EXCEPT !.pc = "render",
                            !.payload = contract[worker[w].on].payload] \in Work
    BY <2>1, RowFields, WorkFields, WorkGoesOn
  <2>3. worker' \in [Workers -> Work]
    BY <2>2, WorkTyped DEF ReadPayload
  <2>q. QED BY <2>3 DEF ReadPayload, TypeOK
<1>2. LockedWhileProcessing'
  BY DEF ReadPayload, Advance, LockedWhileProcessing
<1>3. OneWorkerUnlessStolen' /\ BusyMeansProcessing'
  BY DEF ReadPayload, Advance, OneWorkerUnlessStolen, BusyMeansProcessing,
      Busy
<1>4. RowsExist' /\ WorkersExist' /\ RequestsExist'
  BY DEF ReadPayload, Advance, RowsExist, WorkersExist, RequestsExist, Exists
<1>5. DoneHasSigner' /\ RenderedHasSigner'
  BY DEF ReadPayload, Advance, DoneHasSigner, RenderedHasSigner
<1>6. UpdateHoldsRow'
  BY DEF ReadPayload, Advance, UpdateHoldsRow
<1>7. DoneShowsLatestPayload' /\ WorkerIsCurrent'
  BY DEF ReadPayload, Advance, DoneShowsLatestPayload, WorkerIsCurrent
<1>q. QED BY <1>1, <1>2, <1>3, <1>4, <1>5, <1>6, <1>7 DEF IInv

LEMMA RenderContractKeeps ==
  ASSUME IInv, NEW w \in Workers, RenderContract(w)
  PROVE  IInv'
<1> USE DEF IInv
<1>1. TypeOK'
  <2>1. worker[w].on \in Contracts
    BY DEF RenderContract, WorkersExist
  <2>2. [contract[worker[w].on] EXCEPT !.shown = worker[w].payload,
                                         !.signer = "pending",
                                         !.status = "student_signing"] \in ContractRow
    BY <2>1, RowFields, WorkFields, RenderedContract
  <2>3. contract' \in [Contracts -> ContractRow]
    BY <2>1, <2>2, ContractTyped DEF RenderContract
  <2>4. [worker[w] EXCEPT !.pc = "done"] \in Work
    BY WorkFields, WorkGoesOn, Bounds
  <2>5. worker' \in [Workers -> Work]
    BY <2>4, WorkTyped DEF RenderContract
  <2>q. QED BY <2>3, <2>5 DEF RenderContract, TypeOK
<1>2. LockedWhileProcessing'
  BY DEF RenderContract, Advance, LockedWhileProcessing
<1>3. OneWorkerUnlessStolen' /\ BusyMeansProcessing'
  BY DEF RenderContract, Advance, OneWorkerUnlessStolen, BusyMeansProcessing,
      Busy
<1>4. RowsExist' /\ WorkersExist' /\ RequestsExist'
  BY DEF RenderContract, Advance, RowsExist, WorkersExist, RequestsExist,
      Exists
<1>5. DoneHasSigner' /\ RenderedHasSigner'
  BY DEF RenderContract, Advance, DoneHasSigner, RenderedHasSigner, RowsExist,
      WorkersExist, RequestsExist, TypeOK
<1>6. UpdateHoldsRow'
  BY DEF RenderContract, Advance, UpdateHoldsRow
<1>7. DoneShowsLatestPayload' /\ WorkerIsCurrent'
  BY DEF RenderContract, Advance, DoneShowsLatestPayload, WorkerIsCurrent,
      TypeOK
<1>q. QED BY <1>1, <1>2, <1>3, <1>4, <1>5, <1>6, <1>7 DEF IInv

LEMMA MarkDoneKeeps ==
  ASSUME IInv, NEW w \in Workers, MarkDone(w)
  PROVE  IInv'
<1> USE DEF IInv
<1>1. TypeOK'
  <2>1. worker[w].on \in Contracts
    BY DEF MarkDone, WorkersExist
  <2>2. [job[worker[w].on] EXCEPT !.status = "done", !.lock = "none"] \in JobRow
    BY <2>1, RowFields, SettledJob
  <2>3. job' \in [Contracts -> JobRow]
    BY <2>1, <2>2, JobTyped DEF MarkDone
  <2>4. Resting \in Work
    BY FreshRows
  <2>5. worker' \in [Workers -> Work]
    BY <2>4, WorkTyped DEF MarkDone, Rest
  <2>q. QED BY <2>3, <2>5 DEF MarkDone, TypeOK
<1>2. LockedWhileProcessing'
  BY DEF MarkDone, Rest, Advance, Resting, LockedWhileProcessing
<1>3. OneWorkerUnlessStolen' /\ BusyMeansProcessing'
  BY DEF MarkDone, Rest, Advance, Resting, OneWorkerUnlessStolen,
      BusyMeansProcessing, Busy, TypeOK
<1>4. RowsExist' /\ WorkersExist' /\ RequestsExist'
  BY DEF MarkDone, Rest, Advance, Resting, RowsExist, WorkersExist,
      RequestsExist, Exists
<1>5. DoneHasSigner' /\ RenderedHasSigner'
  BY DEF MarkDone, Rest, Advance, Resting, DoneHasSigner, RenderedHasSigner
<1>6. UpdateHoldsRow'
  BY DEF MarkDone, Rest, Advance, Resting, UpdateHoldsRow
<1>7. DoneShowsLatestPayload' /\ WorkerIsCurrent'
  BY DEF MarkDone, Rest, Advance, Resting, DoneShowsLatestPayload,
      WorkerIsCurrent
<1>q. QED BY <1>1, <1>2, <1>3, <1>4, <1>5, <1>6, <1>7 DEF IInv

LEMMA RenderFailsKeeps ==
  ASSUME IInv, NEW w \in Workers, RenderFails(w)
  PROVE  IInv'
<1> USE DEF IInv
<1>1. TypeOK'
  <2>1. [worker[w] EXCEPT !.pc = "failed_job"] \in Work
    BY WorkFields, WorkGoesOn, Bounds
  <2>2. worker' \in [Workers -> Work]
    BY <2>1, WorkTyped DEF RenderFails
  <2>q. QED BY <2>2 DEF RenderFails, TypeOK
<1>2. LockedWhileProcessing'
  BY DEF RenderFails, Advance, LockedWhileProcessing
<1>3. OneWorkerUnlessStolen' /\ BusyMeansProcessing'
  BY DEF RenderFails, Advance, OneWorkerUnlessStolen, BusyMeansProcessing,
      Busy
<1>4. RowsExist' /\ WorkersExist' /\ RequestsExist'
  BY DEF RenderFails, Advance, RowsExist, WorkersExist, RequestsExist, Exists
<1>5. DoneHasSigner' /\ RenderedHasSigner'
  BY DEF RenderFails, Advance, DoneHasSigner, RenderedHasSigner
<1>6. UpdateHoldsRow'
  BY DEF RenderFails, Advance, UpdateHoldsRow
<1>7. DoneShowsLatestPayload' /\ WorkerIsCurrent'
  BY DEF RenderFails, Advance, DoneShowsLatestPayload, WorkerIsCurrent
<1>q. QED BY <1>1, <1>2, <1>3, <1>4, <1>5, <1>6, <1>7 DEF IInv

LEMMA MarkFailedAttemptKeeps ==
  ASSUME IInv, NEW w \in Workers, MarkFailedAttempt(w)
  PROVE  IInv'
<1> USE DEF IInv
<1>1. TypeOK'
  <2>1. worker[w].on \in Contracts
    BY DEF MarkFailedAttempt, WorkersExist
  <2>2. FailedRow(w, job[worker[w].on]) \in JobRow
    BY <2>1, RowFields, SettledJob
  <2>3. job' \in [Contracts -> JobRow]
    BY <2>1, <2>2, JobTyped DEF MarkFailedAttempt
  <2>4. [worker[w] EXCEPT !.pc = "failed_contract"] \in Work
    BY WorkFields, WorkGoesOn, Bounds
  <2>5. worker' \in [Workers -> Work]
    BY <2>4, WorkTyped DEF MarkFailedAttempt
  <2>q. QED BY <2>3, <2>5 DEF MarkFailedAttempt, TypeOK
<1>2. LockedWhileProcessing'
  BY DEF MarkFailedAttempt, Advance, FailedRow, Exhausted,
      LockedWhileProcessing
<1>3. OneWorkerUnlessStolen' /\ BusyMeansProcessing'
  BY DEF MarkFailedAttempt, Advance, FailedRow, Exhausted,
      OneWorkerUnlessStolen, BusyMeansProcessing, Busy, TypeOK
<1>4. RowsExist' /\ WorkersExist' /\ RequestsExist'
  BY DEF MarkFailedAttempt, Advance, FailedRow, Exhausted, RowsExist,
      WorkersExist, RequestsExist, Exists
<1>5. DoneHasSigner' /\ RenderedHasSigner'
  BY DEF MarkFailedAttempt, Advance, FailedRow, Exhausted, DoneHasSigner,
      RenderedHasSigner
<1>6. UpdateHoldsRow'
  BY DEF MarkFailedAttempt, Advance, FailedRow, Exhausted, UpdateHoldsRow
<1>7. DoneShowsLatestPayload' /\ WorkerIsCurrent'
  BY DEF MarkFailedAttempt, Advance, FailedRow, Exhausted,
      DoneShowsLatestPayload, WorkerIsCurrent
<1>q. QED BY <1>1, <1>2, <1>3, <1>4, <1>5, <1>6, <1>7 DEF IInv

LEMMA SaveFailedContractKeeps ==
  ASSUME IInv, NEW w \in Workers, SaveFailedContract(w)
  PROVE  IInv'
<1> USE DEF IInv
<1>1. TypeOK'
  <2>1. worker[w].on \in Contracts
    BY DEF SaveFailedContract, WorkersExist
  <2>2. [contract[worker[w].on] EXCEPT
          !.status = IF Exhausted(w) THEN "failed" ELSE worker[w].status] \in ContractRow
    <3>1. (IF Exhausted(w) THEN "failed" ELSE worker[w].status) \in ContractStatus
      BY WorkFields DEF ContractStatus
    <3>q. QED BY <2>1, <3>1, RowFields, RenderedContract, Bounds
  <2>3. contract' \in [Contracts -> ContractRow]
    BY <2>1, <2>2, ContractTyped DEF SaveFailedContract, SaveStatus
  <2>4. Resting \in Work
    BY FreshRows
  <2>5. worker' \in [Workers -> Work]
    BY <2>4, WorkTyped DEF SaveFailedContract, Rest
  <2>q. QED BY <2>3, <2>5 DEF SaveFailedContract, TypeOK, SaveStatus
<1>2. LockedWhileProcessing'
  BY DEF SaveFailedContract, Rest, Advance, Resting, SaveStatus, Exhausted,
      LockedWhileProcessing
<1>3. OneWorkerUnlessStolen' /\ BusyMeansProcessing'
  BY DEF SaveFailedContract, Rest, Advance, Resting, SaveStatus, Exhausted,
      OneWorkerUnlessStolen, BusyMeansProcessing, Busy
<1>4. RowsExist' /\ WorkersExist' /\ RequestsExist'
  BY DEF SaveFailedContract, Rest, Advance, Resting, SaveStatus, Exhausted,
      RowsExist, WorkersExist, RequestsExist, Exists
<1>5. DoneHasSigner' /\ RenderedHasSigner'
  BY DEF SaveFailedContract, Rest, Advance, Resting, SaveStatus, Exhausted,
      DoneHasSigner, RenderedHasSigner
<1>6. UpdateHoldsRow'
  BY DEF SaveFailedContract, Rest, Advance, Resting, SaveStatus, Exhausted,
      UpdateHoldsRow
<1>7. DoneShowsLatestPayload' /\ WorkerIsCurrent'
  BY DEF SaveFailedContract, Rest, Advance, Resting, SaveStatus, Exhausted,
      DoneShowsLatestPayload, WorkerIsCurrent
<1>q. QED BY <1>1, <1>2, <1>3, <1>4, <1>5, <1>6, <1>7 DEF IInv

LEMMA WorkerCrashKeeps ==
  ASSUME IInv, NEW w \in Workers, WorkerCrash(w)
  PROVE  IInv'
<1> USE DEF IInv
<1>1. TypeOK'
  <2>1. Resting \in Work
    BY FreshRows
  <2>2. worker' \in [Workers -> Work]
    BY <2>1, WorkTyped DEF WorkerCrash, Rest
  <2>q. QED BY <2>2 DEF WorkerCrash, TypeOK
<1>2. LockedWhileProcessing'
  BY DEF WorkerCrash, Rest, Advance, Resting, LockedWhileProcessing
<1>3. OneWorkerUnlessStolen' /\ BusyMeansProcessing'
  BY DEF WorkerCrash, Rest, Advance, Resting, OneWorkerUnlessStolen,
      BusyMeansProcessing, Busy
<1>4. RowsExist' /\ WorkersExist' /\ RequestsExist'
  BY DEF WorkerCrash, Rest, Advance, Resting, RowsExist, WorkersExist,
      RequestsExist, Exists
<1>5. DoneHasSigner' /\ RenderedHasSigner'
  BY DEF WorkerCrash, Rest, Advance, Resting, DoneHasSigner, RenderedHasSigner
<1>6. UpdateHoldsRow'
  BY DEF WorkerCrash, Rest, Advance, Resting, UpdateHoldsRow
<1>7. DoneShowsLatestPayload' /\ WorkerIsCurrent'
  BY DEF WorkerCrash, Rest, Advance, Resting, DoneShowsLatestPayload,
      WorkerIsCurrent
<1>q. QED BY <1>1, <1>2, <1>3, <1>4, <1>5, <1>6, <1>7 DEF IInv

LEMMA CreateContractKeeps ==
  ASSUME IInv, NEW r \in Requests, NEW c \in Contracts, CreateContract(r, c)
  PROVE  IInv'
<1> USE DEF IInv
<1>1. TypeOK'
  <2>1. [NoContract EXCEPT !.status = "document_created", !.payload = 1] \in ContractRow
    BY NewContract
  <2>2. contract' \in [Contracts -> ContractRow]
    BY <2>1, ContractTyped DEF CreateContract
  <2>3. [NoCall EXCEPT !.pc = "enqueue", !.on = c] \in Call
    BY CallBegins, Bounds, RowFields
  <2>4. request' \in [Requests -> Call]
    BY <2>3, CallTyped DEF CreateContract
  <2>q. QED BY <2>2, <2>4 DEF CreateContract, TypeOK
<1>2. LockedWhileProcessing'
  BY DEF CreateContract, NoContract, NoCall, LockedWhileProcessing
<1>3. OneWorkerUnlessStolen' /\ BusyMeansProcessing'
  BY DEF CreateContract, NoContract, NoCall, OneWorkerUnlessStolen,
      BusyMeansProcessing, Busy
<1>4. RowsExist' /\ WorkersExist' /\ RequestsExist'
  BY DEF CreateContract, NoContract, NoCall, RowsExist, WorkersExist,
      RequestsExist, Exists, TypeOK
<1>5. DoneHasSigner' /\ RenderedHasSigner'
  BY DEF CreateContract, NoContract, NoCall, DoneHasSigner, RenderedHasSigner,
      RowsExist, WorkersExist, RequestsExist
<1>6. UpdateHoldsRow'
  BY DEF CreateContract, NoContract, NoCall, UpdateHoldsRow, RequestsExist
<1>7. DoneShowsLatestPayload' /\ WorkerIsCurrent'
  BY DEF CreateContract, NoContract, NoCall, DoneShowsLatestPayload,
      WorkerIsCurrent, RowsExist, WorkersExist, Exists
<1>q. QED BY <1>1, <1>2, <1>3, <1>4, <1>5, <1>6, <1>7 DEF IInv

LEMMA BeginUpdateKeeps ==
  ASSUME IInv, NEW r \in Requests, NEW c \in Contracts, BeginUpdate(r, c)
  PROVE  IInv'
<1> USE DEF IInv
<1>1. TypeOK'
  <2>1. [NoCall EXCEPT !.pc = "update", !.on = c] \in Call
    BY CallBegins, Bounds, RowFields
  <2>2. request' \in [Requests -> Call]
    BY <2>1, CallTyped DEF BeginUpdate
  <2>q. QED BY <2>2 DEF BeginUpdate, TypeOK
<1>2. LockedWhileProcessing'
  BY DEF BeginUpdate, NoCall, LockedWhileProcessing
<1>3. OneWorkerUnlessStolen' /\ BusyMeansProcessing'
  BY DEF BeginUpdate, NoCall, OneWorkerUnlessStolen, BusyMeansProcessing, Busy
<1>4. RowsExist' /\ WorkersExist' /\ RequestsExist'
  BY DEF BeginUpdate, NoCall, RowsExist, WorkersExist, RequestsExist, Exists
<1>5. DoneHasSigner' /\ RenderedHasSigner'
  BY DEF BeginUpdate, NoCall, DoneHasSigner, RenderedHasSigner
<1>6. UpdateHoldsRow'
  BY QueueAssumption DEF BeginUpdate, NoCall, UpdateHoldsRow, RequestsExist,
      TypeOK, QueueAssumption
<1>7. DoneShowsLatestPayload' /\ WorkerIsCurrent'
  BY DEF BeginUpdate, NoCall, DoneShowsLatestPayload, WorkerIsCurrent
<1>q. QED BY <1>1, <1>2, <1>3, <1>4, <1>5, <1>6, <1>7 DEF IInv

LEMMA OpenPageKeeps ==
  ASSUME IInv, NEW r \in Requests, NEW c \in Contracts, OpenPage(r, c)
  PROVE  IInv'
<1> USE DEF IInv
<1>1. TypeOK'
  <2>1. [NoCall EXCEPT !.pc = "refresh", !.on = c, !.ready = Ready(c),
          !.status = RefreshedStatus(contract[c].status, contract[c].signer)] \in Call
    <3>1. RefreshedStatus(contract[c].status, contract[c].signer) \in ContractStatus
      BY RowFields, RefreshedTyped
    <3>2. Ready(c) \in BOOLEAN
      BY DEF Ready
    <3>q. QED BY <3>1, <3>2, CallBegins, Bounds
  <2>2. request' \in [Requests -> Call]
    BY <2>1, CallTyped DEF OpenPage
  <2>q. QED BY <2>2 DEF OpenPage, TypeOK
<1>2. LockedWhileProcessing'
  BY DEF OpenPage, NoCall, RefreshedStatus, LockedWhileProcessing
<1>3. OneWorkerUnlessStolen' /\ BusyMeansProcessing'
  BY DEF OpenPage, NoCall, RefreshedStatus, OneWorkerUnlessStolen,
      BusyMeansProcessing, Busy
<1>4. RowsExist' /\ WorkersExist' /\ RequestsExist'
  BY DEF OpenPage, NoCall, RefreshedStatus, RowsExist, WorkersExist,
      RequestsExist, Exists, TypeOK, Call, ContractRow
<1>5. DoneHasSigner' /\ RenderedHasSigner'
  BY DEF OpenPage, NoCall, RefreshedStatus, DoneHasSigner, RenderedHasSigner
<1>6. UpdateHoldsRow'
  BY DEF OpenPage, NoCall, RefreshedStatus, UpdateHoldsRow
<1>7. DoneShowsLatestPayload' /\ WorkerIsCurrent'
  BY DEF OpenPage, NoCall, RefreshedStatus, DoneShowsLatestPayload,
      WorkerIsCurrent
<1>q. QED BY <1>1, <1>2, <1>3, <1>4, <1>5, <1>6, <1>7 DEF IInv

LEMMA StartSignatureKeeps ==
  ASSUME IInv, NEW r \in Requests, NEW c \in Contracts, StartSignature(r, c)
  PROVE  IInv'
<1> USE DEF IInv
<1>1. TypeOK'
  <2>1. [NoCall EXCEPT !.pc = "begin_sign", !.on = c,
          !.shown = contract[c].shown,
          !.status = RefreshedStatus(contract[c].status, "signed")] \in Call
    <3>1. RefreshedStatus(contract[c].status, "signed") \in ContractStatus
      BY RowFields, RefreshedTyped
    <3>q. QED BY <3>1, RowFields, CallBegins
  <2>2. request' \in [Requests -> Call]
    BY <2>1, CallTyped DEF StartSignature
  <2>q. QED BY <2>2 DEF StartSignature, TypeOK
<1>2. LockedWhileProcessing'
  BY DEF StartSignature, NoCall, RefreshedStatus, Ready, LockedWhileProcessing
<1>3. OneWorkerUnlessStolen' /\ BusyMeansProcessing'
  BY DEF StartSignature, NoCall, RefreshedStatus, Ready,
      OneWorkerUnlessStolen, BusyMeansProcessing, Busy
<1>4. RowsExist' /\ WorkersExist' /\ RequestsExist'
  BY DEF StartSignature, NoCall, RefreshedStatus, Ready, RowsExist,
      WorkersExist, RequestsExist, Exists
<1>5. DoneHasSigner' /\ RenderedHasSigner'
  BY DEF StartSignature, NoCall, RefreshedStatus, Ready, DoneHasSigner,
      RenderedHasSigner
<1>6. UpdateHoldsRow'
  BY DEF StartSignature, NoCall, RefreshedStatus, Ready, UpdateHoldsRow
<1>7. DoneShowsLatestPayload' /\ WorkerIsCurrent'
  BY DEF StartSignature, NoCall, RefreshedStatus, Ready,
      DoneShowsLatestPayload, WorkerIsCurrent
<1>q. QED BY <1>1, <1>2, <1>3, <1>4, <1>5, <1>6, <1>7 DEF IInv

LEMMA CommitUpdateKeeps ==
  ASSUME IInv, NEW r \in Requests, CommitUpdate(r)
  PROVE  IInv'
<1> USE DEF IInv
<1>1. TypeOK'
  <2>1. request[r].on \in Contracts
    BY DEF CommitUpdate, RequestsExist
  <2>2. UpdatedRow(contract[request[r].on]) \in ContractRow
    <3>1. contract[request[r].on].payload < MaxPayload
      BY DEF CommitUpdate, UpdateHoldsRow
    <3>q. QED BY <2>1, <3>1, RowFields, UpdatedContract
  <2>3. contract' \in [Contracts -> ContractRow]
    BY <2>1, <2>2, ContractTyped DEF CommitUpdate
  <2>4. [request[r] EXCEPT !.pc = "enqueue", !.reset = TRUE] \in Call
    BY CallFields, CallGoesOn, Bounds
  <2>5. request' \in [Requests -> Call]
    BY <2>4, CallTyped DEF CommitUpdate
  <2>q. QED BY <2>3, <2>5 DEF CommitUpdate, TypeOK
<1>2. LockedWhileProcessing'
  BY DEF CommitUpdate, UpdatedRow, LockedWhileProcessing
<1>3. OneWorkerUnlessStolen' /\ BusyMeansProcessing'
  BY DEF CommitUpdate, UpdatedRow, OneWorkerUnlessStolen, BusyMeansProcessing,
      Busy
<1>4. RowsExist' /\ WorkersExist' /\ RequestsExist'
  BY DEF CommitUpdate, UpdatedRow, RowsExist, WorkersExist, RequestsExist,
      Exists
<1>5. DoneHasSigner' /\ RenderedHasSigner'
  BY DEF CommitUpdate, UpdatedRow, DoneHasSigner, RenderedHasSigner
<1>6. UpdateHoldsRow'
  BY DEF CommitUpdate, UpdatedRow, UpdateHoldsRow, TypeOK
<1>7. DoneShowsLatestPayload' /\ WorkerIsCurrent'
  BY DEF CommitUpdate, UpdatedRow, DoneShowsLatestPayload, WorkerIsCurrent
<1>q. QED BY <1>1, <1>2, <1>3, <1>4, <1>5, <1>6, <1>7 DEF IInv

LEMMA CreateJobKeeps ==
  ASSUME IInv, NEW r \in Requests, CreateJob(r)
  PROVE  IInv'
<1> USE DEF IInv
<1>1. TypeOK'
  <2>1. request[r].on \in Contracts
    BY DEF CreateJob, RequestsExist
  <2>2. [NoJob EXCEPT !.status = "queued", !.due = TRUE] \in JobRow
    BY <2>1, FreshRows, QueuedJob, Bounds
  <2>3. job' \in [Contracts -> JobRow]
    BY <2>1, <2>2, JobTyped DEF CreateJob
  <2>4. request' \in [Requests -> Call]
    BY FreshRows, CallTyped DEF CreateJob, Answer
  <2>q. QED BY <2>3, <2>4 DEF CreateJob, TypeOK
<1>2. LockedWhileProcessing'
  BY DEF CreateJob, NoJob, Answer, NoCall, LockedWhileProcessing
<1>3. OneWorkerUnlessStolen' /\ BusyMeansProcessing'
  BY DEF CreateJob, NoJob, Answer, NoCall, OneWorkerUnlessStolen,
      BusyMeansProcessing, Busy
<1>4. RowsExist' /\ WorkersExist' /\ RequestsExist'
  BY DEF CreateJob, NoJob, Answer, NoCall, RowsExist, WorkersExist,
      RequestsExist, Exists
<1>5. DoneHasSigner' /\ RenderedHasSigner'
  BY DEF CreateJob, NoJob, Answer, NoCall, DoneHasSigner, RenderedHasSigner
<1>6. UpdateHoldsRow'
  BY DEF CreateJob, NoJob, Answer, NoCall, UpdateHoldsRow
<1>7. DoneShowsLatestPayload' /\ WorkerIsCurrent'
  BY DEF CreateJob, NoJob, Answer, NoCall, DoneShowsLatestPayload,
      WorkerIsCurrent, OneWorkerUnlessStolen, BusyMeansProcessing,
      WorkersExist, RequestsExist, UpdateHoldsRow, Busy
<1>q. QED BY <1>1, <1>2, <1>3, <1>4, <1>5, <1>6, <1>7 DEF IInv

LEMMA DecideRequeueKeeps ==
  ASSUME IInv, NEW r \in Requests, DecideRequeue(r)
  PROVE  IInv'
<1> USE DEF IInv
<1>1. TypeOK'
  <2>1. request[r].on \in Contracts
    BY DEF DecideRequeue, RequestsExist
  <2>2. [request[r] EXCEPT !.pc = "requeue",
          !.attempts = IF request[r].reset THEN 0 ELSE job[request[r].on].attempts] \in Call
    <3>1. (IF request[r].reset THEN 0 ELSE job[request[r].on].attempts)
            \in 0 .. MaxAttempts
      BY <2>1, RowFields, Bounds
    <3>q. QED BY <3>1, CallFields, CallGoesOn
  <2>3. request' \in [Requests -> Call]
    BY <2>2, CallTyped DEF DecideRequeue
  <2>q. QED BY <2>3 DEF DecideRequeue, TypeOK
<1>2. LockedWhileProcessing'
  BY DEF DecideRequeue, ShouldRequeue, LockedWhileProcessing
<1>3. OneWorkerUnlessStolen' /\ BusyMeansProcessing'
  BY DEF DecideRequeue, ShouldRequeue, OneWorkerUnlessStolen,
      BusyMeansProcessing, Busy
<1>4. RowsExist' /\ WorkersExist' /\ RequestsExist'
  BY DEF DecideRequeue, ShouldRequeue, RowsExist, WorkersExist, RequestsExist,
      Exists
<1>5. DoneHasSigner' /\ RenderedHasSigner'
  BY DEF DecideRequeue, ShouldRequeue, DoneHasSigner, RenderedHasSigner
<1>6. UpdateHoldsRow'
  BY DEF DecideRequeue, ShouldRequeue, UpdateHoldsRow
<1>7. DoneShowsLatestPayload' /\ WorkerIsCurrent'
  BY DEF DecideRequeue, ShouldRequeue, DoneShowsLatestPayload, WorkerIsCurrent
<1>q. QED BY <1>1, <1>2, <1>3, <1>4, <1>5, <1>6, <1>7 DEF IInv

LEMMA KeepJobKeeps ==
  ASSUME IInv, NEW r \in Requests, KeepJob(r)
  PROVE  IInv'
<1> USE DEF IInv
<1>1. TypeOK'
  <2>1. request' \in [Requests -> Call]
    BY FreshRows, CallTyped DEF KeepJob, Answer
  <2>q. QED BY <2>1 DEF KeepJob, TypeOK
<1>2. LockedWhileProcessing'
  BY DEF KeepJob, Answer, NoCall, LockedWhileProcessing
<1>3. OneWorkerUnlessStolen' /\ BusyMeansProcessing'
  BY DEF KeepJob, Answer, NoCall, OneWorkerUnlessStolen, BusyMeansProcessing,
      Busy
<1>4. RowsExist' /\ WorkersExist' /\ RequestsExist'
  BY DEF KeepJob, Answer, NoCall, RowsExist, WorkersExist, RequestsExist,
      Exists
<1>5. DoneHasSigner' /\ RenderedHasSigner'
  BY DEF KeepJob, Answer, NoCall, DoneHasSigner, RenderedHasSigner
<1>6. UpdateHoldsRow'
  BY DEF KeepJob, Answer, NoCall, UpdateHoldsRow
<1>7. DoneShowsLatestPayload' /\ WorkerIsCurrent'
  BY DEF KeepJob, Answer, NoCall, DoneShowsLatestPayload, WorkerIsCurrent
<1>q. QED BY <1>1, <1>2, <1>3, <1>4, <1>5, <1>6, <1>7 DEF IInv

LEMMA SaveRequeueKeeps ==
  ASSUME IInv, NEW r \in Requests, SaveRequeue(r)
  PROVE  IInv'
<1> USE DEF IInv
<1>1. TypeOK'
  <2>1. request[r].on \in Contracts
    BY DEF SaveRequeue, RequestsExist
  <2>2. RequeuedRow(job[request[r].on], request[r].attempts) \in JobRow
    BY <2>1, RowFields, CallFields, QueuedJob
  <2>3. job' \in [Contracts -> JobRow]
    BY <2>1, <2>2, JobTyped DEF SaveRequeue
  <2>4. request' \in [Requests -> Call]
    BY FreshRows, CallTyped DEF SaveRequeue, Answer
  <2>q. QED BY <2>3, <2>4 DEF SaveRequeue, TypeOK, Taken
<1>2. LockedWhileProcessing'
  BY DEF SaveRequeue, RequeuedRow, Taken, Answer, NoCall,
      LockedWhileProcessing
<1>3. OneWorkerUnlessStolen' /\ BusyMeansProcessing'
  BY DEF SaveRequeue, RequeuedRow, Taken, Answer, NoCall,
      OneWorkerUnlessStolen, BusyMeansProcessing, Busy
<1>4. RowsExist' /\ WorkersExist' /\ RequestsExist'
  BY DEF SaveRequeue, RequeuedRow, Taken, Answer, NoCall, RowsExist,
      WorkersExist, RequestsExist, Exists
<1>5. DoneHasSigner' /\ RenderedHasSigner'
  BY DEF SaveRequeue, RequeuedRow, Taken, Answer, NoCall, DoneHasSigner,
      RenderedHasSigner
<1>6. UpdateHoldsRow'
  BY DEF SaveRequeue, RequeuedRow, Taken, Answer, NoCall, UpdateHoldsRow
<1>7. DoneShowsLatestPayload' /\ WorkerIsCurrent'
  BY DEF SaveRequeue, RequeuedRow, Taken, Answer, NoCall,
      DoneShowsLatestPayload, WorkerIsCurrent, OneWorkerUnlessStolen,
      BusyMeansProcessing, WorkersExist, RequestsExist, UpdateHoldsRow, Busy,
      TypeOK
<1>q. QED BY <1>1, <1>2, <1>3, <1>4, <1>5, <1>6, <1>7 DEF IInv

LEMMA RefreshStatusKeeps ==
  ASSUME IInv, NEW r \in Requests, RefreshStatus(r)
  PROVE  IInv'
<1> USE DEF IInv
<1>1. TypeOK'
  <2>1. request[r].on \in Contracts
    BY DEF RefreshStatus, RequestsExist
  <2>2. [contract[request[r].on] EXCEPT !.status = request[r].status] \in ContractRow
    BY <2>1, RowFields, CallFields, RenderedContract, Bounds
  <2>3. contract' \in [Contracts -> ContractRow]
    BY <2>1, <2>2, ContractTyped DEF RefreshStatus, SaveStatus
  <2>4. [request[r] EXCEPT !.pc = "enqueue"] \in Call
    BY CallFields, CallGoesOn, Bounds
  <2>5. request' \in [Requests -> Call]
    <3>1. CASE Answer(r)
      BY <3>1, FreshRows, CallTyped DEF Answer
    <3>2. CASE Continue(r, "enqueue")
      BY <3>2, <2>4, CallTyped DEF Continue
    <3>q. QED BY <3>1, <3>2 DEF RefreshStatus
  <2>q. QED BY <2>3, <2>5 DEF RefreshStatus, TypeOK, SaveStatus
<1>2. LockedWhileProcessing'
  <2>1. CASE Answer(r)
    BY <2>1 DEF RefreshStatus, SaveStatus, Answer, NoCall,
      LockedWhileProcessing
  <2>2. CASE Continue(r, "enqueue")
    BY <2>2 DEF RefreshStatus, SaveStatus, Continue, LockedWhileProcessing
  <2>q. QED BY <2>1, <2>2 DEF RefreshStatus
<1>3. OneWorkerUnlessStolen' /\ BusyMeansProcessing'
  <2>1. CASE Answer(r)
    BY <2>1 DEF RefreshStatus, SaveStatus, Answer, NoCall,
      OneWorkerUnlessStolen, BusyMeansProcessing, Busy
  <2>2. CASE Continue(r, "enqueue")
    BY <2>2 DEF RefreshStatus, SaveStatus, Continue, OneWorkerUnlessStolen,
      BusyMeansProcessing, Busy
  <2>q. QED BY <2>1, <2>2 DEF RefreshStatus
<1>4. RowsExist' /\ WorkersExist' /\ RequestsExist'
  <2>1. CASE Answer(r)
    BY <2>1 DEF RefreshStatus, SaveStatus, Answer, NoCall, RowsExist,
      WorkersExist, RequestsExist, Exists, TypeOK, ContractRow
  <2>2. CASE Continue(r, "enqueue")
    BY <2>2 DEF RefreshStatus, SaveStatus, Continue, RowsExist, WorkersExist,
      RequestsExist, Exists, TypeOK, ContractRow
  <2>q. QED BY <2>1, <2>2 DEF RefreshStatus
<1>5. DoneHasSigner' /\ RenderedHasSigner'
  <2>1. CASE Answer(r)
    BY <2>1 DEF RefreshStatus, SaveStatus, Answer, NoCall, DoneHasSigner,
      RenderedHasSigner
  <2>2. CASE Continue(r, "enqueue")
    BY <2>2 DEF RefreshStatus, SaveStatus, Continue, DoneHasSigner,
      RenderedHasSigner
  <2>q. QED BY <2>1, <2>2 DEF RefreshStatus
<1>6. UpdateHoldsRow'
  <2>1. CASE Answer(r)
    BY <2>1 DEF RefreshStatus, SaveStatus, Answer, NoCall, UpdateHoldsRow,
      TypeOK, RequestsExist
  <2>2. CASE Continue(r, "enqueue")
    BY <2>2 DEF RefreshStatus, SaveStatus, Continue, UpdateHoldsRow, TypeOK,
      RequestsExist
  <2>q. QED BY <2>1, <2>2 DEF RefreshStatus
<1>7. DoneShowsLatestPayload' /\ WorkerIsCurrent'
  <2>1. CASE Answer(r)
    BY <2>1 DEF RefreshStatus, SaveStatus, Answer, NoCall,
      DoneShowsLatestPayload, WorkerIsCurrent
  <2>2. CASE Continue(r, "enqueue")
    BY <2>2 DEF RefreshStatus, SaveStatus, Continue, DoneShowsLatestPayload,
      WorkerIsCurrent
  <2>q. QED BY <2>1, <2>2 DEF RefreshStatus
<1>q. QED BY <1>1, <1>2, <1>3, <1>4, <1>5, <1>6, <1>7 DEF IInv

LEMMA BeginSignatureKeeps ==
  ASSUME IInv, NEW r \in Requests, BeginSignature(r)
  PROVE  IInv'
<1> USE DEF IInv
<1>1. TypeOK'
  <2>1. request[r].on \in Contracts
    BY DEF BeginSignature, RequestsExist
  <2>2. [contract[request[r].on] EXCEPT !.signer = "pending"] \in ContractRow
    BY <2>1, RowFields, ContractUnderSignature, Bounds
  <2>3. contract' \in [Contracts -> ContractRow]
    BY <2>1, <2>2, ContractTyped DEF BeginSignature
  <2>4. [request[r] EXCEPT !.pc = "sign"] \in Call
    BY CallFields, CallGoesOn, Bounds
  <2>5. request' \in [Requests -> Call]
    BY <2>4, CallTyped DEF BeginSignature, Continue
  <2>q. QED BY <2>3, <2>5 DEF BeginSignature, TypeOK
<1>2. LockedWhileProcessing'
  BY DEF BeginSignature, Continue, LockedWhileProcessing
<1>3. OneWorkerUnlessStolen' /\ BusyMeansProcessing'
  BY DEF BeginSignature, Continue, OneWorkerUnlessStolen, BusyMeansProcessing,
      Busy
<1>4. RowsExist' /\ WorkersExist' /\ RequestsExist'
  BY DEF BeginSignature, Continue, RowsExist, WorkersExist, RequestsExist,
      Exists
<1>5. DoneHasSigner' /\ RenderedHasSigner'
  BY DEF BeginSignature, Continue, DoneHasSigner, RenderedHasSigner
<1>6. UpdateHoldsRow'
  BY DEF BeginSignature, Continue, UpdateHoldsRow
<1>7. DoneShowsLatestPayload' /\ WorkerIsCurrent'
  BY DEF BeginSignature, Continue, DoneShowsLatestPayload, WorkerIsCurrent
<1>q. QED BY <1>1, <1>2, <1>3, <1>4, <1>5, <1>6, <1>7 DEF IInv

LEMMA CommitSignatureKeeps ==
  ASSUME IInv, NEW r \in Requests, CommitSignature(r)
  PROVE  IInv'
<1> USE DEF IInv
<1>1. TypeOK'
  <2>1. request[r].on \in Contracts
    BY DEF CommitSignature, RequestsExist
  <2>2. [contract[request[r].on] EXCEPT !.signature = request[r].shown,
                                          !.signer = "signed"] \in ContractRow
    BY <2>1, RowFields, CallFields, ContractUnderSignature
  <2>3. contract' \in [Contracts -> ContractRow]
    BY <2>1, <2>2, ContractTyped DEF CommitSignature
  <2>4. [request[r] EXCEPT !.pc = "signed"] \in Call
    BY CallFields, CallGoesOn, Bounds
  <2>5. request' \in [Requests -> Call]
    BY <2>4, CallTyped DEF CommitSignature, Continue, Answer
  <2>q. QED BY <2>3, <2>5 DEF CommitSignature, TypeOK
<1>2. LockedWhileProcessing'
  BY DEF CommitSignature, Continue, Answer, NoCall, LockedWhileProcessing
<1>3. OneWorkerUnlessStolen' /\ BusyMeansProcessing'
  BY DEF CommitSignature, Continue, Answer, NoCall, OneWorkerUnlessStolen,
      BusyMeansProcessing, Busy
<1>4. RowsExist' /\ WorkersExist' /\ RequestsExist'
  BY DEF CommitSignature, Continue, Answer, NoCall, RowsExist, WorkersExist,
      RequestsExist, Exists
<1>5. DoneHasSigner' /\ RenderedHasSigner'
  BY DEF CommitSignature, Continue, Answer, NoCall, DoneHasSigner,
      RenderedHasSigner
<1>6. UpdateHoldsRow'
  BY DEF CommitSignature, Continue, Answer, NoCall, UpdateHoldsRow
<1>7. DoneShowsLatestPayload' /\ WorkerIsCurrent'
  BY DEF CommitSignature, Continue, Answer, NoCall, DoneShowsLatestPayload,
      WorkerIsCurrent
<1>q. QED BY <1>1, <1>2, <1>3, <1>4, <1>5, <1>6, <1>7 DEF IInv

LEMMA EndSigningKeeps ==
  ASSUME IInv, NEW r \in Requests, EndSigning(r)
  PROVE  IInv'
<1> USE DEF IInv
<1>1. TypeOK'
  <2>1. request' \in [Requests -> Call]
    BY FreshRows, CallTyped DEF EndSigning, Answer
  <2>q. QED BY <2>1 DEF EndSigning, TypeOK
<1>2. LockedWhileProcessing'
  BY DEF EndSigning, Answer, NoCall, LockedWhileProcessing
<1>3. OneWorkerUnlessStolen' /\ BusyMeansProcessing'
  BY DEF EndSigning, Answer, NoCall, OneWorkerUnlessStolen,
      BusyMeansProcessing, Busy
<1>4. RowsExist' /\ WorkersExist' /\ RequestsExist'
  BY DEF EndSigning, Answer, NoCall, RowsExist, WorkersExist, RequestsExist,
      Exists
<1>5. DoneHasSigner' /\ RenderedHasSigner'
  BY DEF EndSigning, Answer, NoCall, DoneHasSigner, RenderedHasSigner
<1>6. UpdateHoldsRow'
  BY DEF EndSigning, Answer, NoCall, UpdateHoldsRow
<1>7. DoneShowsLatestPayload' /\ WorkerIsCurrent'
  BY DEF EndSigning, Answer, NoCall, DoneShowsLatestPayload, WorkerIsCurrent
<1>q. QED BY <1>1, <1>2, <1>3, <1>4, <1>5, <1>6, <1>7 DEF IInv

LEMMA SaveSignedStatusKeeps ==
  ASSUME IInv, NEW r \in Requests, SaveSignedStatus(r)
  PROVE  IInv'
<1> USE DEF IInv
<1>1. TypeOK'
  <2>1. request[r].on \in Contracts
    BY DEF SaveSignedStatus, RequestsExist
  <2>2. [contract[request[r].on] EXCEPT !.status = request[r].status] \in ContractRow
    BY <2>1, RowFields, CallFields, RenderedContract, Bounds
  <2>3. contract' \in [Contracts -> ContractRow]
    BY <2>1, <2>2, ContractTyped DEF SaveSignedStatus, SaveStatus
  <2>4. request' \in [Requests -> Call]
    BY FreshRows, CallTyped DEF SaveSignedStatus, Answer
  <2>q. QED BY <2>3, <2>4 DEF SaveSignedStatus, TypeOK, SaveStatus
<1>2. LockedWhileProcessing'
  BY DEF SaveSignedStatus, SaveStatus, Answer, NoCall, LockedWhileProcessing
<1>3. OneWorkerUnlessStolen' /\ BusyMeansProcessing'
  BY DEF SaveSignedStatus, SaveStatus, Answer, NoCall, OneWorkerUnlessStolen,
      BusyMeansProcessing, Busy
<1>4. RowsExist' /\ WorkersExist' /\ RequestsExist'
  BY DEF SaveSignedStatus, SaveStatus, Answer, NoCall, RowsExist,
      WorkersExist, RequestsExist, Exists
<1>5. DoneHasSigner' /\ RenderedHasSigner'
  BY DEF SaveSignedStatus, SaveStatus, Answer, NoCall, DoneHasSigner,
      RenderedHasSigner
<1>6. UpdateHoldsRow'
  BY DEF SaveSignedStatus, SaveStatus, Answer, NoCall, UpdateHoldsRow
<1>7. DoneShowsLatestPayload' /\ WorkerIsCurrent'
  BY DEF SaveSignedStatus, SaveStatus, Answer, NoCall, DoneShowsLatestPayload,
      WorkerIsCurrent
<1>q. QED BY <1>1, <1>2, <1>3, <1>4, <1>5, <1>6, <1>7 DEF IInv

LEMMA RequestAbortsKeeps ==
  ASSUME IInv, NEW r \in Requests, RequestAborts(r)
  PROVE  IInv'
<1> USE DEF IInv
<1>1. TypeOK'
  <2>1. request' \in [Requests -> Call]
    BY FreshRows, CallTyped DEF RequestAborts, Answer
  <2>q. QED BY <2>1 DEF RequestAborts, TypeOK
<1>2. LockedWhileProcessing'
  BY DEF RequestAborts, Answer, NoCall, LockedWhileProcessing
<1>3. OneWorkerUnlessStolen' /\ BusyMeansProcessing'
  BY DEF RequestAborts, Answer, NoCall, OneWorkerUnlessStolen,
      BusyMeansProcessing, Busy
<1>4. RowsExist' /\ WorkersExist' /\ RequestsExist'
  BY DEF RequestAborts, Answer, NoCall, RowsExist, WorkersExist,
      RequestsExist, Exists
<1>5. DoneHasSigner' /\ RenderedHasSigner'
  BY DEF RequestAborts, Answer, NoCall, DoneHasSigner, RenderedHasSigner
<1>6. UpdateHoldsRow'
  BY DEF RequestAborts, Answer, NoCall, UpdateHoldsRow, RequestsExist, TypeOK
<1>7. DoneShowsLatestPayload' /\ WorkerIsCurrent'
  BY DEF RequestAborts, Answer, NoCall, DoneShowsLatestPayload,
      WorkerIsCurrent
<1>q. QED BY <1>1, <1>2, <1>3, <1>4, <1>5, <1>6, <1>7 DEF IInv

LEMMA RetryDelayPassesKeeps ==
  ASSUME IInv, NEW c \in Contracts, RetryDelayPasses(c)
  PROVE  IInv'
<1> USE DEF IInv
<1>1. TypeOK'
  <2>1. [job[c] EXCEPT !.due = TRUE] \in JobRow
    BY RowFields, TimedJob
  <2>2. job' \in [Contracts -> JobRow]
    BY <2>1, JobTyped DEF RetryDelayPasses
  <2>q. QED BY <2>2 DEF RetryDelayPasses, TypeOK
<1>2. LockedWhileProcessing'
  BY DEF RetryDelayPasses, LockedWhileProcessing
<1>3. OneWorkerUnlessStolen' /\ BusyMeansProcessing'
  BY DEF RetryDelayPasses, OneWorkerUnlessStolen, BusyMeansProcessing, Busy
<1>4. RowsExist' /\ WorkersExist' /\ RequestsExist'
  BY DEF RetryDelayPasses, RowsExist, WorkersExist, RequestsExist, Exists
<1>5. DoneHasSigner' /\ RenderedHasSigner'
  BY DEF RetryDelayPasses, DoneHasSigner, RenderedHasSigner
<1>6. UpdateHoldsRow'
  BY DEF RetryDelayPasses, UpdateHoldsRow
<1>7. DoneShowsLatestPayload' /\ WorkerIsCurrent'
  BY DEF RetryDelayPasses, DoneShowsLatestPayload, WorkerIsCurrent
<1>q. QED BY <1>1, <1>2, <1>3, <1>4, <1>5, <1>6, <1>7 DEF IInv

LEMMA LockExpiresKeeps ==
  ASSUME IInv, NEW c \in Contracts, LockExpires(c)
  PROVE  IInv'
<1> USE DEF IInv
<1>1. TypeOK'
  <2>1. [job[c] EXCEPT !.lock = "stale"] \in JobRow
    BY RowFields, TimedJob
  <2>2. job' \in [Contracts -> JobRow]
    BY <2>1, JobTyped DEF LockExpires
  <2>q. QED BY <2>2 DEF LockExpires, TypeOK
<1>2. LockedWhileProcessing'
  BY DEF LockExpires, LockedWhileProcessing
<1>3. OneWorkerUnlessStolen' /\ BusyMeansProcessing'
  BY DEF LockExpires, OneWorkerUnlessStolen, BusyMeansProcessing, Busy
<1>4. RowsExist' /\ WorkersExist' /\ RequestsExist'
  BY DEF LockExpires, RowsExist, WorkersExist, RequestsExist, Exists
<1>5. DoneHasSigner' /\ RenderedHasSigner'
  BY DEF LockExpires, DoneHasSigner, RenderedHasSigner
<1>6. UpdateHoldsRow'
  BY DEF LockExpires, UpdateHoldsRow
<1>7. DoneShowsLatestPayload' /\ WorkerIsCurrent'
  BY DEF LockExpires, DoneShowsLatestPayload, WorkerIsCurrent
<1>q. QED BY <1>1, <1>2, <1>3, <1>4, <1>5, <1>6, <1>7 DEF IInv

-----------------------------------------------------------------------------
LEMMA InitIInv == Init => IInv
<1> SUFFICES ASSUME Init PROVE IInv
  OBVIOUS
<1> USE QueueAssumption DEF Init, NoContract, NoJob, Resting, NoCall
<1>1. TypeOK
  BY DEF TypeOK, ContractRow, ContractStatus, JobRow, JobStatus, Work, Call, Payload
<1>2. LockedWhileProcessing /\ OneWorkerUnlessStolen /\ BusyMeansProcessing
  BY DEF LockedWhileProcessing, OneWorkerUnlessStolen, BusyMeansProcessing, Busy
<1>3. DoneShowsLatestPayload /\ DoneHasSigner /\ RowsExist
  BY DEF DoneShowsLatestPayload, DoneHasSigner, RowsExist
<1>4. WorkersExist /\ WorkerIsCurrent /\ RenderedHasSigner
  BY DEF WorkersExist, WorkerIsCurrent, RenderedHasSigner
<1>5. RequestsExist /\ UpdateHoldsRow
  BY DEF RequestsExist, UpdateHoldsRow
<1>q. QED BY <1>1, <1>2, <1>3, <1>4, <1>5 DEF IInv

LEMMA StutterKeeps ==
  ASSUME IInv, UNCHANGED vars
  PROVE  IInv'
<1> USE DEF IInv, vars
<1>1. TypeOK'
  BY DEF TypeOK
<1>2. LockedWhileProcessing' /\ OneWorkerUnlessStolen' /\ BusyMeansProcessing'
  BY DEF LockedWhileProcessing, OneWorkerUnlessStolen, BusyMeansProcessing, Busy
<1>3. DoneShowsLatestPayload' /\ DoneHasSigner' /\ RowsExist'
  BY DEF DoneShowsLatestPayload, DoneHasSigner, RowsExist, Exists
<1>4. WorkersExist' /\ WorkerIsCurrent' /\ RenderedHasSigner'
  BY DEF WorkersExist, WorkerIsCurrent, RenderedHasSigner, Exists
<1>5. RequestsExist' /\ UpdateHoldsRow'
  BY DEF RequestsExist, UpdateHoldsRow, Exists
<1>q. QED BY <1>1, <1>2, <1>3, <1>4, <1>5 DEF IInv

LEMMA StepKeeps ==
  ASSUME IInv, [Next]_vars
  PROVE  IInv'
<1>1. CASE UNCHANGED vars
  BY <1>1, StutterKeeps
<1>2. ASSUME NEW w \in Workers, WorkerStep(w)
      PROVE  IInv'
  BY <1>2, RequeueStaleKeeps, NothingToRenderKeeps, AcquireNextJobKeeps,
     ReadPayloadKeeps, RenderContractKeeps, MarkDoneKeeps, RenderFailsKeeps,
     MarkFailedAttemptKeeps, SaveFailedContractKeeps DEF WorkerStep
<1>3. ASSUME NEW w \in Workers, WorkerCrash(w)
      PROVE  IInv'
  BY <1>3, WorkerCrashKeeps
<1>4. ASSUME NEW r \in Requests, RequestArrives(r)
      PROVE  IInv'
  BY <1>4, CreateContractKeeps, BeginUpdateKeeps, OpenPageKeeps,
     StartSignatureKeeps DEF RequestArrives
<1>5. ASSUME NEW r \in Requests, RequestStep(r)
      PROVE  IInv'
  BY <1>5, CommitUpdateKeeps, CreateJobKeeps, DecideRequeueKeeps, KeepJobKeeps,
     SaveRequeueKeeps, RefreshStatusKeeps, BeginSignatureKeeps,
     CommitSignatureKeeps, EndSigningKeeps, SaveSignedStatusKeeps DEF RequestStep
<1>6. ASSUME NEW r \in Requests, RequestAborts(r)
      PROVE  IInv'
  BY <1>6, RequestAbortsKeeps
<1>7. ASSUME NEW c \in Contracts, Tick(c)
      PROVE  IInv'
  BY <1>7, RetryDelayPassesKeeps, LockExpiresKeeps DEF Tick
<1>q. QED BY <1>1, <1>2, <1>3, <1>4, <1>5, <1>6, <1>7 DEF Next

LEMMA InductiveInvariant == Spec => []IInv
BY InitIInv, StepKeeps, PTL DEF Spec

-----------------------------------------------------------------------------
(* The rows, the copies and the counters keep their types; in particular   *)
(* no copy of attempts, however stale, takes a job past max_attempts.      *)
THEOREM QueueTypeCorrect == Spec => []TypeOK
<1>1. IInv => TypeOK
  BY DEF IInv
<1>q. QED BY <1>1, InductiveInvariant, PTL

(* A job in processing has the lock time that lets it be found stale.      *)
THEOREM ProcessingIsLocked == Spec => []LockedWhileProcessing
<1>1. IInv => LockedWhileProcessing
  BY DEF IInv
<1>q. QED BY <1>1, InductiveInvariant, PTL

(* Two workers render the same contract only after a job was taken from a  *)
(* busy worker.                                                            *)
THEOREM OneWorkerPerJob == Spec => []OneWorkerUnlessStolen
<1>1. IInv => OneWorkerUnlessStolen
  BY DEF IInv
<1>q. QED BY <1>1, InductiveInvariant, PTL

(* A finished job has rendered the latest payload but for the two gaps.    *)
THEOREM LatestPayloadIsRendered == Spec => []DoneShowsLatestPayload
<1>1. IInv => DoneShowsLatestPayload
  BY DEF IInv
<1>q. QED BY <1>1, InductiveInvariant, PTL

(* A finished job leaves the contract with its applicant's signer.         *)
THEOREM DoneMeansSigner == Spec => []DoneHasSigner
<1>1. IInv => DoneHasSigner
  BY DEF IInv
<1>q. QED BY <1>1, InductiveInvariant, PTL

=============================================================================
