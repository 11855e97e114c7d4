----------------------------- MODULE AuditChain -----------------------------
(***************************************************************************)
(* The hash chain of one document's signing audit log.                     *)
(*                                                                         *)
(* SigningAuditLog.save reads the last entry it can see, locks that row    *)
(* and inserts an entry that carries its hash.  SMS and ECP completions    *)
(* append several entries in one transaction, every other handler commits  *)
(* each entry.  PostgreSQL runs READ COMMITTED: the row to lock is chosen  *)
(* from the statement's snapshot, and a wait for its lock does not choose  *)
(* again, because the row itself is unchanged.                             *)
(*                                                                         *)
(* SHA-256 is taken to be injective, so a hash is the sequence of events   *)
(* it chains: <<>> is the empty previous_hash of a first entry.            *)
(***************************************************************************)
EXTENDS Naturals, Sequences, FiniteSets

CONSTANTS
  Requests,     \* transactions in flight
  Events,       \* what an entry records besides its previous hash
  MaxEntries,   \* bound on the ids the sequence hands out
  MaxAppends    \* bound on the entries of one transaction

ASSUME ChainAssumption == MaxEntries \in Nat /\ MaxAppends \in Nat

VARIABLES
  log,          \* the committed entries
  lastId,       \* the last id handed out
  request,      \* what each transaction has read, locked and inserted
  overlapped    \* history: ids whose transaction ran beside another one

vars == <<log, lastId, request, overlapped>>

Hash == Seq(Events)
Id == 1 .. MaxEntries
Row == [id : Id, previous : Hash, entry : Hash]

(* head is the id of the row read as the last entry (0 if there was none), *)
(* locks the ids of the rows held FOR UPDATE, rows the entries inserted    *)
(* and not committed; id, previous and entry are those of the next insert. *)
Transaction == [pc : {"idle", "lock", "insert", "store", "next"},
                head : Id \cup {0}, previous : Hash, entry : Hash, id : Id \cup {0},
                locks : SUBSET Id, rows : SUBSET Row, alone : BOOLEAN]

NoTransaction == [pc |-> "idle", head |-> 0, previous |-> <<>>, entry |-> <<>>,
                  id |-> 0, locks |-> {}, rows |-> {}, alone |-> TRUE]

TypeOK ==
  /\ log \subseteq Row
  /\ lastId \in Id \cup {0}
  /\ request \in [Requests -> Transaction]
  /\ overlapped \subseteq Id

Init ==
  /\ log = {}
  /\ lastId = 0
  /\ request = [r \in Requests |-> NoTransaction]
  /\ overlapped = {}

-----------------------------------------------------------------------------
Active == {r \in Requests : request[r] # NoTransaction}

LastIn(rows) == CHOOSE row \in rows : \A other \in rows : other.id <= row.id
LastHash(rows) == IF rows = {} THEN <<>> ELSE LastIn(rows).entry
Hashes(rows) == {row.entry : row \in rows}

(* What a statement of the transaction sees.                               *)
Visible(r) == log \cup request[r].rows

(* Mutant: order_by("id") without the minus sign. *)
FirstEntry(r) == CHOOSE row \in Visible(r) : \A other \in Visible(r) : row.id <= other.id

(* order_by("-id").first() *)
LastEntry(r) == LastIn(Visible(r))

(* calculate_entry_hash *)
EntryHash(previous, event) == Append(previous, event)

(* The last entry is read, and an entry that records e is on its way.      *)
ReadHead(r, e) ==
  LET empty == Visible(r) = {}
      head == IF empty THEN 0 ELSE LastEntry(r).id
      previous == IF empty THEN <<>> ELSE LastEntry(r).entry
      begun == [request[r] EXCEPT
                  !.pc = "lock", !.head = head, !.previous = previous,
                  !.entry = EntryHash(previous, e),
                  !.alone = @ /\ Active \subseteq {r}]
  IN
  /\ request[r].pc \in {"idle", "next"}
  /\ Cardinality(request[r].rows) < MaxAppends
  /\ request' = [q \in Requests |->
                   IF q = r THEN begun
                   ELSE IF q \in Active THEN [request[q] EXCEPT !.alone = FALSE]
                   ELSE request[q]]
  /\ UNCHANGED <<log, lastId, overlapped>>

(* The FOR UPDATE of that read; a document without entries locks nothing.  *)
LockHead(r) ==
  LET head == request[r].head IN
  /\ request[r].pc = "lock"
  /\ \A q \in Requests \ {r} : head \notin request[q].locks
  /\ request' = [request EXCEPT ![r].pc = "insert",
                                ![r].locks = IF head = 0 THEN @ ELSE @ \cup {head}]
  /\ UNCHANGED <<log, lastId, overlapped>>

(* The sequence hands out the id before the unique index is consulted.     *)
TakeId(r) ==
  /\ request[r].pc = "insert"
  /\ lastId < MaxEntries
  /\ lastId' = lastId + 1
  /\ request' = [request EXCEPT ![r].pc = "store", ![r].id = lastId']
  /\ UNCHANGED <<log, overlapped>>

NewRow(r) ==
  [id |-> request[r].id, previous |-> request[r].previous, entry |-> request[r].entry]

(* entry_hash is unique: the insert waits while another transaction has    *)
(* the same entry uncommitted.                                             *)
StoreEntry(r) ==
  /\ request[r].pc = "store"
  /\ NewRow(r).entry \notin Hashes(Visible(r))
  /\ \A q \in Requests : NewRow(r).entry \notin Hashes(request[q].rows)
  /\ request' = [request EXCEPT ![r].pc = "next", ![r].rows = @ \cup {NewRow(r)}]
  /\ UNCHANGED <<log, lastId, overlapped>>

(* COMMIT *)
Commit(r) ==
  /\ request[r].pc = "next"
  /\ log' = log \cup request[r].rows
  /\ overlapped' = IF request[r].alone THEN overlapped
                   ELSE overlapped \cup {row.id : row \in request[r].rows}
  /\ request' = [request EXCEPT ![r] = NoTransaction]
  /\ UNCHANGED lastId

(* The IntegrityError of a duplicate entry, a later error of the           *)
(* completion, or the end of the server process.                           *)
RollBack(r) ==
  /\ r \in Active
  /\ request' = [request EXCEPT ![r] = NoTransaction]
  /\ UNCHANGED <<log, lastId, overlapped>>

Next ==
  \E r \in Requests :
    \/ \E e \in Events : ReadHead(r, e)
    \/ LockHead(r)
    \/ TakeId(r)
    \/ StoreEntry(r)
    \/ Commit(r)
    \/ RollBack(r)

Spec == Init /\ [][Next]_vars

-----------------------------------------------------------------------------
(* verify_document on entry row: its previous hash is the hash of the      *)
(* entry before it.  The other two comparisons recompute hashes over       *)
(* columns that never change.                                              *)
Follows(row) == row.previous = LastHash({other \in log : other.id < row.id})

(* Mutant: only the newest entry is compared. *)
NewestVerifies == log = {} \/ Follows(LastIn(log))

(* verify_document *)
Verifies == \A row \in log : Follows(row)

(***************************************************************************)
(* Properties                                                              *)
(***************************************************************************)

(* Whatever overlaps or rolls back, no committed entry refers to a hash    *)
(* that is not the hash of an earlier committed entry: the log is a tree   *)
(* that grows from the empty hash.                                         *)
PreviousExists ==
  \A row \in log :
    \/ row.previous = <<>>
    \/ \E other \in log : other.id < row.id /\ other.entry = row.previous

(* An entry whose transaction overlapped no other follows the entry before *)
(* it, also when earlier entries forked: only an overlap breaks the chain. *)
LoneAppendsFollow ==
  \A row \in log : row.id \notin overlapped => Follows(row)

(* A log that failed the verification once fails it for ever, and the      *)
(* evidence bundle of its document is refused for ever.                    *)
BrokenStaysBroken == [][~Verifies => ~Verifies']_vars

(* "`verify_audit_chain` management command verifies audit-chain           *)
(* integrity": it accepts a log that nobody tampered with.                 *)
ChainVerifies == Verifies
=============================================================================
