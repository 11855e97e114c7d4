-------------------------- MODULE AuditChain_proofs --------------------------
(***************************************************************************)
(* Theorems about AuditChain: whatever overlaps, the log is a tree, a lone *)
(* append follows the entry before it, and a broken chain stays broken.    *)
(***************************************************************************)
EXTENDS AuditChain, WellFoundedInduction, TLAPS

(* A row somebody has inserted, committed or not.                          *)
Known(row) == row \in log \/ \E r \in Requests : row \in request[r].rows

Writing(r) == request[r].pc \in {"lock", "insert", "store"}
Storing(r) == request[r].pc = "store"

(* No id is above the last one handed out.                                 *)
IdsHandedOut ==
  /\ \A row \in Row : Known(row) => row.id <= lastId
  /\ \A r \in Requests : request[r].id <= lastId

(* No two entries, inserted or about to be, share an id ...                *)
IdsDiffer ==
  /\ \A row, other \in Row : (Known(row) /\ Known(other) /\ row.id = other.id)
                               => row = other
  /\ \A r \in Requests : Storing(r) =>
       /\ request[r].id \in Id
       /\ \A row \in Row : Known(row) => row.id # request[r].id
       /\ \A q \in Requests \ {r} : Storing(q) => request[q].id # request[r].id

(* ... no two inserted entries share a hash, and no hash is empty.         *)
EntriesDiffer ==
  /\ \A row, other \in Row : (Known(row) /\ Known(other) /\ row.entry = other.entry)
                               => row = other
  /\ \A row \in Row : Known(row) => row.entry # <<>>
  /\ \A r \in Requests : Writing(r) => request[r].entry # <<>>

(* What a transaction refers to is in its sight, and stays there.          *)
RefersToVisible(r) ==
  /\ Writing(r) =>
       \/ request[r].previous = <<>>
       \/ \E row \in Visible(r) : /\ row.entry = request[r].previous
                                  /\ Storing(r) => row.id < request[r].id
  /\ \A row \in request[r].rows :
       \/ row.previous = <<>>
       \/ \E other \in Visible(r) : other.id < row.id /\ other.entry = row.previous

(* A transaction that is alone is the only one.                            *)
AloneIsAlone ==
  \A r \in Active : request[r].alone => Active \subseteq {r}

(* It appends to the last entry in its sight.                              *)
LoneTransactionFollows(r) ==
  request[r].alone =>
    /\ Writing(r) => request[r].previous = LastHash(Visible(r))
    /\ Storing(r) => \A row \in Visible(r) : row.id < request[r].id
    /\ \A row \in request[r].rows :
         row.previous = LastHash({other \in Visible(r) : other.id < row.id})

(* What may still be committed comes after every entry appended alone.     *)
LoneEntriesAreBefore ==
  \A row \in log : row.id \notin overlapped =>
    \A r \in Requests :
      /\ Storing(r) => row.id < request[r].id
      /\ \A other \in request[r].rows : row.id < other.id

ChainInv ==
  /\ TypeOK
  /\ IdsHandedOut
  /\ IdsDiffer
  /\ EntriesDiffer
  /\ \A r \in Requests : RefersToVisible(r)
  /\ PreviousExists
  /\ AloneIsAlone
  /\ \A r \in Requests : LoneTransactionFollows(r)
  /\ LoneEntriesAreBefore
  /\ LoneAppendsFollow

-----------------------------------------------------------------------------
(* A nonempty set of rows has one whose id is greatest: ids are bounded.   *)
LEMMA GreatestIdExists ==
  ASSUME NEW rows, rows \subseteq Row, rows # {}
  PROVE  \E row \in rows : \A other \in rows : other.id <= row.id
<1> DEFINE below == {MaxEntries - row.id : row \in rows}
<1>1. below \subseteq Nat /\ below # {}
  BY ChainAssumption DEF Row, Id
<1>2. \E n \in below : \A m \in below : <<m, n>> \notin OpToRel(<, Nat)
  <2> HIDE DEF below
  <2> QED  BY <1>1, NatLessThanWellFounded, WFMin
<1>3. PICK n \in below : \A m \in below : ~ (m < n)
  BY <1>1, <1>2 DEF OpToRel
<1>4. PICK row \in rows : n = MaxEntries - row.id
  BY <1>3
<1>5. \A other \in rows : other.id <= row.id
  BY <1>3, <1>4, ChainAssumption DEF Row, Id
<1> QED  BY <1>5

(* order_by("-id").first() is that row.                                    *)
LEMMA LastInIsLast ==
  ASSUME NEW rows, rows \subseteq Row, rows # {}
  PROVE  /\ LastIn(rows) \in rows
         /\ \A other \in rows : other.id <= LastIn(rows).id
BY GreatestIdExists DEF LastIn

(* The hash of an entry is a hash, and never the empty one.                *)
LEMMA AppendIsHash ==
  ASSUME NEW hash \in Hash, NEW e \in Events
  PROVE  EntryHash(hash, e) \in Hash \ {<<>>}
<1>1. EntryHash(hash, e) \in Seq(Events)
  BY DEF EntryHash, Hash
<1>2. Len(EntryHash(hash, e)) = Len(hash) + 1
  BY DEF EntryHash, Hash
<1>3. EntryHash(hash, e) # <<>>
  BY <1>2, Len(hash) \in Nat, Len(<<>>) = 0 DEF Hash
<1> QED  BY <1>1, <1>3 DEF Hash

(* A transaction at rest has read, locked and inserted nothing.            *)
LEMMA RestHoldsNothing ==
  ASSUME NEW r \in Requests, request[r] = NoTransaction
  PROVE  /\ request[r].rows = {}
         /\ ~Writing(r)
         /\ ~Storing(r)
         /\ request[r].id = 0
         /\ request[r].alone
         /\ r \notin Active
BY DEF NoTransaction, Writing, Storing, Active

(* A transaction at rest is well typed.                                    *)
LEMMA RestIsTransaction ==
  NoTransaction \in Transaction
<1>1. <<>> \in Hash
  BY DEF Hash
<1> QED  BY <1>1 DEF NoTransaction, Transaction

(* Only an idle transaction can be at rest.                                *)
LEMMA RestIsIdle ==
  ASSUME NEW t, t.pc # "idle"
  PROVE  t # NoTransaction
BY DEF NoTransaction

(* Reading the last entry sets five fields of a transaction.               *)
LEMMA BegunIsTransaction ==
  ASSUME NEW t \in Transaction, NEW head \in Id \cup {0}, NEW previous \in Hash,
         NEW entry \in Hash, NEW alone \in BOOLEAN
  PROVE  [t EXCEPT !.pc = "lock", !.head = head, !.previous = previous,
                   !.entry = entry, !.alone = alone] \in Transaction
<1> DEFINE t1 == [t EXCEPT !.pc = "lock"]
           t2 == [t1 EXCEPT !.head = head]
           t3 == [t2 EXCEPT !.previous = previous]
           t4 == [t3 EXCEPT !.entry = entry]
           t5 == [t4 EXCEPT !.alone = alone]
<1>1. t1 \in Transaction
  BY DEF Transaction
<1> HIDE DEF t1
<1>2. t2 \in Transaction
  BY <1>1 DEF Transaction
<1> HIDE DEF t2
<1>3. t3 \in Transaction
  BY <1>2 DEF Transaction
<1> HIDE DEF t3
<1>4. t4 \in Transaction
  BY <1>3 DEF Transaction
<1> HIDE DEF t4
<1>5. t5 \in Transaction
  <2>1. CASE alone = TRUE
    BY <1>4, <2>1 DEF Transaction
  <2>2. CASE alone = FALSE
    BY <1>4, <2>2 DEF Transaction
  <2> QED  BY <2>1, <2>2
<1> QED  BY <1>5 DEF t1, t2, t3, t4, t5

(* An empty log satisfies the invariant.                                   *)
THEOREM InitialInvariant == Init => ChainInv
<1> SUFFICES ASSUME Init  PROVE ChainInv
  OBVIOUS
<1>1. \A r \in Requests : request[r] = NoTransaction
  BY DEF Init
<1>2. TypeOK
  BY RestIsTransaction, ChainAssumption DEF Init, TypeOK, Id
<1>3. \A row : ~Known(row)
  BY <1>1, RestHoldsNothing DEF Init, Known
<1>4. IdsHandedOut /\ IdsDiffer /\ EntriesDiffer
  BY <1>1, <1>3, RestHoldsNothing DEF Init, IdsHandedOut, IdsDiffer, EntriesDiffer
<1>5. \A r \in Requests : RefersToVisible(r) /\ LoneTransactionFollows(r)
  BY <1>1, RestHoldsNothing DEF RefersToVisible, LoneTransactionFollows
<1>6. PreviousExists /\ LoneEntriesAreBefore /\ LoneAppendsFollow
  BY DEF Init, PreviousExists, LoneEntriesAreBefore, LoneAppendsFollow
<1>7. AloneIsAlone
  BY <1>1, RestHoldsNothing DEF AloneIsAlone, Active
<1> QED  BY <1>2, <1>4, <1>5, <1>6, <1>7 DEF ChainInv

-----------------------------------------------------------------------------
(* Steps that insert and commit nothing.                                   *)

(* They leave what is visible and what is committed as it was.             *)
LEMMA SameRowsKnown ==
  ASSUME log' = log, \A q \in Requests : request'[q].rows = request[q].rows
  PROVE  /\ \A row : Known(row)' <=> Known(row)
         /\ \A q \in Requests : Visible(q)' = Visible(q)
         /\ PreviousExists => PreviousExists'
         /\ (LoneAppendsFollow /\ overlapped' = overlapped) => LoneAppendsFollow'
<1>1. \A row : Known(row)' <=> Known(row)
  BY DEF Known
<1>2. \A q \in Requests : Visible(q)' = Visible(q)
  BY DEF Visible
<1>3. PreviousExists => PreviousExists'
  BY DEF PreviousExists
<1>4. (LoneAppendsFollow /\ overlapped' = overlapped) => LoneAppendsFollow'
  BY DEF LoneAppendsFollow, Follows
<1> QED  BY <1>1, <1>2, <1>3, <1>4

(* Reading the last entry ends the loneliness of everyone in flight.       *)
LEMMA ReadHeadKeeps ==
  ASSUME ChainInv, NEW r \in Requests, NEW e \in Events, ReadHead(r, e)
  PROVE  ChainInv'
<1> DEFINE head == IF Visible(r) = {} THEN 0 ELSE LastEntry(r).id
           previous == IF Visible(r) = {} THEN <<>> ELSE LastEntry(r).entry
           entry == EntryHash(previous, e)
<1>a. request \in [Requests -> Transaction] /\ log \subseteq Row
  BY DEF ChainInv, TypeOK
<1>b. Visible(r) \subseteq Row
  BY <1>a DEF Visible, Transaction
<1>c. Visible(r) # {} => LastEntry(r) \in Visible(r)
  BY <1>b, LastInIsLast DEF LastEntry
<1>d. previous = LastHash(Visible(r))
  BY DEF LastHash, LastEntry
<1>e. head \in Id \cup {0} /\ previous \in Hash
  <2>1. <<>> \in Hash
    BY DEF Hash
  <2> QED  BY <2>1, <1>b, <1>c DEF Row
<1>f. entry \in Hash /\ entry # <<>>
  BY <1>e, AppendIsHash
<1> DEFINE alone == request[r].alone /\ Active \subseteq {r}
<1>g. alone \in BOOLEAN
  BY <1>a DEF Transaction
<1> HIDE DEF entry, previous, head
<1>1. /\ request'[r] = [request[r] EXCEPT !.pc = "lock", !.head = head,
                          !.previous = previous, !.entry = entry, !.alone = alone]
      /\ \A q \in Requests \ {r} : request'[q] = IF q \in Active
                                                 THEN [request[q] EXCEPT !.alone = FALSE]
                                                 ELSE request[q]
      /\ request' \in [Requests -> {request'[q] : q \in Requests}]
      /\ log' = log /\ lastId' = lastId /\ overlapped' = overlapped
      /\ request[r].pc \in {"idle", "next"}
  BY DEF ReadHead, head, previous, entry
<1>2. /\ request'[r].pc = "lock" /\ request'[r].previous = previous
      /\ request'[r].entry = entry /\ request'[r].rows = request[r].rows
      /\ request'[r].id = request[r].id
      /\ request'[r].alone => request[r].alone /\ Active \subseteq {r}
      /\ request'[r] \in Transaction
  <2>1. request'[r] \in Transaction
    <3> HIDE DEF alone
    <3>1. request[r] \in Transaction
      BY <1>a
    <3>2. [request[r] EXCEPT !.pc = "lock", !.head = head, !.previous = previous,
                             !.entry = entry, !.alone = alone] \in Transaction
      BY <3>1, <1>e, <1>f, <1>g, BegunIsTransaction
    <3> QED  BY <3>2, <1>1
  <2>2. request'[r].alone => alone
    <3> SUFFICES ASSUME ~alone  PROVE request'[r].alone = FALSE
      OBVIOUS
    <3>1. alone = FALSE
      BY <1>g
    <3> HIDE DEF alone
    <3> QED  BY <3>1, <1>1, <1>a DEF Transaction
  <2>3. /\ request'[r].pc = "lock" /\ request'[r].previous = previous
        /\ request'[r].entry = entry /\ request'[r].rows = request[r].rows
        /\ request'[r].id = request[r].id
    <3> HIDE DEF alone
    <3> QED  BY <1>1, <1>a DEF Transaction
  <2> QED  BY <2>1, <2>2, <2>3
<1> HIDE DEF alone
<1>3. \A q \in Requests \ {r} :
        /\ request'[q].pc = request[q].pc /\ request'[q].previous = request[q].previous
        /\ request'[q].entry = request[q].entry /\ request'[q].rows = request[q].rows
        /\ request'[q].id = request[q].id
        /\ q \in Active => ~request'[q].alone
        /\ q \notin Active => request'[q] = request[q]
        /\ request'[q] \in Transaction
  <2> TAKE q \in Requests \ {r}
  <2>0. request[q] \in Transaction
    BY <1>a
  <2>1. CASE q \in Active
    <3>1. request'[q] = [request[q] EXCEPT !.alone = FALSE]
      BY <1>1, <2>1
    <3> QED  BY <3>1, <2>0, <2>1 DEF Transaction
  <2>2. CASE q \notin Active
    BY <1>1, <2>0, <2>2
  <2> QED  BY <2>1, <2>2
<1>4. TypeOK'
  BY <1>1, <1>2, <1>3 DEF ChainInv, TypeOK
<1>5. \A q \in Requests : request'[q].rows = request[q].rows
  BY <1>2, <1>3
<1>6. /\ \A row : Known(row)' <=> Known(row)
      /\ \A q \in Requests : Visible(q)' = Visible(q)
      /\ PreviousExists' /\ LoneAppendsFollow'
  BY <1>1, <1>5, SameRowsKnown DEF ChainInv
<1>7. /\ ~Storing(r)' /\ Writing(r)'
      /\ \A q \in Requests \ {r} : (Storing(q)' <=> Storing(q)) /\ (Writing(q)' <=> Writing(q))
  BY <1>2, <1>3 DEF Storing, Writing
<1>8. IdsHandedOut'
  BY <1>1, <1>2, <1>3, <1>6 DEF ChainInv, IdsHandedOut
<1>9. IdsDiffer'
  BY <1>2, <1>3, <1>6, <1>7 DEF ChainInv, IdsDiffer
<1>10. EntriesDiffer'
  BY <1>2, <1>3, <1>6, <1>7, <1>f DEF ChainInv, EntriesDiffer
<1>11. ASSUME NEW q \in Requests  PROVE RefersToVisible(q)'
  <2>1. CASE q = r
    <3>1. previous = <<>> \/ \E row \in Visible(r) : row.entry = previous
      BY <1>c DEF previous
    <3>2. \A row \in request[r].rows :
            \/ row.previous = <<>>
            \/ \E other \in Visible(r) : other.id < row.id /\ other.entry = row.previous
      BY DEF ChainInv, RefersToVisible
    <3> QED  BY <2>1, <3>1, <3>2, <1>2, <1>6, <1>7 DEF RefersToVisible
  <2>2. CASE q # r
    BY <2>2, <1>3, <1>6, <1>7 DEF ChainInv, RefersToVisible
  <2> QED  BY <2>1, <2>2
<1>12. /\ \A q \in Requests \ {r} : q \in Active' <=> q \in Active
       /\ r \in Active'
  <2>1. \A q \in Requests \ {r} : q \in Active => request'[q] # NoTransaction
    BY <1>3 DEF NoTransaction
  <2>2. request'[r] # NoTransaction
    BY <1>2 DEF NoTransaction
  <2> QED  BY <2>1, <2>2, <1>3 DEF Active
<1>13. AloneIsAlone'
  <2> SUFFICES ASSUME NEW q \in Active', request'[q].alone  PROVE Active' \subseteq {q}
    BY DEF AloneIsAlone
  <2>1. q \in Requests /\ Active' \subseteq Requests
    BY DEF Active
  <2>2. q = r
    BY <2>1, <1>3, <1>12
  <2> QED  BY <2>1, <2>2, <1>2, <1>12
<1>14. ASSUME NEW q \in Requests  PROVE LoneTransactionFollows(q)'
  <2>1. CASE q = r
    BY <2>1, <1>2, <1>6, <1>7, <1>d DEF ChainInv, LoneTransactionFollows
  <2>2. CASE q # r /\ q \in Active
    BY <2>2, <1>3 DEF LoneTransactionFollows
  <2>3. CASE q # r /\ q \notin Active
    BY <2>3, <1>3, <1>6, <1>7 DEF ChainInv, LoneTransactionFollows
  <2> QED  BY <2>1, <2>2, <2>3
<1>15. LoneEntriesAreBefore'
  <2> SUFFICES ASSUME NEW row \in log, row.id \notin overlapped, NEW q \in Requests
               PROVE  /\ Storing(q)' => row.id < request'[q].id
                      /\ \A other \in request'[q].rows : row.id < other.id
    BY <1>1 DEF LoneEntriesAreBefore
  <2>1. /\ Storing(q) => row.id < request[q].id
        /\ \A other \in request[q].rows : row.id < other.id
    BY DEF ChainInv, LoneEntriesAreBefore
  <2> QED  BY <2>1, <1>2, <1>3, <1>5, <1>7
<1> QED  BY <1>4, <1>6, <1>8, <1>9, <1>10, <1>11, <1>13, <1>14, <1>15 DEF ChainInv

(* Locking the last entry only changes who waits.                          *)
LEMMA LockHeadKeeps ==
  ASSUME ChainInv, NEW r \in Requests, LockHead(r)
  PROVE  ChainInv'
<1> DEFINE locks == IF request[r].head = 0 THEN request[r].locks
                    ELSE request[r].locks \cup {request[r].head}
<1>a. request \in [Requests -> Transaction]
  BY DEF ChainInv, TypeOK
<1>b. request[r] \in Transaction /\ locks \in SUBSET Id
  BY <1>a DEF Transaction
<1>1. /\ request' = [request EXCEPT ![r] = [request[r] EXCEPT !.pc = "insert", !.locks = locks]]
      /\ request[r].pc = "lock"
      /\ log' = log /\ lastId' = lastId /\ overlapped' = overlapped
  BY <1>a DEF LockHead
<1> HIDE DEF locks
<1>2. /\ request'[r].pc = "insert" /\ request'[r].previous = request[r].previous
      /\ request'[r].entry = request[r].entry /\ request'[r].rows = request[r].rows
      /\ request'[r].id = request[r].id /\ request'[r].alone = request[r].alone
      /\ request'[r] \in Transaction
  BY <1>1, <1>a, <1>b DEF Transaction
<1>3. \A q \in Requests \ {r} : request'[q] = request[q]
  BY <1>1, <1>a
<1>4. TypeOK'
  BY <1>1, <1>2, <1>3, <1>a DEF ChainInv, TypeOK
<1>5. \A q \in Requests : request'[q].rows = request[q].rows
  BY <1>2, <1>3
<1>6. /\ \A row : Known(row)' <=> Known(row)
      /\ \A q \in Requests : Visible(q)' = Visible(q)
      /\ PreviousExists' /\ LoneAppendsFollow'
  BY <1>1, <1>5, SameRowsKnown DEF ChainInv
<1>7. /\ \A q \in Requests : Storing(q)' <=> Storing(q)
      /\ \A q \in Requests : Writing(q)' <=> Writing(q)
  BY <1>1, <1>2, <1>3 DEF Storing, Writing
<1>8. \A q \in Requests : /\ request'[q].previous = request[q].previous
                          /\ request'[q].entry = request[q].entry
                          /\ request'[q].id = request[q].id
                          /\ request'[q].alone = request[q].alone
  BY <1>2, <1>3
<1>9. IdsHandedOut' /\ IdsDiffer' /\ EntriesDiffer'
  BY <1>1, <1>6, <1>7, <1>8 DEF ChainInv, IdsHandedOut, IdsDiffer, EntriesDiffer
<1>10. \A q \in Requests : RefersToVisible(q)' /\ LoneTransactionFollows(q)'
  BY <1>5, <1>6, <1>7, <1>8 DEF ChainInv, RefersToVisible, LoneTransactionFollows
<1>11. Active' = Active
  <2>1. request[r] # NoTransaction /\ request'[r] # NoTransaction
    <3>1. request[r].pc # "idle" /\ request'[r].pc # "idle"
      BY <1>1, <1>2
    <3> QED  BY <3>1, RestIsIdle
  <2> QED  BY <2>1, <1>3 DEF Active
<1>12. AloneIsAlone'
  BY <1>8, <1>11 DEF ChainInv, AloneIsAlone, Active
<1>13. LoneEntriesAreBefore'
  BY <1>1, <1>5, <1>7, <1>8 DEF ChainInv, LoneEntriesAreBefore
<1> QED  BY <1>4, <1>6, <1>9, <1>10, <1>12, <1>13 DEF ChainInv

(* A new id is above every id in sight.                                    *)
LEMMA TakeIdKeeps ==
  ASSUME ChainInv, NEW r \in Requests, TakeId(r)
  PROVE  ChainInv'
<1>a. /\ request \in [Requests -> Transaction]
      /\ log \subseteq Row
      /\ lastId \in Nat /\ lastId + 1 \in Id
  BY ChainAssumption DEF ChainInv, TypeOK, TakeId, Id
<1>1. /\ request' = [request EXCEPT ![r] = [request[r] EXCEPT !.pc = "store", !.id = lastId + 1]]
      /\ request[r].pc = "insert"
      /\ log' = log /\ lastId' = lastId + 1 /\ overlapped' = overlapped
  BY <1>a DEF TakeId
<1>2. /\ request'[r].pc = "store" /\ request'[r].previous = request[r].previous
      /\ request'[r].entry = request[r].entry /\ request'[r].rows = request[r].rows
      /\ request'[r].id = lastId + 1 /\ request'[r].alone = request[r].alone
      /\ request'[r] \in Transaction
  BY <1>1, <1>a DEF Transaction
<1>3. \A q \in Requests \ {r} : request'[q] = request[q]
  BY <1>1, <1>a
<1>4. TypeOK'
  BY <1>1, <1>2, <1>3, <1>a DEF ChainInv, TypeOK
<1>5. \A q \in Requests : request'[q].rows = request[q].rows
  BY <1>2, <1>3
<1>6. /\ \A row : Known(row)' <=> Known(row)
      /\ \A q \in Requests : Visible(q)' = Visible(q)
      /\ PreviousExists' /\ LoneAppendsFollow'
  BY <1>1, <1>5, SameRowsKnown DEF ChainInv
<1>7. /\ Storing(r)' /\ ~Storing(r) /\ Writing(r) /\ Writing(r)'
      /\ \A q \in Requests \ {r} : (Storing(q)' <=> Storing(q)) /\ (Writing(q)' <=> Writing(q))
  BY <1>1, <1>2, <1>3 DEF Storing, Writing
<1>8. \A row \in Row : Known(row) => row.id < lastId + 1
  <2> SUFFICES ASSUME NEW row \in Row, Known(row)  PROVE row.id < lastId + 1
    OBVIOUS
  <2>1. row.id <= lastId /\ row.id \in Nat
    BY ChainAssumption DEF ChainInv, IdsHandedOut, Row, Id
  <2> QED  BY <2>1, <1>a
<1>9. \A q \in Requests : \A row \in Visible(q) : row \in Row /\ Known(row)
  BY <1>a DEF Visible, Known, Transaction
<1>10. \A q \in Requests : request[q].id \in Nat /\ request[q].id < lastId + 1
  <2> TAKE q \in Requests
  <2>1. request[q].id \in Nat /\ request[q].id <= lastId
    BY <1>a, ChainAssumption DEF ChainInv, IdsHandedOut, Transaction, Id
  <2> QED  BY <2>1, <1>a
<1>11. IdsHandedOut'
  <2>1. \A row \in Row : Known(row)' => row.id <= lastId'
    BY <1>1, <1>6, <1>8, <1>a, ChainAssumption DEF Row, Id
  <2>2. \A q \in Requests : request'[q].id <= lastId'
    BY <1>1, <1>2, <1>3, <1>10, <1>a
  <2> QED  BY <2>1, <2>2 DEF IdsHandedOut
<1>12. IdsDiffer'
  <2>1. ASSUME NEW row \in Row, Known(row)  PROVE row.id # lastId + 1
    BY <2>1, <1>8, <1>a, ChainAssumption DEF Row, Id
  <2>2. \A q \in Requests : request[q].id # lastId + 1
    BY <1>10, <1>a
  <2>3. \A row, other \in Row : (Known(row)' /\ Known(other)' /\ row.id = other.id) => row = other
    BY <1>6 DEF ChainInv, IdsDiffer
  <2>4. ASSUME NEW q \in Requests, Storing(q)'
        PROVE  /\ request'[q].id \in Id
               /\ \A row \in Row : Known(row)' => row.id # request'[q].id
               /\ \A p \in Requests \ {q} : Storing(p)' => request'[p].id # request'[q].id
    <3>1. CASE q = r
      BY <3>1, <2>1, <2>2, <1>2, <1>3, <1>6, <1>a
    <3>2. CASE q # r
      <4>1. Storing(q) /\ request'[q].id = request[q].id
        BY <3>2, <2>4, <1>3, <1>7
      <4>2. /\ request[q].id \in Id
            /\ \A row \in Row : Known(row) => row.id # request[q].id
            /\ \A p \in Requests \ {q} : Storing(p) => request[p].id # request[q].id
        BY <4>1 DEF ChainInv, IdsDiffer
      <4> QED  BY <4>1, <4>2, <2>2, <1>2, <1>3, <1>6, <1>7
    <3> QED  BY <3>1, <3>2
  <2> QED  BY <2>3, <2>4 DEF IdsDiffer
<1>13. EntriesDiffer'
  BY <1>2, <1>3, <1>6, <1>7 DEF ChainInv, EntriesDiffer
<1>14. ASSUME NEW q \in Requests  PROVE RefersToVisible(q)' /\ LoneTransactionFollows(q)'
  <2>0. RefersToVisible(q) /\ LoneTransactionFollows(q)
    BY DEF ChainInv
  <2>1. CASE q = r
    <3>1. \A row \in Visible(r) : row.id < lastId + 1
      BY <1>8, <1>9
    <3>2. RefersToVisible(r)'
      BY <2>0, <2>1, <3>1, <1>2, <1>6, <1>7 DEF RefersToVisible
    <3>3. LoneTransactionFollows(r)'
      BY <2>0, <2>1, <3>1, <1>2, <1>6, <1>7 DEF LoneTransactionFollows
    <3> QED  BY <2>1, <3>2, <3>3
  <2>2. CASE q # r
    BY <2>0, <2>2, <1>3, <1>6, <1>7 DEF RefersToVisible, LoneTransactionFollows
  <2> QED  BY <2>1, <2>2
<1>15. Active' = Active
  <2>1. request[r] # NoTransaction /\ request'[r] # NoTransaction
    <3>1. request[r].pc # "idle" /\ request'[r].pc # "idle"
      BY <1>1, <1>2
    <3> QED  BY <3>1, RestIsIdle
  <2> QED  BY <2>1, <1>3 DEF Active
<1>16. AloneIsAlone'
  BY <1>2, <1>3, <1>15 DEF ChainInv, AloneIsAlone, Active
<1>17. LoneEntriesAreBefore'
  <2> SUFFICES ASSUME NEW row \in log, row.id \notin overlapped, NEW q \in Requests
               PROVE  /\ Storing(q)' => row.id < request'[q].id
                      /\ \A other \in request'[q].rows : row.id < other.id
    BY <1>1 DEF LoneEntriesAreBefore
  <2>1. /\ Storing(q) => row.id < request[q].id
        /\ \A other \in request[q].rows : row.id < other.id
    BY DEF ChainInv, LoneEntriesAreBefore
  <2>2. row.id < lastId + 1
    BY <1>8, <1>a DEF Known
  <2> QED  BY <2>1, <2>2, <1>2, <1>3, <1>5, <1>7
<1> QED  BY <1>4, <1>6, <1>11, <1>12, <1>13, <1>14, <1>16, <1>17 DEF ChainInv

-----------------------------------------------------------------------------
(* Steps that insert, commit or take back.                                 *)

(* An inserted entry is the last one in the sight of a lone transaction.   *)
LEMMA StoreEntryKeeps ==
  ASSUME ChainInv, NEW r \in Requests, StoreEntry(r)
  PROVE  ChainInv'
<1> DEFINE new == NewRow(r)
<1>a. request \in [Requests -> Transaction] /\ log \subseteq Row /\ Storing(r) /\ Writing(r)
  BY DEF ChainInv, TypeOK, StoreEntry, Storing, Writing
<1>b. /\ new.id = request[r].id /\ new.previous = request[r].previous
      /\ new.entry = request[r].entry
  BY DEF NewRow
<1>c. new \in Row
  <2>1. request[r].id \in Id
    BY <1>a DEF ChainInv, IdsDiffer
  <2> QED  BY <2>1, <1>a DEF NewRow, Row, Transaction
<1>d. \A row : Known(row) => row.entry # new.entry
  BY DEF StoreEntry, Known, Visible, Hashes
<1>e. \A q \in Requests : Visible(q) \subseteq Row /\ \A row \in Visible(q) : Known(row)
  BY <1>a DEF Visible, Known, Transaction
<1>1. /\ request' = [request EXCEPT ![r] = [request[r] EXCEPT !.pc = "next",
                                                              !.rows = @ \cup {new}]]
      /\ request[r].pc = "store"
      /\ log' = log /\ lastId' = lastId /\ overlapped' = overlapped
  BY <1>a DEF StoreEntry
<1> HIDE DEF new
<1>2. /\ request'[r].pc = "next" /\ request'[r].rows = request[r].rows \cup {new}
      /\ request'[r].id = request[r].id /\ request'[r].alone = request[r].alone
      /\ request'[r] \in Transaction
  BY <1>1, <1>a, <1>c DEF Transaction
<1>3. \A q \in Requests \ {r} : request'[q] = request[q]
  BY <1>1, <1>a
<1>4. TypeOK'
  BY <1>1, <1>2, <1>3, <1>a DEF ChainInv, TypeOK
<1>5. \A row : Known(row)' <=> Known(row) \/ row = new
  BY <1>1, <1>2, <1>3 DEF Known
<1>6. /\ Visible(r)' = Visible(r) \cup {new}
      /\ \A q \in Requests \ {r} : Visible(q)' = Visible(q)
  BY <1>1, <1>2, <1>3 DEF Visible
<1>7. /\ ~Storing(r)' /\ ~Writing(r)'
      /\ \A q \in Requests \ {r} : (Storing(q)' <=> Storing(q)) /\ (Writing(q)' <=> Writing(q))
  BY <1>2, <1>3 DEF Storing, Writing
<1>8. IdsHandedOut'
  BY <1>b, <1>1, <1>2, <1>3, <1>5 DEF ChainInv, IdsHandedOut
<1>9. IdsDiffer'
  <2>1. \A row \in Row : Known(row) => row.id # new.id
    BY <1>a, <1>b DEF ChainInv, IdsDiffer
  <2>2. \A row, other \in Row : (Known(row)' /\ Known(other)' /\ row.id = other.id) => row = other
    BY <2>1, <1>5 DEF ChainInv, IdsDiffer
  <2>3. ASSUME NEW q \in Requests, Storing(q)'
        PROVE  /\ request'[q].id \in Id
               /\ \A row \in Row : Known(row)' => row.id # request'[q].id
               /\ \A p \in Requests \ {q} : Storing(p)' => request'[p].id # request'[q].id
    <3>1. q # r /\ Storing(q) /\ request'[q].id = request[q].id
      BY <2>3, <1>3, <1>7
    <3>2. /\ request[q].id \in Id
          /\ \A row \in Row : Known(row) => row.id # request[q].id
          /\ \A p \in Requests \ {q} : Storing(p) => request[p].id # request[q].id
      BY <3>1 DEF ChainInv, IdsDiffer
    <3>3. new.id # request[q].id
      BY <3>1, <3>2, <1>a, <1>b
    <3>4. \A p \in Requests \ {q} : Storing(p)' => request'[p].id # request'[q].id
      BY <3>1, <3>2, <1>3, <1>7
    <3> QED  BY <3>1, <3>2, <3>3, <3>4, <1>5
  <2> QED  BY <2>2, <2>3 DEF IdsDiffer
<1>10. EntriesDiffer'
  <2>1. new.entry # <<>>
    BY <1>a, <1>b DEF ChainInv, EntriesDiffer
  <2>2. \A row, other \in Row : (Known(row)' /\ Known(other)' /\ row.entry = other.entry) => row = other
    BY <1>5, <1>d DEF ChainInv, EntriesDiffer
  <2> QED  BY <2>1, <2>2, <1>3, <1>5, <1>7 DEF ChainInv, EntriesDiffer
<1>11. PreviousExists'
  BY <1>1 DEF ChainInv, PreviousExists
<1>12. LoneAppendsFollow'
  BY <1>1 DEF ChainInv, LoneAppendsFollow, Follows
<1>13. ASSUME NEW q \in Requests  PROVE RefersToVisible(q)'
  <2>0. RefersToVisible(q)
    BY DEF ChainInv
  <2>1. CASE q = r
    <3>1. \/ new.previous = <<>>
          \/ \E other \in Visible(r) : other.id < new.id /\ other.entry = new.previous
      BY <2>0, <2>1, <1>a, <1>b DEF RefersToVisible
    <3>2. \A row \in request[r].rows :
            \/ row.previous = <<>>
            \/ \E other \in Visible(r) : other.id < row.id /\ other.entry = row.previous
      BY <2>0, <2>1 DEF RefersToVisible
    <3>3. \A row \in request'[r].rows :
            \/ row.previous = <<>>
            \/ \E other \in Visible(r) : other.id < row.id /\ other.entry = row.previous
      BY <3>1, <3>2, <1>2
    <3> QED  BY <2>1, <3>3, <1>6, <1>7 DEF RefersToVisible
  <2>2. CASE q # r
    BY <2>0, <2>2, <1>3, <1>6, <1>7 DEF RefersToVisible
  <2> QED  BY <2>1, <2>2
<1>14. Active' = Active
  <2>1. request[r] # NoTransaction /\ request'[r] # NoTransaction
    <3>1. request[r].pc # "idle" /\ request'[r].pc # "idle"
      BY <1>1, <1>2
    <3> QED  BY <3>1, RestIsIdle
  <2> QED  BY <2>1, <1>3 DEF Active
<1>15. AloneIsAlone'
  BY <1>2, <1>3, <1>14 DEF ChainInv, AloneIsAlone, Active
<1>16. ASSUME NEW q \in Requests  PROVE LoneTransactionFollows(q)'
  <2>0. LoneTransactionFollows(q)
    BY DEF ChainInv
  <2>1. CASE q = r
    <3> SUFFICES ASSUME request[r].alone
                 PROVE \A row \in request'[r].rows :
                   row.previous = LastHash({other \in Visible(r)' : other.id < row.id})
      BY <2>1, <1>2, <1>7 DEF LoneTransactionFollows
    <3>1. /\ new.previous = LastHash(Visible(r))
          /\ \A row \in Visible(r) : row.id < new.id
          /\ \A row \in request[r].rows :
               row.previous = LastHash({other \in Visible(r) : other.id < row.id})
      BY <2>0, <2>1, <1>a, <1>b DEF LoneTransactionFollows
    <3>2. \A row \in Row : row.id \in Nat
      BY ChainAssumption DEF Row, Id
    <3>3. {other \in Visible(r)' : other.id < new.id} = Visible(r)
      BY <3>1, <3>2, <1>6, <1>c
    <3>4. ASSUME NEW row \in request[r].rows
          PROVE {other \in Visible(r)' : other.id < row.id} = {other \in Visible(r) : other.id < row.id}
      <4>1. row \in Visible(r) /\ row \in Row
        BY <1>e DEF Visible
      <4>2. ~(new.id < row.id)
        BY <4>1, <3>1, <3>2, <1>c
      <4> QED  BY <4>2, <1>6
    <3> QED  BY <3>1, <3>3, <3>4, <1>2
  <2>2. CASE q # r
    BY <2>0, <2>2, <1>3, <1>6, <1>7 DEF LoneTransactionFollows
  <2> QED  BY <2>1, <2>2
<1>17. LoneEntriesAreBefore'
  <2> SUFFICES ASSUME NEW row \in log, row.id \notin overlapped, NEW q \in Requests
               PROVE  /\ Storing(q)' => row.id < request'[q].id
                      /\ \A other \in request'[q].rows : row.id < other.id
    BY <1>1 DEF LoneEntriesAreBefore
  <2>1. /\ Storing(q) => row.id < request[q].id
        /\ \A other \in request[q].rows : row.id < other.id
    BY DEF ChainInv, LoneEntriesAreBefore
  <2> QED  BY <2>1, <1>a, <1>b, <1>2, <1>3, <1>7
<1> QED  BY <1>4, <1>8, <1>9, <1>10, <1>11, <1>12, <1>13, <1>15, <1>16, <1>17 DEF ChainInv

(* A commit shows the others no entry they would have had to follow.       *)
LEMMA CommitKeeps ==
  ASSUME ChainInv, NEW r \in Requests, Commit(r)
  PROVE  ChainInv'
<1> DEFINE rows == request[r].rows
<1>a. /\ request \in [Requests -> Transaction] /\ log \subseteq Row /\ rows \subseteq Row
      /\ overlapped \subseteq Id /\ lastId \in Id \cup {0}
  BY DEF ChainInv, TypeOK, Transaction
<1>1. /\ request' = [request EXCEPT ![r] = NoTransaction]
      /\ request'[r] = NoTransaction
      /\ \A q \in Requests \ {r} : request'[q] = request[q]
      /\ log' = log \cup rows /\ lastId' = lastId
  BY <1>a DEF Commit
<1>2. /\ overlapped \subseteq overlapped'
      /\ ~request[r].alone => \A row \in rows : row.id \in overlapped'
      /\ overlapped' \subseteq Id
  BY <1>a DEF Commit, Row
<1>3. r \in Active
  BY RestIsIdle DEF Commit, Active
<1>4. /\ request'[r].rows = {} /\ ~Writing(r)' /\ ~Storing(r)'
      /\ request'[r].id = 0 /\ r \notin Active'
  BY <1>1 DEF NoTransaction, Writing, Storing, Active
<1>5. \A q \in Requests \ {r} : (Storing(q)' <=> Storing(q)) /\ (Writing(q)' <=> Writing(q))
  BY <1>1 DEF Storing, Writing
<1>6. \A row : Known(row)' <=> Known(row)
  BY <1>1, <1>4 DEF Known
<1>7. /\ log' = Visible(r)
      /\ \A q \in Requests : Visible(q) \subseteq Visible(q)' \/ q = r
      /\ log \subseteq log'
  BY <1>1 DEF Visible
<1>8. TypeOK'
  BY <1>1, <1>2, <1>a, RestIsTransaction DEF TypeOK
<1>9. IdsHandedOut'
  BY <1>1, <1>4, <1>6, <1>a, ChainAssumption DEF ChainInv, IdsHandedOut, Id
<1>10. IdsDiffer' /\ EntriesDiffer'
  BY <1>1, <1>4, <1>5, <1>6 DEF ChainInv, IdsDiffer, EntriesDiffer
<1>11. ASSUME NEW q \in Requests  PROVE RefersToVisible(q)'
  <2>1. CASE q = r
    BY <2>1, <1>4 DEF RefersToVisible
  <2>2. CASE q # r
    <3>1. RefersToVisible(q) /\ Visible(q) \subseteq Visible(q)'
      BY <2>2, <1>7 DEF ChainInv
    <3> QED  BY <2>2, <3>1, <1>1, <1>5 DEF RefersToVisible
  <2> QED  BY <2>1, <2>2
<1>12. PreviousExists'
  <2>1. \A row \in log : \/ row.previous = <<>>
                         \/ \E other \in log' : other.id < row.id /\ other.entry = row.previous
    BY <1>7 DEF ChainInv, PreviousExists
  <2>2. \A row \in rows : \/ row.previous = <<>>
                          \/ \E other \in log' : other.id < row.id /\ other.entry = row.previous
    BY <1>7 DEF ChainInv, RefersToVisible
  <2> QED  BY <2>1, <2>2, <1>1 DEF PreviousExists
<1>13. AloneIsAlone'
  <2>1. Active' \subseteq Active
    BY <1>1, <1>4 DEF Active
  <2>2. \A q \in Active' : request'[q] = request[q]
    BY <1>1, <1>4 DEF Active
  <2> QED  BY <2>1, <2>2 DEF ChainInv, AloneIsAlone
<1>14. ASSUME NEW q \in Requests  PROVE LoneTransactionFollows(q)'
  <2>1. CASE q = r
    BY <2>1, <1>4 DEF LoneTransactionFollows
  <2>2. CASE q # r /\ q \in Active
    BY <2>2, <1>1, <1>3 DEF ChainInv, AloneIsAlone, LoneTransactionFollows
  <2>3. CASE q # r /\ q \notin Active
    <3>1. request[q] = NoTransaction
      BY <2>3 DEF Active
    <3> QED  BY <2>3, <3>1, <1>1, <1>5, RestHoldsNothing DEF LoneTransactionFollows
  <2> QED  BY <2>1, <2>2, <2>3
<1>15. ASSUME request[r].alone, NEW q \in Requests \ {r}
       PROVE  request[q].rows = {} /\ ~Storing(q)
  <2>1. request[q] = NoTransaction
    BY <1>15, <1>3 DEF ChainInv, AloneIsAlone, Active
  <2> QED  BY <2>1, RestHoldsNothing
<1>16. LoneEntriesAreBefore'
  <2> SUFFICES ASSUME NEW row \in log', row.id \notin overlapped', NEW q \in Requests
               PROVE  /\ Storing(q)' => row.id < request'[q].id
                      /\ \A other \in request'[q].rows : row.id < other.id
    BY DEF LoneEntriesAreBefore
  <2>1. CASE q = r
    BY <2>1, <1>4
  <2>2. CASE q # r /\ request[r].alone
    BY <2>2, <1>15, <1>1, <1>5
  <2>3. CASE q # r /\ ~request[r].alone
    <3>1. row \in log /\ row.id \notin overlapped
      BY <2>3, <1>1, <1>2
    <3> QED  BY <2>3, <3>1, <1>1, <1>5 DEF ChainInv, LoneEntriesAreBefore
  <2> QED  BY <2>1, <2>2, <2>3
<1>17. LoneAppendsFollow'
  <2> SUFFICES ASSUME NEW row \in log', row.id \notin overlapped'
               PROVE  row.previous = LastHash({other \in log' : other.id < row.id})
    BY DEF LoneAppendsFollow, Follows
  <2>1. CASE row \in log
    <3>1. row.id \notin overlapped
      BY <1>2
    <3>2. \A other \in rows : row.id < other.id
      BY <2>1, <3>1 DEF ChainInv, LoneEntriesAreBefore
    <3>3. \A other \in rows : ~(other.id < row.id)
      <4> TAKE other \in rows
      <4>1. row.id \in Nat /\ other.id \in Nat /\ row.id < other.id
        BY <2>1, <3>2, <1>a, ChainAssumption DEF Row, Id
      <4> QED  BY <4>1
    <3>4. {other \in log' : other.id < row.id} = {other \in log : other.id < row.id}
      BY <3>3, <1>1
    <3> QED  BY <2>1, <3>1, <3>4 DEF ChainInv, LoneAppendsFollow, Follows
  <2>2. CASE row \notin log
    <3>1. row \in rows /\ request[r].alone
      BY <2>2, <1>1, <1>2
    <3> QED  BY <3>1, <1>7 DEF ChainInv, LoneTransactionFollows
  <2> QED  BY <2>1, <2>2
<1> QED  BY <1>8, <1>9, <1>10, <1>11, <1>12, <1>13, <1>14, <1>16, <1>17 DEF ChainInv

(* A rollback takes away only what nobody else could see.                  *)
LEMMA RollBackKeeps ==
  ASSUME ChainInv, NEW r \in Requests, RollBack(r)
  PROVE  ChainInv'
<1>a. request \in [Requests -> Transaction] /\ lastId \in Id \cup {0}
  BY DEF ChainInv, TypeOK
<1>1. /\ request' = [request EXCEPT ![r] = NoTransaction]
      /\ request'[r] = NoTransaction
      /\ \A q \in Requests \ {r} : request'[q] = request[q]
      /\ log' = log /\ lastId' = lastId /\ overlapped' = overlapped
  BY <1>a DEF RollBack
<1>2. /\ request'[r].rows = {} /\ ~Writing(r)' /\ ~Storing(r)'
      /\ request'[r].id = 0 /\ r \notin Active'
  BY <1>1 DEF NoTransaction, Writing, Storing, Active
<1>3. \A q \in Requests \ {r} : /\ Storing(q)' <=> Storing(q)
                                /\ Writing(q)' <=> Writing(q)
                                /\ Visible(q)' = Visible(q)
  BY <1>1 DEF Storing, Writing, Visible
<1>4. \A row : Known(row)' => Known(row)
  BY <1>1, <1>2 DEF Known
<1>5. TypeOK'
  BY <1>1, <1>a, RestIsTransaction DEF ChainInv, TypeOK
<1>6. IdsHandedOut'
  BY <1>1, <1>2, <1>4, <1>a, ChainAssumption DEF ChainInv, IdsHandedOut, Id
<1>7. IdsDiffer' /\ EntriesDiffer'
  BY <1>1, <1>2, <1>3, <1>4 DEF ChainInv, IdsDiffer, EntriesDiffer
<1>8. PreviousExists' /\ LoneAppendsFollow'
  BY <1>1 DEF ChainInv, PreviousExists, LoneAppendsFollow, Follows
<1>9. \A q \in Requests : RefersToVisible(q)' /\ LoneTransactionFollows(q)'
  BY <1>1, <1>2, <1>3 DEF ChainInv, RefersToVisible, LoneTransactionFollows
<1>10. AloneIsAlone'
  <2>1. Active' \subseteq Active
    BY <1>1, <1>2 DEF Active
  <2>2. \A q \in Active' : request'[q] = request[q]
    BY <1>1, <1>2 DEF Active
  <2> QED  BY <2>1, <2>2 DEF ChainInv, AloneIsAlone
<1>11. LoneEntriesAreBefore'
  BY <1>1, <1>2, <1>3 DEF ChainInv, LoneEntriesAreBefore
<1> QED  BY <1>5, <1>6, <1>7, <1>8, <1>9, <1>10, <1>11 DEF ChainInv

(* A step that changes nothing keeps the invariant.                        *)
LEMMA StutterKeeps ==
  ASSUME ChainInv, UNCHANGED vars
  PROVE  ChainInv'
<1>1. request' = request /\ log' = log /\ lastId' = lastId /\ overlapped' = overlapped
  BY DEF vars
<1>2. TypeOK'
  BY <1>1 DEF ChainInv, TypeOK
<1>3. IdsHandedOut' /\ IdsDiffer' /\ EntriesDiffer'
  BY <1>1 DEF ChainInv, IdsHandedOut, IdsDiffer, EntriesDiffer, Known, Writing, Storing
<1>4. \A r \in Requests : RefersToVisible(r)' /\ LoneTransactionFollows(r)'
  BY <1>1 DEF ChainInv, RefersToVisible, LoneTransactionFollows, Visible, Writing, Storing
<1>5. PreviousExists' /\ LoneAppendsFollow'
  BY <1>1 DEF ChainInv, PreviousExists, LoneAppendsFollow, Follows
<1>6. AloneIsAlone' /\ LoneEntriesAreBefore'
  BY <1>1 DEF ChainInv, AloneIsAlone, Active, LoneEntriesAreBefore, Storing
<1> QED  BY <1>2, <1>3, <1>4, <1>5, <1>6 DEF ChainInv

(* Every step of the audit log keeps the invariant.                        *)
THEOREM StepKeepsInvariant == ChainInv /\ [Next]_vars => ChainInv'
<1> SUFFICES ASSUME ChainInv, [Next]_vars  PROVE ChainInv'
  OBVIOUS
<1>1. CASE UNCHANGED vars
  BY <1>1, StutterKeeps
<1>2. CASE Next
  <2>1. PICK r \in Requests : \/ \E e \in Events : ReadHead(r, e)
                              \/ LockHead(r) \/ TakeId(r) \/ StoreEntry(r)
                              \/ Commit(r) \/ RollBack(r)
    BY <1>2 DEF Next
  <2>2. CASE \E e \in Events : ReadHead(r, e)
    BY <2>2, ReadHeadKeeps
  <2>3. CASE LockHead(r)
    BY <2>3, LockHeadKeeps
  <2>4. CASE TakeId(r)
    BY <2>4, TakeIdKeeps
  <2>5. CASE StoreEntry(r)
    BY <2>5, StoreEntryKeeps
  <2>6. CASE Commit(r)
    BY <2>6, CommitKeeps
  <2>7. CASE RollBack(r)
    BY <2>7, RollBackKeeps
  <2> QED  BY <2>1, <2>2, <2>3, <2>4, <2>5, <2>6, <2>7
<1> QED  BY <1>1, <1>2

(* The invariant holds in every state of the audit log.                    *)
THEOREM ChainInvariant == Spec => []ChainInv
BY InitialInvariant, StepKeepsInvariant, PTL DEF Spec

-----------------------------------------------------------------------------
(* Type correctness of the audit chain.                                    *)
THEOREM ChainTypeCorrect == Spec => []TypeOK
<1>1. ChainInv => TypeOK
  BY DEF ChainInv
<1> QED  BY <1>1, ChainInvariant, PTL

(* Every committed entry refers to an earlier committed one, or to none.   *)
THEOREM EveryPreviousExists == Spec => []PreviousExists
<1>1. ChainInv => PreviousExists
  BY DEF ChainInv
<1> QED  BY <1>1, ChainInvariant, PTL

(* An entry appended by a transaction that overlapped no other follows the *)
(* entry before it, for any number of requests, events and entries.        *)
THEOREM LoneEntriesFollow == Spec => []LoneAppendsFollow
<1>1. ChainInv => LoneAppendsFollow
  BY DEF ChainInv
<1> QED  BY <1>1, ChainInvariant, PTL

(* No commit repairs the chain: what an entry would have to follow is      *)
(* already there, or never comes.                                          *)
LEMMA CommitDoesNotRepair ==
  ASSUME ChainInv, NEW r \in Requests, Commit(r), Verifies'
  PROVE  Verifies
<1>a. log \subseteq Row /\ log' \subseteq Row /\ log \subseteq log'
  BY DEF ChainInv, TypeOK, Commit, Transaction
<1>b. \A row \in log' : row \in Row /\ Known(row)
  BY <1>a DEF Commit, Known
<1> SUFFICES ASSUME NEW row \in log  PROVE Follows(row)
  BY DEF Verifies
<1> DEFINE before == {other \in log : other.id < row.id}
           after  == {other \in log' : other.id < row.id}
<1>1. row.previous = LastHash(after)
  BY <1>a DEF Verifies, Follows
<1>2. before \subseteq after /\ after \subseteq Row /\ after \subseteq log'
  BY <1>a
<1>3. CASE after = {}
  BY <1>1, <1>2, <1>3 DEF Follows
<1>4. CASE after # {}
  <2> HIDE DEF after
  <2>1. LastIn(after) \in after /\ \A other \in after : other.id <= LastIn(after).id
    BY <1>2, <1>4, LastInIsLast
  <2>2. row.previous = LastIn(after).entry
    BY <1>1, <1>4 DEF LastHash
  <2>3. row.previous # <<>>
    BY <2>1, <2>2, <1>2, <1>b DEF ChainInv, EntriesDiffer
  <2>4. PICK other \in before : other.entry = row.previous
    BY <2>3 DEF ChainInv, PreviousExists
  <2>5. other = LastIn(after)
    BY <2>1, <2>2, <2>4, <1>2, <1>b DEF ChainInv, EntriesDiffer
  <2>6. before # {} /\ before \subseteq Row /\ LastIn(after) \in before
    BY <2>4, <2>5, <1>2
  <2> HIDE DEF before
  <2>7. LastIn(before) \in before /\ \A o \in before : o.id <= LastIn(before).id
    BY <2>6, LastInIsLast
  <2>8. LastIn(before).id = LastIn(after).id
    <3>1. LastIn(before).id \in Nat /\ LastIn(after).id \in Nat
      BY <2>6, <2>7, ChainAssumption DEF Row, Id
    <3>2. LastIn(before).id <= LastIn(after).id /\ LastIn(after).id <= LastIn(before).id
      BY <2>1, <2>6, <2>7, <1>2
    <3> QED  BY <3>1, <3>2
  <2>9. LastIn(before) = LastIn(after)
    BY <2>1, <2>7, <2>8, <1>2, <1>b DEF ChainInv, IdsDiffer
  <2> QED  BY <2>2, <2>6, <2>9 DEF LastHash, Follows, before
<1> QED  BY <1>3, <1>4

(* Once the verification of a document's log fails, it fails for ever.     *)
THEOREM BrokenChainStaysBroken == Spec => BrokenStaysBroken
<1>1. ChainInv /\ [Next]_vars => [~Verifies => ~Verifies']_vars
  <2> SUFFICES ASSUME ChainInv, Next, Verifies'  PROVE Verifies
    OBVIOUS
  <2>1. CASE log' = log
    BY <2>1 DEF Verifies, Follows
  <2>2. CASE \E r \in Requests : Commit(r)
    BY <2>2, CommitDoesNotRepair
  <2> QED  BY <2>1, <2>2 DEF Next, ReadHead, LockHead, TakeId, StoreEntry, RollBack
<1> QED  BY <1>1, ChainInvariant, PTL DEF Spec, BrokenStaysBroken
=============================================================================
