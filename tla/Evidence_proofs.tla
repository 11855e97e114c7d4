--------------------------- MODULE Evidence_proofs ---------------------------
(***************************************************************************)
(* Theorems about Evidence: a file is in the bucket before a link offers   *)
(* it, and an evidence bundle is consistent although it is assembled from  *)
(* queries that lock nothing.  What was committed once stays so (EvGrows), *)
(* which is why the order of the queries decides.  Theorems about          *)
(* EcpVerifier: what the walk up the issuers leaves in the stored flags.   *)
(***************************************************************************)
EXTENDS Evidence, EcpVerifier, SequenceTheorems, WellFoundedInduction, TLAPS

FilesKnownPc == {"audit", "objects", "signatures", "trail", "persist"}
HeadKnownPc == {"objects", "signatures", "trail", "persist"}
ObjectsKnownPc == {"signatures", "trail", "persist"}
SignaturesKnownPc == {"trail", "persist"}

(* A request for a link stores, keeps and records one content.             *)
LinkIsSound(call) ==
  /\ call.pc \in {"retain", "row"} => call.content \in evStored
  /\ call.pc = "token" => call.content \in evRows

BySms(signers) == {s \in signers : evSignature[s] = "sms"}

(* What the queries have returned is committed, and fits together.         *)
BundleIsSound(call) ==
  /\ call.pc = "files" /\ call.linked => call.content \in evLinked
  /\ call.pc \in FilesKnownPc => call.files \subseteq evRows
  /\ call.pc \in FilesKnownPc /\ call.linked => call.content \in call.files
  /\ call.pc \in HeadKnownPc => call.head \subseteq evLogged
  /\ call.pc \in ObjectsKnownPc => call.files \subseteq call.objects
  /\ call.pc \in SignaturesKnownPc =>
       \A s \in call.signatures : evSignature[s] # ""
  /\ call.pc \in FilesKnownPc \cup {"files"} /\ call.closed => evClosed
  /\ call.pc \in SignaturesKnownPc /\ call.closed => call.signatures = EvSigners
  /\ call.pc = "persist" =>
       call.head \subseteq call.trail /\ BySms(call.signatures) \subseteq call.trail

EgovIsSound(call) == call.pc = "mark" => \A s \in call.signer : evSignature[s] # ""

EvCallIsSound(call) == LinkIsSound(call) /\ BundleIsSound(call) /\ EgovIsSound(call)

EvCallsAreSound == \A r \in EvRequests : EvCallIsSound(evCall[r])

MarksAreSignatures ==
  /\ \A s \in evMarked : evSignature[s] # ""
  /\ evClosed => evMarked = EvSigners

SmsIsLogged == \A s \in EvSigners : evSignature[s] = "sms" => s \in evLogged

EvInv ==
  /\ EvTypeOK
  /\ LinkedContentIsStored
  /\ MarksAreSignatures
  /\ SmsIsLogged
  /\ EvCallsAreSound

-----------------------------------------------------------------------------
LEMMA EvIdleIsCall == EvIdle \in EvCall
BY EvAssumption DEF EvIdle, EvCall, EvPc, EvVersion

LEMMA IdleIsSound == EvCallIsSound(EvIdle)
BY DEF EvCallIsSound, LinkIsSound, BundleIsSound, EgovIsSound, EvIdle,
       FilesKnownPc, HeadKnownPc, ObjectsKnownPc, SignaturesKnownPc

LEMMA Stepped ==
  ASSUME EvTypeOK, NEW r \in EvRequests, NEW call \in EvCall,
         evCall' = [evCall EXCEPT ![r] = call]
  PROVE  evCall' \in [EvRequests -> EvCall]
BY DEF EvTypeOK

(* A call of the right type at another place.                              *)
LEMMA MovedIsCall ==
  ASSUME NEW call \in EvCall, NEW pc \in EvPc
  PROVE  [call EXCEPT !.pc = pc] \in EvCall
BY DEF EvCall

LEMMA EvInitHolds == EvInit => EvInv
<1> SUFFICES ASSUME EvInit PROVE EvInv
  OBVIOUS
<1>1. evContent \in EvVersion
  <2>1. evContent = 1
    BY DEF EvInit
  <2> QED  BY <2>1, EvAssumption DEF EvVersion
<1>2. evCall \in [EvRequests -> EvCall]
  BY EvIdleIsCall DEF EvInit
<1>3. evClosed \in BOOLEAN
  BY DEF EvInit
<1>4. EvTypeOK
  BY <1>1, <1>2, <1>3 DEF EvInit, EvTypeOK
<1>5. EvCallsAreSound
  BY IdleIsSound DEF EvInit, EvCallsAreSound
<1>6. LinkedContentIsStored /\ MarksAreSignatures /\ SmsIsLogged
  BY DEF EvInit, LinkedContentIsStored, MarksAreSignatures, SmsIsLogged
<1> QED  BY <1>4, <1>5, <1>6 DEF EvInv

-----------------------------------------------------------------------------
(* What was committed once stays so.                                       *)
EvGrows ==
  /\ evStored \subseteq evStored'
  /\ evRows \subseteq evRows'
  /\ evLinked \subseteq evLinked'
  /\ evLogged \subseteq evLogged'
  /\ evClosed => evClosed'
  /\ \A s \in EvSigners : evSignature[s] # "" => evSignature'[s] = evSignature[s]

LEMMA SoundStays ==
  ASSUME EvGrows, NEW call \in EvCall, EvCallIsSound(call)
  PROVE  EvCallIsSound(call)'
<1>1. LinkIsSound(call)'
  BY DEF LinkIsSound, EvCallIsSound, EvGrows
<1>2. EgovIsSound(call)'
  BY DEF EgovIsSound, EvCallIsSound, EvGrows, EvCall
<1>3. BundleIsSound(call)'
  <2>1. call.signatures \subseteq EvSigners
    BY DEF EvCall
  <2>2. call.pc = "persist" => BySms(call.signatures)' = BySms(call.signatures)
    BY <2>1 DEF BySms, EvCallIsSound, BundleIsSound, EvGrows, SignaturesKnownPc
  <2>3. call.pc \in SignaturesKnownPc => \A s \in call.signatures : evSignature'[s] # ""
    BY <2>1 DEF EvCallIsSound, BundleIsSound, EvGrows
  <2> QED  BY <2>2, <2>3 DEF EvCallIsSound, BundleIsSound, EvGrows
<1> QED  BY <1>1, <1>2, <1>3 DEF EvCallIsSound

LEMMA SoundInPlace ==
  ASSUME NEW q, NEW call, evCall'[q] = call, EvCallIsSound(call)'
  PROVE  EvCallIsSound(evCall[q])'
BY DEF EvCallIsSound, LinkIsSound, BundleIsSound, EgovIsSound, BySms

(* A step of one request keeps what the others rely on.                    *)
LEMMA EvAllAreSound ==
  ASSUME EvInv, EvGrows, NEW r \in EvRequests, NEW call, EvCallIsSound(call)',
         evCall' = [evCall EXCEPT ![r] = call]
  PROVE  EvCallsAreSound'
<1> SUFFICES ASSUME NEW q \in EvRequests PROVE EvCallIsSound(evCall[q])'
  BY DEF EvCallsAreSound
<1>1. CASE q = r
  <2>1. evCall'[q] = call
    BY <1>1 DEF EvInv, EvTypeOK
  <2> QED  BY <2>1, SoundInPlace
<1>2. CASE q # r
  <2>1. evCall'[q] = evCall[q] /\ evCall[q] \in EvCall /\ EvCallIsSound(evCall[q])
    BY <1>2 DEF EvInv, EvTypeOK, EvCallsAreSound
  <2>2. PICK was \in EvCall : was = evCall[q]
    BY <2>1
  <2>3. EvCallIsSound(was)
    BY <2>1, <2>2
  <2>4. EvCallIsSound(was)'
    BY <2>3, SoundStays
  <2> QED  BY <2>1, <2>2, <2>4, SoundInPlace
<1> QED  BY <1>1, <1>2

(* A request that ends.                                                    *)
LEMMA Ended ==
  ASSUME EvInv, EvGrows, NEW r \in EvRequests, EvReturn(r)
  PROVE  evCall' \in [EvRequests -> EvCall] /\ EvCallsAreSound'
<1>1. EvCallIsSound(EvIdle)'
  BY DEF EvCallIsSound, LinkIsSound, BundleIsSound, EgovIsSound, EvIdle,
         FilesKnownPc, HeadKnownPc, ObjectsKnownPc, SignaturesKnownPc
<1> QED  BY <1>1, EvIdleIsCall, Stepped, EvAllAreSound DEF EvReturn, EvInv

(* A request that moves on, to a place at which its call is sound.         *)
LEMMA Moved ==
  ASSUME EvInv, EvGrows, NEW r \in EvRequests, NEW pc \in EvPc, EvGoto(r, pc),
         EvCallIsSound([evCall[r] EXCEPT !.pc = pc])
  PROVE  evCall' \in [EvRequests -> EvCall] /\ EvCallsAreSound'
<1>1. PICK call \in EvCall : call = [evCall[r] EXCEPT !.pc = pc]
  BY MovedIsCall DEF EvInv, EvTypeOK
<1>2. evCall' = [evCall EXCEPT ![r] = call]
  BY <1>1 DEF EvGoto
<1>3. EvCallIsSound(call)
  BY <1>1
<1>4. EvCallIsSound(call)'
  BY <1>3, SoundStays
<1> QED  BY <1>2, <1>4, Stepped, EvAllAreSound DEF EvInv

(* A request that starts, with the idle call but for some fields.          *)
LEMMA Started ==
  ASSUME EvInv, EvGrows, NEW r \in EvRequests, NEW call \in EvCall, EvCallIsSound(call),
         evCall' = [evCall EXCEPT ![r] = call]
  PROVE  evCall' \in [EvRequests -> EvCall] /\ EvCallsAreSound'
<1>1. EvCallIsSound(call)'
  BY SoundStays
<1> QED  BY <1>1, Stepped, EvAllAreSound DEF EvInv

LEMMA LinkMoves ==
  ASSUME NEW call \in EvCall, NEW pc \in {"idle", "put", "save", "close"}
  PROVE  EvCallIsSound([call EXCEPT !.pc = pc])
BY DEF EvCallIsSound, LinkIsSound, BundleIsSound, EgovIsSound, EvCall,
       FilesKnownPc, HeadKnownPc, ObjectsKnownPc, SignaturesKnownPc

LEMMA LinkMovesOn ==
  ASSUME NEW call \in EvCall, NEW pc \in {"retain", "row"}, call.content \in evStored
  PROVE  EvCallIsSound([call EXCEPT !.pc = pc])
BY DEF EvCallIsSound, LinkIsSound, BundleIsSound, EgovIsSound, EvCall,
       FilesKnownPc, HeadKnownPc, ObjectsKnownPc, SignaturesKnownPc

(* Committed state that stays as it is, but for the bucket's.              *)
Facts == <<evContent, evRows, evLinked, evSignature, evMarked, evLogged, evClosed>>

LEMMA FactsKept ==
  ASSUME EvInv, UNCHANGED Facts, evStored \subseteq evStored',
         evStored' \subseteq EvVersion,
         evCall' \in [EvRequests -> EvCall], EvCallsAreSound'
  PROVE  EvInv'
<1>1. EvTypeOK'
  BY DEF EvInv, EvTypeOK, Facts
<1>2. LinkedContentIsStored'
  BY DEF EvInv, LinkedContentIsStored, Facts
<1>3. MarksAreSignatures'
  BY DEF EvInv, MarksAreSignatures, Facts
<1>4. SmsIsLogged'
  BY DEF EvInv, SmsIsLogged, Facts
<1> QED  BY <1>1, <1>2, <1>3, <1>4 DEF EvInv

LEMMA FactsGrow ==
  ASSUME UNCHANGED Facts, evStored \subseteq evStored'
  PROVE  EvGrows
BY DEF Facts, EvGrows

-----------------------------------------------------------------------------
LEMMA EvBeginKeeps ==
  ASSUME EvInv, NEW r \in EvRequests, NEW pc \in {"put", "save"}, EvBegin(r, pc),
         UNCHANGED Facts, evStored' = evStored
  PROVE  EvInv'
<1>1. evContent \in EvVersion
  BY DEF EvInv, EvTypeOK
<1>2. PICK call : call = [EvIdle EXCEPT !.pc = pc, !.content = evContent]
  OBVIOUS
<1>3. call \in EvCall
  BY <1>1, <1>2 DEF EvIdle, EvCall, EvPc
<1>4. EvCallIsSound(call)
  BY <1>2 DEF EvCallIsSound, LinkIsSound, BundleIsSound, EgovIsSound, EvIdle, EvCall,
           FilesKnownPc, HeadKnownPc, ObjectsKnownPc, SignaturesKnownPc
<1>5. evCall' \in [EvRequests -> EvCall] /\ EvCallsAreSound'
  BY <1>2, <1>3, <1>4, Started, FactsGrow DEF EvBegin
<1>6. evStored' \subseteq EvVersion
  BY DEF EvInv, EvTypeOK
<1> QED  BY <1>5, <1>6, FactsKept

LEMMA EndKeeps ==
  ASSUME EvInv, NEW r \in EvRequests, EvReturn(r), UNCHANGED Facts, evStored' = evStored
  PROVE  EvInv'
<1>1. evCall' \in [EvRequests -> EvCall] /\ EvCallsAreSound'
  BY FactsGrow, Ended
<1>2. evStored' \subseteq EvVersion
  BY DEF EvInv, EvTypeOK
<1> QED  BY <1>1, <1>2, FactsKept

LEMMA GiveUpKeeps ==
  ASSUME EvInv, NEW r \in EvRequests, EvGoto(r, "idle"), UNCHANGED Facts, evStored' = evStored
  PROVE  EvInv'
<1>1. evCall[r] \in EvCall /\ "idle" \in EvPc
  BY DEF EvInv, EvTypeOK, EvPc
<1>2. EvCallIsSound([evCall[r] EXCEPT !.pc = "idle"])
  BY <1>1, LinkMoves
<1>3. evCall' \in [EvRequests -> EvCall] /\ EvCallsAreSound'
  BY <1>1, <1>2, FactsGrow, Moved
<1>4. evStored' \subseteq EvVersion
  BY DEF EvInv, EvTypeOK
<1> QED  BY <1>3, <1>4, FactsKept

LEMMA PutKeeps ==
  ASSUME EvInv, NEW r \in EvRequests, PutObject(r)
  PROVE  EvInv'
<1>1. UNCHANGED Facts
  BY DEF PutObject, Facts
<1>2. evCall[r] \in EvCall /\ evCall[r].content \in EvVersion
  BY DEF EvInv, EvTypeOK, EvCall
<1>3. CASE evStored' = evStored \cup {evCall[r].content} /\ EvGoto(r, "retain")
  <2>1. PICK call : call = [evCall[r] EXCEPT !.pc = "retain"]
    OBVIOUS
  <2>2. call \in EvCall
    BY <1>2, <2>1, MovedIsCall DEF EvPc
  <2>3. call.pc = "retain" /\ call.content = evCall[r].content
    BY <1>2, <2>1 DEF EvCall
  <2>4. EvCallIsSound(call)'
    BY <1>3, <2>3 DEF EvCallIsSound, LinkIsSound, BundleIsSound, EgovIsSound, EvIdle, EvCall,
           FilesKnownPc, HeadKnownPc, ObjectsKnownPc, SignaturesKnownPc
  <2>5. evCall' = [evCall EXCEPT ![r] = call]
    BY <1>3, <2>1 DEF EvGoto
  <2>6. evStored \subseteq evStored' /\ evStored' \subseteq EvVersion
    BY <1>2, <1>3 DEF EvInv, EvTypeOK
  <2>7. EvCallsAreSound' /\ evCall' \in [EvRequests -> EvCall]
    BY <1>1, <2>2, <2>4, <2>5, <2>6, FactsGrow, EvAllAreSound, Stepped DEF EvInv
  <2> QED  BY <1>1, <2>6, <2>7, FactsKept
<1>4. CASE evStored' = evStored /\ EvGoto(r, AfterFailure)
  BY <1>1, <1>4, GiveUpKeeps DEF AfterFailure
<1> QED  BY <1>3, <1>4 DEF PutObject

LEMMA RetainKeeps ==
  ASSUME EvInv, NEW r \in EvRequests, SetObjectRetention(r)
  PROVE  EvInv'
<1>1. UNCHANGED Facts /\ evStored' = evStored /\ evCall[r].pc = "retain"
  BY DEF SetObjectRetention, Facts, EvAt
<1>2. CASE EvGoto(r, "row")
  <2>1. evCall[r] \in EvCall /\ "row" \in EvPc
    BY DEF EvInv, EvTypeOK, EvPc
  <2>2. evCall[r].content \in evStored
    BY <1>1 DEF EvInv, EvCallsAreSound, EvCallIsSound, LinkIsSound
  <2>3. EvCallIsSound([evCall[r] EXCEPT !.pc = "row"])
    BY <2>1, <2>2, LinkMovesOn
  <2>4. evCall' \in [EvRequests -> EvCall] /\ EvCallsAreSound'
    BY <1>1, <1>2, <2>1, <2>3, FactsGrow, Moved
  <2>5. evStored' \subseteq EvVersion
    BY <1>1 DEF EvInv, EvTypeOK
  <2> QED  BY <1>1, <2>4, <2>5, FactsKept
<1>3. CASE EvGoto(r, AfterFailure)
  BY <1>1, <1>3, GiveUpKeeps DEF AfterFailure
<1> QED  BY <1>2, <1>3 DEF SetObjectRetention

LEMMA RowKeeps ==
  ASSUME EvInv, NEW r \in EvRequests, SaveStoredObject(r)
  PROVE  EvInv'
<1>1. /\ evRows' = evRows \cup {evCall[r].content}
      /\ UNCHANGED <<evContent, evStored, evLinked, evSignature, evMarked, evLogged, evClosed>>
      /\ EvGoto(r, "token")
      /\ evCall[r].pc = "row"
  BY DEF SaveStoredObject, EvAt
<1>2. evCall[r] \in EvCall /\ evCall[r].content \in evStored
  BY <1>1 DEF EvInv, EvTypeOK, EvCallsAreSound, EvCallIsSound, LinkIsSound
<1>3. EvGrows
  BY <1>1 DEF EvGrows
<1>4. PICK call : call = [evCall[r] EXCEPT !.pc = "token"]
  OBVIOUS
<1>5. call \in EvCall
  BY <1>2, <1>4, MovedIsCall DEF EvPc
<1>6. call.pc = "token" /\ call.content = evCall[r].content
  BY <1>2, <1>4 DEF EvCall
<1>7. EvCallIsSound(call)'
  BY <1>1, <1>6 DEF EvCallIsSound, LinkIsSound, BundleIsSound, EgovIsSound, EvIdle, EvCall,
           FilesKnownPc, HeadKnownPc, ObjectsKnownPc, SignaturesKnownPc
<1>8. evCall' = [evCall EXCEPT ![r] = call]
  BY <1>1, <1>4 DEF EvGoto
<1>9. EvCallsAreSound' /\ evCall' \in [EvRequests -> EvCall]
  BY <1>3, <1>5, <1>7, <1>8, EvAllAreSound, Stepped DEF EvInv
<1>10. LinkedContentIsStored'
  BY <1>1, <1>2 DEF EvInv, LinkedContentIsStored
<1>11. EvTypeOK'
  BY <1>1, <1>2, <1>9 DEF EvInv, EvTypeOK, EvCall
<1>12. MarksAreSignatures' /\ SmsIsLogged'
  BY <1>1 DEF EvInv, MarksAreSignatures, SmsIsLogged
<1> QED  BY <1>9, <1>10, <1>11, <1>12 DEF EvInv

LEMMA IssueKeeps ==
  ASSUME EvInv, NEW r \in EvRequests, IssueToken(r)
  PROVE  EvInv'
<1>1. /\ evLinked' = evLinked \cup {evCall[r].content}
      /\ UNCHANGED <<evContent, evStored, evRows, evSignature, evMarked, evLogged, evClosed>>
      /\ EvReturn(r)
      /\ evCall[r].pc = "token"
  BY DEF IssueToken, EvAt
<1>2. evCall[r] \in EvCall /\ evCall[r].content \in evRows
  BY <1>1 DEF EvInv, EvTypeOK, EvCallsAreSound, EvCallIsSound, LinkIsSound
<1>3. EvGrows
  BY <1>1 DEF EvGrows
<1>4. EvCallsAreSound' /\ evCall' \in [EvRequests -> EvCall]
  BY <1>1, <1>3, Ended
<1>5. LinkedContentIsStored'
  BY <1>1, <1>2 DEF EvInv, LinkedContentIsStored
<1>6. EvTypeOK'
  BY <1>1, <1>2, <1>4 DEF EvInv, EvTypeOK, EvCall
<1>7. MarksAreSignatures' /\ SmsIsLogged'
  BY <1>1 DEF EvInv, MarksAreSignatures, SmsIsLogged
<1> QED  BY <1>4, <1>5, <1>6, <1>7 DEF EvInv

LEMMA SaveEditKeeps ==
  ASSUME EvInv, NEW r \in EvRequests, SaveEdit(r)
  PROVE  EvInv'
<1>1. /\ UNCHANGED <<evStored, evRows, evLinked, evSignature, evMarked, evLogged, evClosed>>
      /\ EvReturn(r)
  BY DEF SaveEdit
<1>2. evContent' \in EvVersion
  <2>1. evContent \in EvVersion
    BY DEF EvInv, EvTypeOK
  <2>2. CASE evContent < EvContents /\ evContent' = evContent + 1
    BY <2>1, <2>2, EvAssumption DEF EvVersion
  <2>3. CASE evContent' = evContent
    BY <2>1, <2>3
  <2> QED  BY <2>2, <2>3 DEF SaveEdit
<1>3. EvGrows
  BY <1>1 DEF EvGrows
<1>4. EvCallsAreSound' /\ evCall' \in [EvRequests -> EvCall]
  BY <1>1, <1>3, Ended
<1>5. LinkedContentIsStored' /\ MarksAreSignatures' /\ SmsIsLogged'
  BY <1>1 DEF EvInv, LinkedContentIsStored, MarksAreSignatures, SmsIsLogged
<1>6. EvTypeOK'
  BY <1>1, <1>2, <1>4 DEF EvInv, EvTypeOK
<1> QED  BY <1>4, <1>5, <1>6 DEF EvInv

-----------------------------------------------------------------------------
LEMMA AllStaySound ==
  ASSUME EvInv, EvGrows, UNCHANGED evCall
  PROVE  EvCallsAreSound'
<1> SUFFICES ASSUME NEW q \in EvRequests PROVE EvCallIsSound(evCall[q])'
  BY DEF EvCallsAreSound
<1>1. PICK call \in EvCall : call = evCall[q]
  BY DEF EvInv, EvTypeOK
<1>2. EvCallIsSound(call)
  BY <1>1 DEF EvInv, EvCallsAreSound
<1>3. EvCallIsSound(call)'
  BY <1>2, SoundStays
<1> QED  BY <1>1, <1>3, SoundInPlace

LEMMA EvSignKeeps ==
  ASSUME EvInv, NEW s \in EvSigners, SignInTransaction(s)
  PROVE  EvInv'
<1>1. /\ evSignature' = [evSignature EXCEPT ![s] = "sms"]
      /\ evMarked' = evMarked \cup {s}
      /\ evLogged' = evLogged \cup {s}
      /\ evClosed' = (evMarked' = EvSigners)
      /\ UNCHANGED <<evContent, evStored, evRows, evLinked, evCall>>
      /\ evSignature[s] = "" /\ s \notin evMarked
  BY DEF SignInTransaction, Unsigned
<1>2. evSignature \in [EvSigners -> {"", "sms", "egov"}]
  BY DEF EvInv, EvTypeOK
<1>3. ~evClosed
  BY <1>1 DEF EvInv, MarksAreSignatures
<1>4. EvGrows
  BY <1>1, <1>2, <1>3 DEF EvGrows
<1>5. EvCallsAreSound'
  BY <1>1, <1>4, AllStaySound
<1>6. evClosed' \in BOOLEAN
  BY <1>1
<1>7. EvTypeOK'
  BY <1>1, <1>2, <1>6 DEF EvInv, EvTypeOK
<1>8. LinkedContentIsStored'
  BY <1>1 DEF EvInv, LinkedContentIsStored
<1>9. MarksAreSignatures'
  <2>1. \A t \in evMarked' : evSignature'[t] # ""
    BY <1>1, <1>2 DEF EvInv, MarksAreSignatures, EvTypeOK
  <2> QED  BY <1>1, <2>1 DEF MarksAreSignatures
<1>10. SmsIsLogged'
  BY <1>1, <1>2 DEF EvInv, SmsIsLogged
<1> QED  BY <1>5, <1>7, <1>8, <1>9, <1>10 DEF EvInv

LEMMA SignEgovKeeps ==
  ASSUME EvInv, NEW r \in EvRequests, NEW s \in EvSigners, SignWithEgov(r, s)
  PROVE  EvInv'
<1>1. /\ evSignature' = [evSignature EXCEPT ![s] = "egov"]
      /\ UNCHANGED <<evContent, evStored, evRows, evLinked, evMarked, evLogged, evClosed>>
      /\ evSignature[s] = ""
  BY DEF SignWithEgov
<1>2. evSignature \in [EvSigners -> {"", "sms", "egov"}]
  BY DEF EvInv, EvTypeOK
<1>3. EvGrows
  BY <1>1, <1>2 DEF EvGrows
<1>4. PICK call : call = [EvIdle EXCEPT !.pc = "mark", !.signer = {s}]
  OBVIOUS
<1>5. call \in EvCall
  BY <1>4, EvIdleIsCall DEF EvCall, EvPc
<1>6. call.pc = "mark" /\ call.signer = {s}
  BY <1>4 DEF EvIdle
<1>7. EvCallIsSound(call)'
  BY <1>1, <1>2, <1>6 DEF EvCallIsSound, LinkIsSound, BundleIsSound, EgovIsSound, EvIdle, EvCall,
           FilesKnownPc, HeadKnownPc, ObjectsKnownPc, SignaturesKnownPc
<1>8. evCall' = [evCall EXCEPT ![r] = call]
  BY <1>4 DEF SignWithEgov
<1>9. EvCallsAreSound' /\ evCall' \in [EvRequests -> EvCall]
  BY <1>3, <1>5, <1>7, <1>8, EvAllAreSound, Stepped DEF EvInv
<1>10. EvTypeOK'
  BY <1>1, <1>2, <1>9 DEF EvInv, EvTypeOK
<1>11. LinkedContentIsStored'
  BY <1>1 DEF EvInv, LinkedContentIsStored
<1>12. MarksAreSignatures'
  BY <1>1, <1>2 DEF EvInv, MarksAreSignatures, EvTypeOK
<1>13. SmsIsLogged'
  BY <1>1, <1>2 DEF EvInv, SmsIsLogged
<1> QED  BY <1>9, <1>10, <1>11, <1>12, <1>13 DEF EvInv

LEMMA MarkKeeps ==
  ASSUME EvInv, NEW r \in EvRequests, MarkEgovSigner(r)
  PROVE  EvInv'
<1>1. /\ evMarked' = evMarked \cup evCall[r].signer
      /\ UNCHANGED <<evContent, evStored, evRows, evLinked, evSignature, evLogged, evClosed>>
      /\ EvGoto(r, "close")
      /\ evCall[r].pc = "mark"
  BY DEF MarkEgovSigner, EvAt
<1>2. evCall[r] \in EvCall /\ evCall[r].signer \subseteq EvSigners
  BY DEF EvInv, EvTypeOK, EvCall
<1>3. \A s \in evCall[r].signer : evSignature[s] # ""
  BY <1>1 DEF EvInv, EvCallsAreSound, EvCallIsSound, EgovIsSound
<1>4. EvGrows
  BY <1>1 DEF EvGrows
<1>5. "close" \in EvPc /\ EvCallIsSound([evCall[r] EXCEPT !.pc = "close"])
  BY <1>2, LinkMoves DEF EvPc
<1>6. EvCallsAreSound' /\ evCall' \in [EvRequests -> EvCall]
  BY <1>1, <1>4, <1>5, Moved
<1>7. EvTypeOK'
  BY <1>1, <1>2, <1>6 DEF EvInv, EvTypeOK
<1>8. MarksAreSignatures'
  BY <1>1, <1>2, <1>3 DEF EvInv, MarksAreSignatures, EvTypeOK
<1>9. LinkedContentIsStored' /\ SmsIsLogged'
  BY <1>1 DEF EvInv, LinkedContentIsStored, SmsIsLogged
<1> QED  BY <1>6, <1>7, <1>8, <1>9 DEF EvInv

LEMMA CloseKeeps ==
  ASSUME EvInv, NEW r \in EvRequests, CloseEgovDocument(r)
  PROVE  EvInv'
<1>1. /\ evClosed' = (evClosed \/ evMarked = EvSigners)
      /\ UNCHANGED <<evContent, evStored, evRows, evLinked, evSignature, evMarked, evLogged>>
      /\ EvReturn(r)
  BY DEF CloseEgovDocument
<1>2. EvGrows
  BY <1>1 DEF EvGrows
<1>3. EvCallsAreSound' /\ evCall' \in [EvRequests -> EvCall]
  BY <1>1, <1>2, Ended
<1>4. evClosed' \in BOOLEAN
  BY <1>1
<1>5. EvTypeOK'
  BY <1>1, <1>3, <1>4 DEF EvInv, EvTypeOK
<1>6. MarksAreSignatures'
  BY <1>1 DEF EvInv, MarksAreSignatures
<1>7. LinkedContentIsStored' /\ SmsIsLogged'
  BY <1>1 DEF EvInv, LinkedContentIsStored, SmsIsLogged
<1> QED  BY <1>3, <1>5, <1>6, <1>7 DEF EvInv

-----------------------------------------------------------------------------
LEMMA RequestBundleKeeps ==
  ASSUME EvInv, NEW r \in EvRequests, RequestBundle(r)
  PROVE  EvInv'
<1>1. UNCHANGED Facts /\ evStored' = evStored
  BY DEF RequestBundle, Facts
<1> DEFINE linked == evContent \in evLinked
<1>2. PICK call : call = [EvIdle EXCEPT !.pc = "files", !.content = evContent,
                                        !.linked = linked, !.closed = evClosed]
  OBVIOUS
<1>3. linked \in BOOLEAN /\ evClosed \in BOOLEAN /\ evContent \in EvVersion
  <2>1. linked \in BOOLEAN
    OBVIOUS
  <2>2. evClosed \in BOOLEAN
    BY DEF EvInv, EvTypeOK
  <2>3. evContent \in EvVersion
    BY DEF EvInv, EvTypeOK
  <2> QED  BY <2>1, <2>2, <2>3
<1>4. /\ call.pc = "files"
      /\ call.content = evContent
      /\ call.linked = linked
      /\ call.closed = evClosed
  BY <1>2 DEF EvIdle
<1>5. call \in EvCall
  BY <1>2, <1>3 DEF EvIdle, EvCall, EvPc
<1>6. EvCallIsSound(call)
  BY <1>4 DEF EvCallIsSound, LinkIsSound, BundleIsSound, EgovIsSound, EvIdle, EvCall,
           FilesKnownPc, HeadKnownPc, ObjectsKnownPc, SignaturesKnownPc
<1>7. evCall' \in [EvRequests -> EvCall] /\ EvCallsAreSound'
  BY <1>1, <1>2, <1>5, <1>6, Started, FactsGrow DEF RequestBundle
<1>8. evStored' \subseteq EvVersion
  BY <1>1 DEF EvInv, EvTypeOK
<1> QED  BY <1>1, <1>7, <1>8, FactsKept

LEMMA QueryKeeps ==
  ASSUME EvInv, NEW r \in EvRequests, NEW pc \in DOMAIN AfterQuery, Query(r, pc)
  PROVE  EvInv'
<1>1. /\ UNCHANGED Facts
      /\ evStored' = evStored
      /\ evCall[r].pc = pc
  BY DEF Query, Facts, EvAt
<1>2. PICK was \in EvCall : was = evCall[r]
  BY DEF EvInv, EvTypeOK
<1>3. EvCallIsSound(was)
  BY <1>2 DEF EvInv, EvCallsAreSound
<1>4. /\ evRows \subseteq EvVersion /\ evLogged \subseteq EvSigners /\ SignatureRows \subseteq EvSigners
      /\ evLinked \subseteq evRows
  BY DEF EvInv, EvTypeOK, SignatureRows, LinkedContentIsStored
<1>5. SUFFICES ASSUME NEW call \in EvCall, EvCallIsSound(call), evCall' = [evCall EXCEPT ![r] = call]
               PROVE  EvInv'
  <2>1. pc \in {"files", "audit", "objects", "signatures", "trail"}
    BY DEF AfterQuery
  <2>2. CASE pc = "files"
    <3>1. PICK call : call = [was EXCEPT !.pc = "audit", !.files = evRows]
      OBVIOUS
    <3>2. call \in EvCall
      BY <1>4, <3>1 DEF EvCall, EvPc
    <3>3. EvCallIsSound(call)
      BY <1>1, <1>2, <1>3, <1>4, <2>2, <3>1 DEF EvCallIsSound, LinkIsSound, BundleIsSound, EgovIsSound, EvIdle, EvCall,
           FilesKnownPc, HeadKnownPc, ObjectsKnownPc, SignaturesKnownPc
    <3>4. evCall' = [evCall EXCEPT ![r] = call]
      BY <1>2, <2>2, <3>1 DEF Query, AfterQuery, FinalObjects, EvCall
    <3> QED  BY <1>5, <3>2, <3>3, <3>4
  <2>3. CASE pc = "audit"
    <3>1. PICK call : call = [was EXCEPT !.pc = "objects", !.head = evLogged]
      OBVIOUS
    <3>2. call \in EvCall
      BY <1>4, <3>1 DEF EvCall, EvPc
    <3>3. EvCallIsSound(call)
      BY <1>1, <1>2, <1>3, <2>3, <3>1 DEF EvCallIsSound, LinkIsSound, BundleIsSound, EgovIsSound, EvIdle, EvCall,
           FilesKnownPc, HeadKnownPc, ObjectsKnownPc, SignaturesKnownPc
    <3>4. evCall' = [evCall EXCEPT ![r] = call]
      BY <1>2, <2>3, <3>1 DEF Query, AfterQuery, EvCall
    <3> QED  BY <1>5, <3>2, <3>3, <3>4
  <2>4. CASE pc = "objects"
    <3>1. PICK call : call = [was EXCEPT !.pc = "signatures", !.objects = evRows]
      OBVIOUS
    <3>2. call \in EvCall
      BY <1>4, <3>1 DEF EvCall, EvPc
    <3>3. EvCallIsSound(call)
      BY <1>1, <1>2, <1>3, <2>4, <3>1 DEF EvCallIsSound, LinkIsSound, BundleIsSound, EgovIsSound, EvIdle, EvCall,
           FilesKnownPc, HeadKnownPc, ObjectsKnownPc, SignaturesKnownPc
    <3>4. evCall' = [evCall EXCEPT ![r] = call]
      BY <1>2, <2>4, <3>1 DEF Query, AfterQuery, EvCall
    <3> QED  BY <1>5, <3>2, <3>3, <3>4
  <2>5. CASE pc = "signatures"
    <3>1. PICK call : call = [was EXCEPT !.pc = "trail", !.signatures = SignatureRows]
      OBVIOUS
    <3>2. call \in EvCall
      BY <1>4, <3>1 DEF EvCall, EvPc
    <3>3. evClosed => SignatureRows = EvSigners
      BY DEF SignatureRows, EvInv, MarksAreSignatures
    <3>4. \A s \in SignatureRows : evSignature[s] # ""
      BY DEF SignatureRows
    <3>5. EvCallIsSound(call)
      BY <1>1, <1>2, <1>3, <2>5, <3>1, <3>3, <3>4 DEF EvCallIsSound, LinkIsSound, BundleIsSound, EgovIsSound, EvIdle, EvCall,
           FilesKnownPc, HeadKnownPc, ObjectsKnownPc, SignaturesKnownPc
    <3>6. evCall' = [evCall EXCEPT ![r] = call]
      BY <1>2, <2>5, <3>1 DEF Query, AfterQuery, EvCall
    <3> QED  BY <1>5, <3>2, <3>5, <3>6
  <2>6. CASE pc = "trail"
    <3>1. PICK call : call = [was EXCEPT !.pc = "persist", !.trail = evLogged]
      OBVIOUS
    <3>2. call \in EvCall
      BY <1>4, <3>1 DEF EvCall, EvPc
    <3>3. was.signatures \subseteq EvSigners
      BY DEF EvCall
    <3>4. BySms(was.signatures) \subseteq evLogged
      BY <3>3 DEF BySms, EvInv, SmsIsLogged
    <3>5. EvCallIsSound(call)
      BY <1>1, <1>2, <1>3, <2>6, <3>1, <3>4 DEF EvCallIsSound, LinkIsSound, BundleIsSound, EgovIsSound, EvIdle, EvCall,
           FilesKnownPc, HeadKnownPc, ObjectsKnownPc, SignaturesKnownPc
    <3>6. evCall' = [evCall EXCEPT ![r] = call]
      BY <1>2, <2>6, <3>1 DEF Query, AfterQuery, ManifestClosed, EvCall
    <3> QED  BY <1>5, <3>2, <3>5, <3>6
  <2> QED  BY <2>1, <2>2, <2>3, <2>4, <2>5, <2>6
<1>6. evCall' \in [EvRequests -> EvCall] /\ EvCallsAreSound'
  BY <1>1, <1>5, Started, FactsGrow
<1>7. evStored' \subseteq EvVersion
  BY <1>1 DEF EvInv, EvTypeOK
<1> QED  BY <1>1, <1>6, <1>7, FactsKept

-----------------------------------------------------------------------------
LEMMA EvStepHolds ==
  ASSUME EvInv, [EvNext]_evVars
  PROVE  EvInv'
<1>1. CASE UNCHANGED evVars
  <2>1. UNCHANGED Facts /\ evStored' = evStored /\ evCall' = evCall
    BY <1>1 DEF evVars, Facts
  <2>2. EvCallsAreSound' /\ evCall' \in [EvRequests -> EvCall]
    BY <2>1, FactsGrow, AllStaySound DEF EvInv, EvTypeOK
  <2>3. evStored' \subseteq EvVersion
    BY <2>1 DEF EvInv, EvTypeOK
  <2> QED  BY <2>1, <2>2, <2>3, FactsKept
<1>2. ASSUME NEW s \in EvSigners, SignInTransaction(s) PROVE EvInv'
  BY <1>2, EvSignKeeps
<1>3. ASSUME NEW r \in EvRequests, RequestLink(r) PROVE EvInv'
  BY <1>3, EvBeginKeeps DEF RequestLink, Facts
<1>4. ASSUME NEW r \in EvRequests, PutObject(r) PROVE EvInv'
  BY <1>4, PutKeeps
<1>5. ASSUME NEW r \in EvRequests, SetObjectRetention(r) PROVE EvInv'
  BY <1>5, RetainKeeps
<1>6. ASSUME NEW r \in EvRequests, SaveStoredObject(r) PROVE EvInv'
  BY <1>6, RowKeeps
<1>7. ASSUME NEW r \in EvRequests, IssueToken(r) PROVE EvInv'
  BY <1>7, IssueKeeps
<1>8. ASSUME NEW r \in EvRequests, CheckEdit(r) PROVE EvInv'
  BY <1>8, EvBeginKeeps DEF CheckEdit, Facts
<1>9. ASSUME NEW r \in EvRequests, SaveEdit(r) PROVE EvInv'
  BY <1>9, SaveEditKeeps
<1>10. ASSUME NEW r \in EvRequests, NEW s \in EvSigners, SignWithEgov(r, s) PROVE EvInv'
  BY <1>10, SignEgovKeeps
<1>11. ASSUME NEW r \in EvRequests, MarkEgovSigner(r) PROVE EvInv'
  BY <1>11, MarkKeeps
<1>12. ASSUME NEW r \in EvRequests, CloseEgovDocument(r) PROVE EvInv'
  BY <1>12, CloseKeeps
<1>13. ASSUME NEW r \in EvRequests, RequestBundle(r) PROVE EvInv'
  BY <1>13, RequestBundleKeeps
<1>14. ASSUME NEW r \in EvRequests, QueryFiles(r) \/ QueryRest(r) PROVE EvInv'
  BY <1>14, QueryKeeps DEF QueryFiles, QueryRest, AfterQuery
<1>15. ASSUME NEW r \in EvRequests, HandOutBundle(r) \/ EvCrash(r) PROVE EvInv'
  BY <1>15, EndKeeps DEF HandOutBundle, EvCrash, Facts
<1> QED
  BY <1>1, <1>2, <1>3, <1>4, <1>5, <1>6, <1>7, <1>8, <1>9, <1>10, <1>11, <1>12, <1>13,
     <1>14, <1>15 DEF EvNext

(* EvInv is inductive.                                                     *)
THEOREM EvidenceInvariant == EvSpec => []EvInv
<1>1. EvInv /\ [EvNext]_evVars => EvInv'
  BY EvStepHolds
<1> QED  BY <1>1, EvInitHolds, PTL DEF EvSpec

(* The files, the signatures and the requests stay well formed.            *)
THEOREM EvidenceTypeCorrect == EvSpec => []EvTypeOK
<1>1. EvInv => EvTypeOK
  BY DEF EvInv
<1> QED  BY <1>1, EvidenceInvariant, PTL

(* Whatever fails or dies on the way, an offered content is in the bucket  *)
(* and has its row (access_token_service.py:40-80).                        *)
THEOREM OfferedFilesAreStored == EvSpec => []LinkedContentIsStored
<1>1. EvInv => LinkedContentIsStored
  BY DEF EvInv
<1> QED  BY <1>1, EvidenceInvariant, PTL

(* A bundle is consistent for any number of signers, contents and requests *)
(* that go on while it is assembled (evidence_bundle_service.py:35-94).    *)
THEOREM BundlesAreConsistent == EvSpec => []BundleIsConsistent
<1>1. ASSUME EvInv PROVE BundleIsConsistent
  <2> SUFFICES ASSUME NEW r \in EvRequests, Assembled(r)
               PROVE  LET bundle == evCall[r] IN
                      /\ bundle.linked => bundle.content \in bundle.files
                      /\ bundle.files \subseteq bundle.objects
                      /\ bundle.head \subseteq bundle.trail
                      /\ {s \in bundle.signatures : evSignature[s] = "sms"} \subseteq bundle.trail
                      /\ bundle.closed => bundle.signatures = EvSigners
    BY DEF BundleIsConsistent
  <2>1. BundleIsSound(evCall[r]) /\ evCall[r].pc = "persist"
    BY <1>1 DEF EvInv, EvCallsAreSound, EvCallIsSound, Assembled, EvAt
  <2> QED
    BY <2>1
    DEF BundleIsSound, BySms, FilesKnownPc, HeadKnownPc, ObjectsKnownPc, SignaturesKnownPc
<1> QED  BY <1>1, EvidenceInvariant, PTL

-----------------------------------------------------------------------------
(***************************************************************************)
(* The verification of a signature (EcpVerifier): the walk has climbed a   *)
(* chain of certificates in date, and never leaves one that is the only    *)
(* one to follow.                                                          *)
(*                                                                         *)
(* Natural numbers first: a set of them has a least element, and one that  *)
(* has 0 and with every number the next has all of them.                   *)
(***************************************************************************)
LEMMA LessIsWellFounded ==
  \E R : /\ IsWellFoundedOn(R, Nat)
         /\ \A x, y \in Nat : <<x, y>> \in R <=> x < y
<1>1. IsWellFoundedOn({p \in Nat \X Nat : p[1] < p[2]}, Nat)
  BY NatLessThanWellFounded DEF OpToRel
<1>2. \A x, y \in Nat : <<x, y>> \in {p \in Nat \X Nat : p[1] < p[2]} <=> x < y
  OBVIOUS
<1> QED  BY <1>1, <1>2

LEMMA LeastNat ==
  ASSUME NEW T, T \subseteq Nat, T # {}
  PROVE  \E x \in T : \A y \in T : x <= y
<1>1. PICK R : /\ IsWellFoundedOn(R, Nat)
               /\ \A x, y \in Nat : <<x, y>> \in R <=> x < y
  BY LessIsWellFounded
<1>2. IsWellFoundedOn(R, Nat)
  BY <1>1
<1>3. \E x \in T : \A y \in T : ~ (<<y, x>> \in R)
  BY <1>2, WFMin, Zenon
<1>4. PICK x \in T : \A y \in T : ~ (<<y, x>> \in R)
  BY <1>3
<1>5. \A y \in T : ~ (y < x)
  BY <1>1, <1>4
<1> QED  BY <1>5

LEMMA SetInduction ==
  ASSUME NEW T, 0 \in T, \A n \in Nat : n \in T => n + 1 \in T
  PROVE  \A n \in Nat : n \in T
<1>1. SUFFICES ASSUME Nat \ T # {} PROVE FALSE
  OBVIOUS
<1>2. PICK n \in Nat \ T : \A m \in Nat \ T : n <= m
  BY <1>1, LeastNat
<1>3. n # 0 /\ n - 1 \in Nat /\ n - 1 \in T
  BY <1>2
<1> QED  BY <1>2, <1>3

(* findIssuerCertificate finds one of the issuers at hand, ...             *)
LEMMA FirstIsMember ==
  ASSUME NEW S, S \subseteq Certs, S # {}
  PROVE  FirstOf(S) \in S
<1>1. \E c \in S : \A d \in S : c <= d
  BY EcAssumption, LeastNat
<1> QED  BY <1>1 DEF FirstOf

LEMMA FirstOfOne ==
  ASSUME NEW c \in Certs
  PROVE  FirstOf({c}) = c
BY EcAssumption DEF FirstOf

LEMMA FoundIsIssuer ==
  ASSUME ecInput \in EcInput, NEW c \in Certs, FindIssuer(c) # NoCert
  PROVE  FindIssuer(c) \in Certs /\ FindIssuer(c) \in ecInput.issuers[c] \cap AtHand
<1> DEFINE sent == ecInput.issuers[c] \cap ecInput.inCms
           trusted == ecInput.issuers[c] \cap ecInput.trusted
<1>1. sent \subseteq Certs /\ trusted \subseteq Certs
  BY DEF EcInput
<1>2. FindIssuer(c) \in sent \/ FindIssuer(c) \in trusted
  BY <1>1, FirstIsMember DEF FindIssuer
<1> QED  BY <1>1, <1>2 DEF AtHand

(* ... that one, if there is no other.                                     *)
LEMMA OnlyIssuerIsFound ==
  ASSUME NEW c, NEW i \in Certs, ecInput.issuers[c] \cap AtHand = {i}
  PROVE  FindIssuer(c) = i
<1> DEFINE sent == ecInput.issuers[c] \cap ecInput.inCms
           trusted == ecInput.issuers[c] \cap ecInput.trusted
<1>1. \/ sent = {i}
      \/ sent = {} /\ trusted = {i}
  BY DEF AtHand
<1> QED  BY <1>1, FirstOfOne DEF FindIssuer

LEMMA NoCertIsNone ==
  ASSUME ecInput \in EcInput
  PROVE  NoCert \notin Certs /\ ~IsTrusted(NoCert)
BY EcAssumption DEF EcInput, NoCert, IsTrusted

(* A good chain is a function on 2 to MaxDepth + 1 places.                 *)
LEMMA ChainLength ==
  ASSUME NEW n \in Nat, NEW chain \in [1 .. n -> Certs]
  PROVE  Len(chain) = n /\ DOMAIN chain = 1 .. n
<1>1. chain \in Seq(Certs)
  OBVIOUS
<1>2. DOMAIN chain = 1 .. Len(chain) /\ DOMAIN chain = 1 .. n /\ Len(chain) \in Nat
  BY <1>1, LenProperties
<1> QED  BY <1>2

LEMMA GoodChainForm ==
  ASSUME NEW chain \in GoodChains
  PROVE  /\ Len(chain) \in 2 .. (MaxDepth + 1) /\ chain \in [1 .. Len(chain) -> Certs]
         /\ chain[1] = 1 /\ IsTrusted(chain[Len(chain)])
         /\ \A i \in 1 .. Len(chain) : InDate(chain[i])
<1>1. PICK n \in 2 .. (MaxDepth + 1) : chain \in [1 .. n -> Certs]
  BY DEF GoodChains
<1>2. n \in Nat /\ Len(chain) = n /\ DOMAIN chain = 1 .. n
  BY <1>1, ChainLength
<1> QED  BY <1>1, <1>2 DEF GoodChains

LEMMA GoodChainMade ==
  ASSUME NEW n \in 2 .. (MaxDepth + 1), NEW chain \in [1 .. n -> Certs],
         chain[1] = 1, IsTrusted(chain[n]),
         \A i \in 1 .. n : InDate(chain[i]),
         \A i \in 1 .. (n - 1) : chain[i + 1] \in ecInput.issuers[chain[i]] \cap AtHand
  PROVE  chain \in GoodChains
<1>1. n \in Nat /\ Len(chain) = n /\ DOMAIN chain = 1 .. n
  BY ChainLength
<1> QED  BY <1>1 DEF GoodChains

(* What has been climbed so far.                                           *)
Path(path, n) ==
  /\ path[1] = 1
  /\ \A i \in 1 .. (n - 1) :
       InDate(path[i]) /\ path[i + 1] \in ecInput.issuers[path[i]] \cap AtHand

HasClimbed ==
  \E path \in [1 .. (ecWalk.depth + 1) -> Certs] :
    Path(path, ecWalk.depth + 1) /\ path[ecWalk.depth + 1] = ecWalk.at

FollowsOnlyChains ==
  \A chain \in GoodChains :
    OnlyChain(chain) =>
      ecWalk.depth + 2 <= Len(chain) /\ chain[ecWalk.depth + 1] = ecWalk.at

(* The flags of the CMS and of its certificate's dates are the checks' own. *)
FlagsAreTrue ==
  /\ \A c \in {"cms", "hash", "iin", "type"} : c \in ecAnswer <=> c \in ecInput.passes
  /\ "date" \in ecAnswer <=> InDate(1)

(* What is stored comes from the answer, by way of whoever was asked.      *)
StoredAsAnswered ==
  /\ ecClient.valid \/ ecClient.why # {}
  /\ ~ecClient.checked => ecInput.skip
  /\ ecClient.checked /\ ecInput.verifier = "server" =>
       /\ ecWalk.stage = "answered"
       /\ ecClient.valid = ServerAnswer.ok
       /\ ecClient.why = Why(ServerAnswer)

EcInv ==
  /\ ecInput \in EcInput
  /\ ecWalk \in [stage : EcStage, at : Certs, depth : 0 .. MaxDepth]
  /\ ecAnswer \in SUBSET Checks
  /\ ecClient \in EcClient
  /\ ecWalk.stage \in {"idle", "read"} =>
       ecWalk.at = 1 /\ ecWalk.depth = 0 /\ ecAnswer = {}
  /\ ecWalk.stage \in {"chain", "ocsp", "answered"} => FlagsAreTrue
  /\ ecClient.state = "begun" => ecWalk.stage = "idle"
  /\ Walking => HasClimbed /\ FollowsOnlyChains
  /\ "chain" \in ecAnswer => GoodChains # {}
  /\ ecWalk.stage \in {"ocsp", "answered"} /\ (\E chain \in GoodChains : OnlyChain(chain)) =>
       "chain" \in ecAnswer
  /\ ecClient.state = "stored" => StoredAsAnswered

(* The world stays as it is while a signature is verified.                 *)
LEMMA SameChains ==
  ASSUME UNCHANGED ecInput
  PROVE  /\ GoodChains' = GoodChains
         /\ \A chain : OnlyChain(chain)' <=> OnlyChain(chain)
<1>1. GoodChains' = GoodChains
  BY DEF GoodChains, InDate, IsTrusted, AtHand
<1>2. \A chain : OnlyChain(chain)' <=> OnlyChain(chain)
  BY DEF OnlyChain, AtHand
<1> QED  BY <1>1, <1>2

LEMMA SameWalk ==
  ASSUME UNCHANGED <<ecInput, ecWalk>>, HasClimbed, FollowsOnlyChains
  PROVE  HasClimbed' /\ FollowsOnlyChains'
<1>1. HasClimbed'
  BY DEF HasClimbed, Path, InDate, AtHand
<1>2. FollowsOnlyChains'
  BY SameChains DEF FollowsOnlyChains
<1> QED  BY <1>1, <1>2

(* A chain whose only next certificate is the one it is at stays there.    *)
LEMMA OnlyChainRests ==
  ASSUME NEW chain \in GoodChains, OnlyChain(chain),
         NEW k \in 1 .. (Len(chain) - 1), chain[k + 1] = chain[k]
  PROVE  IsTrusted(chain[k])
<1> DEFINE T == {j \in Nat : k + j <= Len(chain) => chain[k + j] = chain[k]}
<1>1. Len(chain) \in Nat
  BY GoodChainForm
<1>2. 0 \in T
  BY <1>1
<1>3. ASSUME NEW j \in Nat, j \in T PROVE j + 1 \in T
  <2>1. CASE k + (j + 1) > Len(chain)
    BY <1>1, <2>1
  <2>2. CASE k + (j + 1) <= Len(chain)
    <3>1. chain[k + j] = chain[k]
      BY <1>1, <1>3, <2>2
    <3>2. /\ ecInput.issuers[chain[k]] \cap AtHand = {chain[k + 1]}
          /\ ecInput.issuers[chain[k + j]] \cap AtHand = {chain[(k + j) + 1]}
      <4>1. k \in 1 .. (Len(chain) - 1) /\ k + j \in 1 .. (Len(chain) - 1)
        BY <1>1, <2>2
      <4> QED  BY <4>1 DEF OnlyChain
    <3>3. chain[(k + j) + 1] = chain[k + 1]
      BY <3>1, <3>2
    <3> QED  BY <1>1, <3>3
  <2> QED  BY <1>1, <2>1, <2>2
<1>4. \A j \in Nat : j \in T
  <2> HIDE DEF T
  <2> QED  BY <1>2, <1>3, SetInduction
<1>5. Len(chain) - k \in Nat
  BY <1>1
<1>6. chain[k + (Len(chain) - k)] = chain[k]
  BY <1>1, <1>4, <1>5
<1>7. k + (Len(chain) - k) = Len(chain)
  BY <1>1
<1> QED  BY <1>6, <1>7, GoodChainForm

(* Where a chain is the only one to follow, the walk does not break, ...   *)
LEMMA OnlyChainGoesOn ==
  ASSUME EcInv, Walking, NEW chain \in GoodChains, OnlyChain(chain)
  PROVE  LET issuer == FindIssuer(ecWalk.at) IN
         /\ LinksLeft /\ InDate(ecWalk.at)
         /\ issuer = chain[ecWalk.depth + 2] /\ InDate(issuer)
         /\ AcceptsIssuer(issuer) \/ MayClimb(issuer)
<1> DEFINE k == ecWalk.depth + 1
           issuer == FindIssuer(ecWalk.at)
<1>1. ecWalk.depth \in Nat /\ MaxDepth \in Nat
  BY EcAssumption DEF EcInv
<1>2. k + 1 <= Len(chain) /\ chain[k] = ecWalk.at
  BY <1>1 DEF EcInv, FollowsOnlyChains
<1>3. Len(chain) \in 2 .. (MaxDepth + 1) /\ chain \in [1 .. Len(chain) -> Certs]
      /\ \A i \in 1 .. Len(chain) : InDate(chain[i])
  BY GoodChainForm
<1>4. k \in 1 .. (Len(chain) - 1) /\ k + 1 \in 1 .. Len(chain) /\ k \in 1 .. Len(chain)
  BY <1>1, <1>2, <1>3
<1>5. chain[k + 1] \in Certs /\ InDate(chain[k + 1]) /\ InDate(chain[k])
  BY <1>3, <1>4
<1>6. issuer = chain[k + 1]
  <2>1. ecInput.issuers[ecWalk.at] \cap AtHand = {chain[k + 1]}
    BY <1>2, <1>4 DEF OnlyChain
  <2> QED  BY <1>5, <2>1, OnlyIssuerIsFound
<1>7. LinksLeft
  BY <1>1, <1>2, <1>3 DEF LinksLeft
<1>8. issuer = ecWalk.at => IsTrusted(issuer)
  BY <1>2, <1>4, <1>6, OnlyChainRests
<1>9. AcceptsIssuer(issuer) \/ MayClimb(issuer)
  BY <1>5, <1>6, <1>8, NoCertIsNone DEF EcInv, AcceptsIssuer, MayClimb
<1>10. k + 1 = ecWalk.depth + 2
  BY <1>1
<1> QED  BY <1>2, <1>5, <1>6, <1>7, <1>9, <1>10

(* ... and where it ends regularly it has climbed a good chain.            *)
LEMMA AcceptedChain ==
  ASSUME EcInv, ChainHolds
  PROVE  GoodChains # {}
<1> DEFINE k == ecWalk.depth + 1
           issuer == FindIssuer(ecWalk.at)
<1>1. k \in Nat /\ k >= 1 /\ k + 1 \in 2 .. (MaxDepth + 1) /\ ecWalk.depth \in Nat
  BY EcAssumption DEF EcInv, ChainHolds, LinksLeft
<1>2. PICK path \in [1 .. k -> Certs] : Path(path, k) /\ path[k] = ecWalk.at
  BY DEF EcInv, ChainHolds, HasClimbed
<1>3. /\ InDate(ecWalk.at) /\ IsTrusted(issuer) /\ InDate(issuer)
      /\ ecWalk.at \in Certs
  BY DEF EcInv, ChainHolds, AcceptsIssuer
<1>4. issuer \in Certs /\ issuer \in ecInput.issuers[ecWalk.at] \cap AtHand
  BY <1>3, NoCertIsNone, FoundIsIssuer DEF EcInv
<1> DEFINE chain == [i \in 1 .. (k + 1) |-> IF i = k + 1 THEN issuer ELSE path[i]]
<1> HIDE DEF issuer
<1>5. chain \in [1 .. (k + 1) -> Certs]
  BY <1>1, <1>2, <1>4
<1>6. /\ chain[k + 1] = issuer /\ chain[k] = ecWalk.at
      /\ \A i \in 1 .. k : chain[i] = path[i]
  BY <1>1, <1>2
<1> HIDE DEF chain
<1>7. chain[1] = 1 /\ IsTrusted(chain[k + 1])
  BY <1>1, <1>2, <1>3, <1>6 DEF Path
<1>8. \A i \in 1 .. (k + 1) : InDate(chain[i])
  <2>1. \A i \in 1 .. (k - 1) : InDate(chain[i])
    BY <1>1, <1>2, <1>6 DEF Path
  <2> QED  BY <1>1, <1>3, <1>6, <2>1
<1>9. \A i \in 1 .. ((k + 1) - 1) :
        chain[i + 1] \in ecInput.issuers[chain[i]] \cap AtHand
  <2>1. ASSUME NEW i \in 1 .. (k - 1)
        PROVE  chain[i + 1] \in ecInput.issuers[chain[i]] \cap AtHand
    <3>1. i \in 1 .. k /\ i + 1 \in 1 .. k
      BY <1>1
    <3>2. chain[i] = path[i] /\ chain[i + 1] = path[i + 1]
      BY <1>6, <3>1
    <3> QED  BY <1>2, <3>2 DEF Path
  <2>2. chain[k + 1] \in ecInput.issuers[chain[k]] \cap AtHand
    BY <1>4, <1>6
  <2> QED  BY <1>1, <2>1, <2>2
<1>10. chain \in GoodChains
  BY <1>1, <1>5, <1>7, <1>8, <1>9, GoodChainMade
<1> QED  BY <1>10

(* The server's steps leave what is stored alone: it has not answered yet. *)
LEMMA StoredStays ==
  ASSUME EcInv, ecInput' = ecInput, ecClient' = ecClient,
         ecWalk.stage \in {"read", "chain", "ocsp"}
  PROVE  /\ ecClient'.state = "stored" => StoredAsAnswered'
         /\ ecClient'.state # "begun"
<1>1. ecClient.state # "begun"
  BY DEF EcInv
<1>2. ecClient.state = "stored" =>
        ~(ecClient.checked /\ ecInput.verifier = "server")
  BY DEF EcInv, StoredAsAnswered
<1> QED  BY <1>1, <1>2 DEF EcInv, StoredAsAnswered

LEMMA EcInitInv == EcInit => EcInv
<1> SUFFICES ASSUME EcInit PROVE EcInv
  OBVIOUS
<1>1. ecWalk \in [stage : EcStage, at : Certs, depth : 0 .. MaxDepth]
  BY EcAssumption DEF EcInit, EcStage
<1> QED  BY <1>1 DEF EcInit, EcInv, EcClient, Walking

LEMMA ReadKeeps ==
  ASSUME EcInv, ReadCms
  PROVE  EcInv'
<1>1. /\ ecInput' = ecInput /\ ecClient' = ecClient
      /\ ecWalk' = [ecWalk EXCEPT !.stage = "chain"]
      /\ ecAnswer' = ecInput.passes \cup (IF InDate(1) THEN {"date"} ELSE {})
      /\ ecWalk.stage = "read" /\ ecWalk.at = 1 /\ ecWalk.depth = 0
  BY DEF ReadCms, EcInv
<1>2. /\ ecWalk' \in [stage : EcStage, at : Certs, depth : 0 .. MaxDepth]
      /\ ecWalk'.stage = "chain" /\ ecWalk'.at = 1 /\ ecWalk'.depth = 0
  BY <1>1 DEF EcInv, EcStage
<1>3. ecAnswer' \in SUBSET Checks /\ "chain" \notin ecAnswer'
  BY <1>1 DEF EcInv, EcInput, Checks
<1>4. HasClimbed'
  <2> DEFINE path == [i \in 1 .. 1 |-> 1]
  <2>1. path \in [1 .. 1 -> Certs] /\ path[1] = 1
    BY EcAssumption
  <2> HIDE DEF path
  <2>2. Path(path, 1)'
    BY <2>1 DEF Path
  <2> QED  BY <1>2, <2>1, <2>2 DEF HasClimbed
<1>5. FollowsOnlyChains'
  <2>1. \A chain \in GoodChains : 2 <= Len(chain) /\ chain[1] = 1
    BY EcAssumption, GoodChainForm
  <2> QED  BY <1>1, <1>2, <2>1, SameChains DEF FollowsOnlyChains
<1>6. FlagsAreTrue'
  BY <1>1 DEF FlagsAreTrue, InDate, EcInv, EcInput
<1> QED  BY <1>1, <1>2, <1>3, <1>4, <1>5, <1>6, StoredStays DEF EcInv, Walking

LEMMA HoldsKeeps ==
  ASSUME EcInv, ChainHolds
  PROVE  EcInv'
<1>1. /\ ecInput' = ecInput /\ ecClient' = ecClient
      /\ ecAnswer' = ecAnswer \cup {"chain"} /\ ecWalk.stage = "chain"
  BY DEF ChainHolds, Walking
<1>2. /\ ecWalk' \in [stage : EcStage, at : Certs, depth : 0 .. MaxDepth]
      /\ ecWalk'.stage = "ocsp"
  BY DEF ChainHolds, EcInv, EcStage
<1>3. GoodChains' # {}
  BY <1>1, AcceptedChain, SameChains
<1>9. FlagsAreTrue'
  BY <1>1 DEF FlagsAreTrue, InDate, EcInv
<1> QED  BY <1>1, <1>2, <1>3, <1>9, StoredStays DEF EcInv, Walking, Checks

LEMMA ClimbsKeeps ==
  ASSUME EcInv, ChainClimbs
  PROVE  EcInv'
<1> DEFINE k == ecWalk.depth + 1
           issuer == FindIssuer(ecWalk.at)
<1>1. /\ ecInput' = ecInput /\ ecClient' = ecClient /\ ecAnswer' = ecAnswer
      /\ ecWalk' = [ecWalk EXCEPT !.at = issuer, !.depth = @ + 1]
      /\ ecWalk.stage = "chain" /\ Walking
      /\ InDate(ecWalk.at) /\ ~AcceptsIssuer(issuer)
  BY DEF ChainClimbs, Walking
<1>2. ecWalk.depth \in Nat /\ k \in 0 .. MaxDepth /\ k \in Nat /\ k >= 1
  BY EcAssumption DEF EcInv, ChainClimbs, LinksLeft
<1>3. issuer \in Certs /\ issuer \in ecInput.issuers[ecWalk.at] \cap AtHand
  BY FoundIsIssuer DEF EcInv, ChainClimbs, MayClimb
<1> HIDE DEF issuer
<1>4. /\ ecWalk' \in [stage : EcStage, at : Certs, depth : 0 .. MaxDepth]
      /\ ecWalk'.stage = "chain" /\ ecWalk'.at = issuer /\ ecWalk'.depth = k
  BY <1>1, <1>2, <1>3 DEF EcInv
<1>5. HasClimbed'
  <2>1. PICK path \in [1 .. k -> Certs] : Path(path, k) /\ path[k] = ecWalk.at
    BY <1>1 DEF EcInv, HasClimbed
  <2>2. PICK longer \in [1 .. (k + 1) -> Certs] :
          longer[k + 1] = issuer /\ \A i \in 1 .. k : longer[i] = path[i]
    <3> DEFINE longer == [i \in 1 .. (k + 1) |-> IF i = k + 1 THEN issuer ELSE path[i]]
    <3>1. longer \in [1 .. (k + 1) -> Certs]
      BY <1>2, <1>3, <2>1
    <3>2. longer[k + 1] = issuer /\ \A i \in 1 .. k : longer[i] = path[i]
      BY <1>2
    <3> HIDE DEF longer
    <3> QED  BY <3>1, <3>2
  <2>3. ASSUME NEW i \in 1 .. k
        PROVE  /\ InDate(longer[i])
               /\ longer[i + 1] \in ecInput.issuers[longer[i]] \cap AtHand
    <3>1. CASE i = k
      BY <1>1, <1>3, <2>1, <2>2, <3>1
    <3>2. CASE i # k
      <4>1. i \in 1 .. (k - 1) /\ i + 1 \in 1 .. k
        BY <1>2, <3>2
      <4> QED  BY <2>1, <2>2, <4>1 DEF Path
    <3> QED  BY <3>1, <3>2
  <2>4. Path(longer, k + 1)
    BY <1>2, <2>1, <2>2, <2>3 DEF Path
  <2>5. \A n \in Nat : Path(longer, n) => Path(longer, n)'
    BY <1>1 DEF Path, InDate, AtHand
  <2>6. k + 1 = ecWalk'.depth + 1 /\ k + 1 \in Nat
    BY <1>2, <1>4
  <2> QED  BY <1>4, <2>2, <2>4, <2>5, <2>6 DEF HasClimbed
<1>6. FollowsOnlyChains'
  <2>1. ASSUME NEW chain \in GoodChains, OnlyChain(chain)
        PROVE  k + 2 <= Len(chain) /\ chain[k + 1] = issuer
    <3>1. issuer = chain[ecWalk.depth + 2] /\ InDate(issuer)
      BY <1>1, <2>1, OnlyChainGoesOn DEF issuer
    <3>2. ecWalk.depth + 2 = k + 1
      BY <1>2
    <3>3. k + 1 <= Len(chain) /\ Len(chain) \in Nat /\ IsTrusted(chain[Len(chain)])
      BY <1>1, <1>2, <2>1, GoodChainForm DEF EcInv, FollowsOnlyChains
    <3>4. k + 1 # Len(chain)
      BY <1>1, <3>1, <3>2, <3>3 DEF AcceptsIssuer
    <3> QED  BY <1>2, <3>1, <3>2, <3>3, <3>4
  <2> QED  BY <1>1, <1>4, <2>1, SameChains DEF FollowsOnlyChains
<1>9. FlagsAreTrue'
  BY <1>1 DEF FlagsAreTrue, InDate, EcInv
<1> QED  BY <1>1, <1>4, <1>5, <1>6, <1>9, SameChains, StoredStays DEF EcInv, Walking

LEMMA BreaksKeeps ==
  ASSUME EcInv, ChainBreaks
  PROVE  EcInv'
<1>1. /\ ecInput' = ecInput /\ ecClient' = ecClient /\ ecAnswer' = ecAnswer
      /\ ecWalk.stage = "chain"
  BY DEF ChainBreaks, Walking
<1>2. /\ ecWalk' \in [stage : EcStage, at : Certs, depth : 0 .. MaxDepth]
      /\ ecWalk'.stage = "ocsp"
  BY DEF ChainBreaks, EcInv, EcStage
<1>3. ~ \E chain \in GoodChains : OnlyChain(chain)
  BY OnlyChainGoesOn DEF ChainBreaks
<1>9. FlagsAreTrue'
  BY <1>1 DEF FlagsAreTrue, InDate, EcInv
<1> QED  BY <1>1, <1>2, <1>3, <1>9, SameChains, StoredStays DEF EcInv, Walking

LEMMA OcspKeeps ==
  ASSUME EcInv, CheckOcsp
  PROVE  EcInv'
<1>1. /\ ecInput' = ecInput /\ ecClient' = ecClient /\ ecWalk.stage = "ocsp"
      /\ ecAnswer' \in SUBSET Checks /\ ("chain" \in ecAnswer' <=> "chain" \in ecAnswer)
  BY DEF CheckOcsp, EcInv, Checks
<1>2. /\ ecWalk' \in [stage : EcStage, at : Certs, depth : 0 .. MaxDepth]
      /\ ecWalk'.stage = "answered"
  BY DEF CheckOcsp, EcInv, EcStage
<1>9. FlagsAreTrue'
  BY DEF CheckOcsp, FlagsAreTrue, InDate, EcInv
<1> QED  BY <1>1, <1>2, <1>9, SameChains, StoredStays DEF EcInv, Walking

LEMMA FailureKeeps ==
  ASSUME EcInv, ServerFails
  PROVE  EcInv'
<1>1. /\ ecInput' = ecInput /\ ecClient' = ecClient /\ ecAnswer' = ecAnswer
      /\ ecWalk.stage \in {"read", "chain", "ocsp"}
  BY DEF ServerFails
<1>2. /\ ecWalk' \in [stage : EcStage, at : Certs, depth : 0 .. MaxDepth]
      /\ ecWalk'.stage = "failed"
  BY DEF ServerFails, EcInv, EcStage
<1> QED  BY <1>1, <1>2, SameChains, StoredStays DEF EcInv, Walking

LEMMA AskingKeeps ==
  ASSUME EcInv, RefuseClaimedIin \/ AskVerifier
  PROVE  EcInv'
<1>1. /\ ecInput' = ecInput /\ ecAnswer' = ecAnswer /\ ecWalk.stage = "idle"
      /\ ecClient.state = "begun" /\ ecClient'.state \in {"refused", "waiting"}
      /\ ecClient' \in EcClient
  BY DEF RefuseClaimedIin, AskVerifier, EcInv, EcClient
<1>2. /\ ecWalk' \in [stage : EcStage, at : Certs, depth : 0 .. MaxDepth]
      /\ ecWalk'.stage \in {"idle", "read"}
      /\ ecWalk'.at = ecWalk.at /\ ecWalk'.depth = ecWalk.depth
  BY <1>1 DEF RefuseClaimedIin, AskVerifier, EcInv, EcStage
<1> QED  BY <1>1, <1>2, SameChains DEF EcInv, Walking

(* Whatever is answered, the reason is made of those there are, ...        *)
LEMMA WhyIsReason ==
  ASSUME NEW answer \in EcAnswer
  PROVE  Why(answer) \in SUBSET EcReasons
<1> DEFINE lines == {Complaint[c] : c \in FailedChecks(answer)}
<1>1. FailedChecks(answer) \subseteq Checks
  BY DEF FailedChecks, EcAnswer, NamedWhenMissing, Checks
<1>2. lines \subseteq EcReasons /\ OwnWords \in EcReasons /\ Fallback \in EcReasons
  BY <1>1 DEF EcReasons
<1> HIDE DEF lines
<1>3. answer.ok \in BOOLEAN /\ answer.error \in BOOLEAN
  BY DEF EcAnswer
<1>4. \/ Why(answer) = {OwnWords} \/ Why(answer) = {} \/ Why(answer) = {Fallback}
      \/ Why(answer) = lines
  BY <1>3 DEF Why, lines
<1> QED  BY <1>2, <1>4

(* ... and there is one where the answer is not ok.                        *)
LEMMA RefusalHasReason ==
  ASSUME NEW answer \in EcAnswer, ~answer.ok
  PROVE  Why(answer) # {}
<1> DEFINE lines == {Complaint[c] : c \in FailedChecks(answer)}
<1> HIDE DEF lines
<1>1. answer.error \in BOOLEAN
  BY DEF EcAnswer
<1>2. \/ Why(answer) = {OwnWords} \/ Why(answer) = {Fallback}
      \/ Why(answer) = lines /\ lines # {}
  BY <1>1 DEF Why, lines
<1> QED  BY <1>2

LEMMA StoreKeeps ==
  ASSUME EcInv, NEW answer \in EcAnswer, NEW checked \in BOOLEAN, Store(answer, checked),
         ~checked => ecInput.skip,
         checked /\ ecInput.verifier = "server" =>
           ecWalk.stage = "answered" /\ answer = ServerAnswer
  PROVE  EcInv'
<1>1. /\ ecInput' = ecInput /\ ecWalk' = ecWalk /\ ecAnswer' = ecAnswer
      /\ ecClient' = [state |-> "stored", valid |-> answer.ok, checked |-> checked,
                      why |-> Why(answer)]
  BY DEF Store
<1>2. Walking => (HasClimbed /\ FollowsOnlyChains)'
  BY <1>1, SameWalk DEF EcInv
<1>3. answer.ok \in BOOLEAN
  BY DEF EcAnswer
<1>4. ecClient' \in EcClient
  BY <1>1, <1>3, WhyIsReason DEF EcClient
<1>5. ServerAnswer' = ServerAnswer
  BY <1>1 DEF ServerAnswer
<1>6. ecClient'.state = "stored" => StoredAsAnswered'
  <2>1. ecClient'.valid \/ ecClient'.why # {}
    BY <1>1, <1>3, RefusalHasReason
  <2>2. ~ecClient'.checked => ecInput'.skip
    BY <1>1
  <2>3. ASSUME ecClient'.checked /\ ecInput'.verifier = "server"
        PROVE  /\ ecWalk'.stage = "answered"
               /\ ecClient'.valid = ServerAnswer'.ok
               /\ ecClient'.why = Why(ServerAnswer)'
    <3>1. ecWalk.stage = "answered" /\ answer = ServerAnswer
      BY <1>1, <2>3
    <3>2. Why(ServerAnswer)' = Why(ServerAnswer')
      BY DEF Why, FailedChecks
    <3> QED  BY <1>1, <1>5, <3>1, <3>2
  <2> QED  BY <2>1, <2>2, <2>3 DEF StoredAsAnswered
<1>7. ecClient'.state # "begun"
  BY <1>1
<1>8. ecWalk.stage \in {"chain", "ocsp", "answered"} => FlagsAreTrue'
  BY <1>1 DEF EcInv, FlagsAreTrue, InDate
<1> QED  BY <1>1, <1>2, <1>4, <1>6, <1>7, <1>8, SameChains DEF EcInv, Walking

LEMMA ClientKeeps ==
  ASSUME EcInv, ClientGivesUp \/ StoreSignature \/ StoreOtherAnswer \/ StoreUnchecked
  PROVE  EcInv'
<1>1. CASE ClientGivesUp
  <2>1. /\ ecInput' = ecInput /\ ecWalk' = ecWalk /\ ecAnswer' = ecAnswer
        /\ ecClient' \in EcClient /\ ecClient'.state = "refused"
    BY <1>1 DEF ClientGivesUp, EcInv, EcClient
  <2>2. Walking => (HasClimbed /\ FollowsOnlyChains)'
    BY <2>1, SameWalk DEF EcInv
  <2>3. ecWalk.stage \in {"chain", "ocsp", "answered"} => FlagsAreTrue'
    BY <2>1 DEF EcInv, FlagsAreTrue, InDate
  <2> QED  BY <2>1, <2>2, <2>3, SameChains DEF EcInv, Walking
<1>2. CASE StoreSignature
  <2>1. ServerAnswer \in EcAnswer
    <3>1. (ecAnswer = Checks) \in BOOLEAN /\ ecAnswer \in SUBSET Checks
      BY DEF EcInv
    <3> QED  BY <3>1 DEF ServerAnswer, EcAnswer
  <2>2. ecWalk.stage = "answered" /\ Store(ServerAnswer, TRUE)
    BY <1>2 DEF StoreSignature
  <2> QED  BY <2>1, <2>2, StoreKeeps
<1>3. CASE StoreOtherAnswer
  <2>1. PICK answer \in EcAnswer : Store(answer, TRUE)
    BY <1>3 DEF StoreOtherAnswer
  <2>2. ecInput.verifier = "other"
    BY <1>3 DEF StoreOtherAnswer
  <2> QED  BY <2>1, <2>2, StoreKeeps
<1>4. CASE StoreUnchecked
  <2>1. SkippedAnswer \in EcAnswer
    BY DEF SkippedAnswer, EcAnswer
  <2>2. ecInput.skip /\ Store(SkippedAnswer, FALSE)
    BY <1>4 DEF StoreUnchecked
  <2> QED  BY <2>1, <2>2, StoreKeeps
<1> QED  BY <1>1, <1>2, <1>3, <1>4

LEMMA EcStepInv == EcInv /\ [EcNext]_ecVars => EcInv'
<1> SUFFICES ASSUME EcInv, [EcNext]_ecVars PROVE EcInv'
  OBVIOUS
<1>1. CASE UNCHANGED ecVars
  <2>1. /\ ecInput' = ecInput /\ ecWalk' = ecWalk /\ ecAnswer' = ecAnswer
        /\ ecClient' = ecClient
    BY <1>1 DEF ecVars
  <2>2. Walking => (HasClimbed /\ FollowsOnlyChains)'
    BY <2>1, SameWalk DEF EcInv
  <2>3. /\ ecWalk.stage \in {"chain", "ocsp", "answered"} => FlagsAreTrue'
        /\ ecClient.state = "stored" => StoredAsAnswered'
    BY <2>1 DEF EcInv, FlagsAreTrue, InDate, StoredAsAnswered, ServerAnswer, Why, FailedChecks
  <2> QED  BY <2>1, <2>2, <2>3, SameChains DEF EcInv, Walking
<1>2. CASE EcNext
  BY <1>2, ReadKeeps, HoldsKeeps, ClimbsKeeps, BreaksKeeps, OcspKeeps, FailureKeeps,
     AskingKeeps, ClientKeeps DEF EcNext
<1> QED  BY <1>1, <1>2

(* EcInv is inductive.                                                     *)
THEOREM EcpVerifierInvariant == EcSpec => []EcInv
BY EcInitInv, EcStepInv, PTL DEF EcSpec

(* The server's reason, line by line.                                      *)
LEMMA LinesSayWhatFailed ==
  ASSUME ecAnswer \subseteq Checks
  PROVE  \A c \in Checks : Complaint[c] \in Why(ServerAnswer) <=> c \notin ecAnswer
<1> DEFINE lines == {Complaint[c] : c \in Checks \ ecAnswer}
<1>1. FailedChecks(ServerAnswer) = Checks \ ecAnswer
  BY DEF FailedChecks, ServerAnswer, NamedWhenMissing, Checks
<1>2. Why(ServerAnswer) = IF ecAnswer = Checks THEN {}
                          ELSE IF lines = {} THEN {Fallback} ELSE lines
  BY <1>1 DEF Why, ServerAnswer
<1>3. ecAnswer # Checks => lines # {}
  OBVIOUS
<1>4. Why(ServerAnswer) = lines
  BY <1>2, <1>3
<1>5. \A c, d \in Checks : Complaint[c] = Complaint[d] => c = d
  <2>1. /\ Complaint["cms"] = "CMS signature is invalid"
        /\ Complaint["hash"] = "Document hash does not match"
        /\ Complaint["iin"] = "Certificate IIN does not match"
        /\ Complaint["date"] = "Certificate is out of date"
        /\ Complaint["chain"] = "Certificate chain is not trusted"
        /\ Complaint["type"] = "Certificate type is not allowed"
        /\ Complaint["ocsp"] = "OCSP revocation check failed"
    BY DEF Complaint
  <2> QED  BY <2>1 DEF Checks
<1> QED  BY <1>4, <1>5

(* A signature that EcpVerifierServer has checked counts as valid only     *)
(* where a chain of certificates in date, and not too long, leads to a     *)
(* trusted one; its reason names exactly the checks of the CMS and its     *)
(* certificate that fail, the chain where there is none, and never where   *)
(* there is one and no other to follow.  Whoever answers, one that does    *)
(* not count says why; and one that nobody checked is an admission         *)
(* contract's and says so: for all certificates, depths and answers        *)
(* (EcpVerifierServer.java:178-185, 508-571,                               *)
(* ecp_signing_service.py:107-159, 245).                                   *)
THEOREM ValidSignaturesHaveChains == EcSpec => []ValidityFollowsTheChain
<1>1. EcInv => ValidityFollowsTheChain
  <2> SUFFICES ASSUME EcInv, ecClient.state = "stored" PROVE ValidityFollowsTheChain
    BY DEF ValidityFollowsTheChain
  <2>1. StoredAsAnswered /\ ecAnswer \subseteq Checks
    BY DEF EcInv
  <2>2. ASSUME ecClient.checked, ecInput.verifier = "server"
        PROVE  (ecClient.valid => GoodChains # {}) /\ ReasonFitsTheWorld
    <3>1. /\ ecWalk.stage = "answered" /\ ecClient.valid = (ecAnswer = Checks)
          /\ ecClient.why = Why(ServerAnswer)
      BY <2>1, <2>2 DEF StoredAsAnswered, ServerAnswer
    <3>2. \A c \in Checks : Complaint[c] \in ecClient.why <=> c \notin ecAnswer
      BY <2>1, <3>1, LinesSayWhatFailed
    <3>3. ecClient.valid => GoodChains # {}
      BY <3>1 DEF EcInv, Checks
    <3>4. /\ "CMS signature is invalid" \in ecClient.why <=> "cms" \notin ecAnswer
          /\ "Document hash does not match" \in ecClient.why <=> "hash" \notin ecAnswer
          /\ "Certificate IIN does not match" \in ecClient.why <=> "iin" \notin ecAnswer
          /\ "Certificate type is not allowed" \in ecClient.why <=> "type" \notin ecAnswer
          /\ "Certificate is out of date" \in ecClient.why <=> "date" \notin ecAnswer
          /\ "Certificate chain is not trusted" \in ecClient.why <=> "chain" \notin ecAnswer
      BY <3>2 DEF Checks, Complaint
    <3>5. FlagsAreTrue
      BY <3>1 DEF EcInv
    <3>6. /\ "chain" \in ecAnswer => GoodChains # {}
          /\ (\E chain \in GoodChains : OnlyChain(chain)) => "chain" \in ecAnswer
      BY <3>1 DEF EcInv
    <3> QED  BY <3>3, <3>4, <3>5, <3>6 DEF ReasonFitsTheWorld, FlagsAreTrue
  <2>3. ecClient.valid \/ ecClient.why # {}
    BY <2>1 DEF StoredAsAnswered
  <2>4. ecWalk.stage = "idle" /\ ecInput.verifier = "server" => ecInput.skip /\ ~ecClient.checked
    <3>1. ecClient.checked \in BOOLEAN
      BY DEF EcInv, EcClient
    <3> QED  BY <2>1, <3>1 DEF StoredAsAnswered
  <2> QED  BY <2>2, <2>3, <2>4 DEF ValidityFollowsTheChain
<1> QED  BY <1>1, EcpVerifierInvariant, PTL
=============================================================================
