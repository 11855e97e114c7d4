---------------------------- MODULE SmsOtp_proofs ----------------------------
(***************************************************************************)
(* Theorems about SmsOtp: for any number of requests, sessions, codes and  *)
(* attempts, codes keep their cooldown although only the newest session is *)
(* asked for it, only a code that was being requested can take the mark of *)
(* a signature back, and no signer without a signature is locked out.      *)
(***************************************************************************)
EXTENDS SmsOtp, WellFoundedInduction, TLAPS

Opened == 1 .. smsCount

(* What nobody ever writes again, and what an unused slot looks like.      *)
RowIsSound(i) ==
  /\ smsSession[i].attempts = 0
  /\ smsSession[i].seen \subseteq Opened
  /\ i \in Opened => /\ smsSession[i].made <= smsNow
                     /\ smsSession[i].cooldown = smsSession[i].made + Cooldown
  /\ i \notin Opened => smsSession[i].status = "none"

RowsAreSound == \A i \in SessionIds : RowIsSound(i)

MadeInOrder ==
  \A i \in Opened : \A j \in Opened : i <= j => smsSession[i].made <= smsSession[j].made

(* A session may be created a cooldown after all that were active.         *)
CooledDown(sessions) == \A i \in sessions : smsSession[i].made + Cooldown <= smsNow

HoldingPc == {"set_code", "gateway", "sent", "unsent", "enter"}

SmsCallIsSound(r) ==
  /\ smsCall[r].pc = "insert" => smsCall[r].seen \subseteq Opened /\ CooledDown(smsCall[r].seen)
  /\ smsCall[r].pc \in HoldingPc => smsCall[r].session \in Opened

SmsCallsAreSound == \A r \in SmsRequests : SmsCallIsSound(r)

NeverRefused == smsSigner \notin {"expired", "rejected"}

(* After a signature that no request for a code overlapped there is none.  *)
NobodyUnmarks ==
  smsSignature # 0 /\ ~smsOverlapped =>
    /\ smsSigner = "signed"
    /\ smsSession[smsSignature].status = "signed"
    /\ \A r \in SmsRequests : ~Requesting(r)

SmsInv ==
  /\ SmsTypeOK
  /\ RowsAreSound
  /\ MadeInOrder
  /\ CodesKeepTheCooldown
  /\ SmsCallsAreSound
  /\ NeverRefused
  /\ NobodyUnmarks

-----------------------------------------------------------------------------
LEMMA SmsIdleIsCall == SmsIdle \in SmsCall
BY DEF SmsIdle, SmsCall, SmsPc

LEMMA NoSessionIsRow == NoSession \in SessionRow
BY SmsAssumption DEF NoSession, SessionRow, SessionStatus

LEMMA CountBound ==
  ASSUME SmsTypeOK
  PROVE  smsCount \in Nat /\ Opened \subseteq SessionIds /\ SessionIds \subseteq Nat
BY SmsAssumption DEF SmsTypeOK, Opened, SessionIds

LEMMA SmsInitHolds == SmsInit => SmsInv
<1> SUFFICES ASSUME SmsInit PROVE SmsInv
  OBVIOUS
<1>1. smsSession \in [SessionIds -> SessionRow]
  BY NoSessionIsRow DEF SmsInit
<1>2. smsCall \in [SmsRequests -> SmsCall]
  BY SmsIdleIsCall DEF SmsInit
<1>3. smsNow \in 0 .. MaxNow /\ smsCount \in 0 .. MaxSessions /\ smsWrong \in Nat
  BY SmsAssumption DEF SmsInit
<1>4. smsSigner \in SmsSignerStatus /\ smsSignature \in {0} \cup SessionIds
  BY DEF SmsInit, SmsSignerStatus
<1>5. smsOverlapped \in BOOLEAN
  BY DEF SmsInit
<1>6. SmsTypeOK
  BY <1>1, <1>2, <1>3, <1>4, <1>5 DEF SmsTypeOK
<1>7. Opened = {}
  BY DEF SmsInit, Opened
<1>8. \A i \in SessionIds : smsSession[i].seen = {} /\ smsSession[i].attempts = 0
                            /\ smsSession[i].status = "none"
  BY DEF SmsInit, NoSession
<1>9. RowsAreSound /\ MadeInOrder /\ CodesKeepTheCooldown
  BY <1>7, <1>8 DEF RowsAreSound, RowIsSound, MadeInOrder, CodesKeepTheCooldown
<1>10. SmsCallsAreSound
  BY DEF SmsInit, SmsCallsAreSound, SmsCallIsSound, SmsIdle, HoldingPc
<1>11. NeverRefused /\ NobodyUnmarks
  BY DEF SmsInit, NeverRefused, NobodyUnmarks
<1> QED  BY <1>6, <1>9, <1>10, <1>11 DEF SmsInv

(* order_by("-created_at").first() finds a session that is created after   *)
(* all other active ones.                                                  *)
LEMMA NewestIsNewest ==
  ASSUME SmsTypeOK, RowsAreSound, ActiveSessions # {}
  PROVE  NewestActive \in ActiveSessions /\ \A j \in ActiveSessions : j <= NewestActive
<1>1. ActiveSessions \subseteq Opened
  BY DEF ActiveSessions, SmsInactive, RowsAreSound, RowIsSound
<1>2. smsCount \in Nat /\ \A i \in ActiveSessions : i \in Nat /\ i <= smsCount
  BY <1>1, CountBound DEF Opened
<1> DEFINE back == {smsCount - i : i \in ActiveSessions}
<1>3. back \subseteq Nat /\ back # {}
  BY <1>2
<1>4. \E m \in back : \A n \in back : <<n, m>> \notin OpToRel(<, Nat)
  <2> HIDE DEF back
  <2> QED  BY <1>3, NatLessThanWellFounded, WFMin
<1>5. PICK m \in back : \A n \in back : ~ (n < m)
  BY <1>3, <1>4 DEF OpToRel
<1>6. \A n \in back : m <= n
  BY <1>3, <1>5
<1>7. PICK i \in ActiveSessions : m = smsCount - i
  BY <1>5
<1>8. ASSUME NEW j \in ActiveSessions PROVE j <= i
  <2>1. m <= smsCount - j
    BY <1>6
  <2> QED  BY <1>2, <1>7, <2>1
<1> QED  BY <1>7, <1>8 DEF NewestActive

(* So its cooldown is everybody's.                                         *)
LEMMA NewestCoolsAll ==
  ASSUME SmsTypeOK, RowsAreSound, MadeInOrder, ActiveSessions # {},
         ~IsInCooldown(smsSession[NewestActive])
  PROVE  CooledDown(ActiveSessions)
<1>1. ActiveSessions \subseteq Opened /\ ActiveSessions \subseteq SessionIds
  BY DEF ActiveSessions, SmsInactive, RowsAreSound, RowIsSound
<1>2. NewestActive \in Opened /\ \A j \in ActiveSessions : j <= NewestActive
  BY <1>1, NewestIsNewest
<1>3. /\ smsSession[NewestActive].cooldown = smsSession[NewestActive].made + Cooldown
      /\ smsSession[NewestActive].made \in Nat
      /\ smsNow \in Nat
  BY <1>1, NewestIsNewest, <1>2 DEF RowsAreSound, RowIsSound, SmsTypeOK, SessionRow
<1>4. smsSession[NewestActive].made + Cooldown <= smsNow
  BY <1>3, SmsAssumption DEF IsInCooldown
<1> SUFFICES ASSUME NEW i \in ActiveSessions PROVE smsSession[i].made + Cooldown <= smsNow
  BY DEF CooledDown
<1>5. smsSession[i].made \in Nat
  BY <1>1 DEF SmsTypeOK, SessionRow
<1>6. smsSession[i].made <= smsSession[NewestActive].made
  BY <1>1, <1>2 DEF MadeInOrder
<1> QED  BY <1>3, <1>4, <1>5, <1>6, SmsAssumption

-----------------------------------------------------------------------------
(* A step after which the sessions are as old as before.                   *)
Frame ==
  /\ smsCount' = smsCount
  /\ smsNow \in Nat /\ smsNow' \in Nat /\ smsNow <= smsNow'
  /\ \A i \in SessionIds :
       /\ smsSession'[i].made = smsSession[i].made
       /\ smsSession'[i].cooldown = smsSession[i].cooldown
       /\ smsSession'[i].attempts = smsSession[i].attempts
       /\ smsSession'[i].seen = smsSession[i].seen
       /\ i \notin Opened => smsSession'[i].status = smsSession[i].status

LEMMA FrameKeepsRows ==
  ASSUME SmsInv, Frame
  PROVE  RowsAreSound' /\ MadeInOrder' /\ CodesKeepTheCooldown'
<1>1. Opened' = Opened /\ Opened \subseteq SessionIds
  BY CountBound DEF Frame, Opened, SmsInv
<1>2. ASSUME NEW i \in SessionIds PROVE RowIsSound(i)'
  <2>1. RowIsSound(i)
    BY DEF SmsInv, RowsAreSound
  <2>2. smsSession[i].made \in Nat
    BY DEF SmsInv, SmsTypeOK, SessionRow
  <2> QED  BY <1>1, <2>1, <2>2 DEF Frame, RowIsSound
<1>3. RowsAreSound'
  BY <1>2 DEF RowsAreSound
<1>4. MadeInOrder'
  BY <1>1 DEF Frame, SmsInv, MadeInOrder
<1>5. CodesKeepTheCooldown'
  <2> SUFFICES ASSUME NEW j \in SessionIds, NEW i \in smsSession'[j].seen
               PROVE  smsSession'[j].made >= smsSession'[i].made + Cooldown
    BY DEF CodesKeepTheCooldown
  <2>1. i \in smsSession[j].seen /\ i \in SessionIds
    BY <1>1 DEF Frame, SmsInv, RowsAreSound, RowIsSound
  <2>2. smsSession[j].made >= smsSession[i].made + Cooldown
    BY <2>1 DEF SmsInv, CodesKeepTheCooldown
  <2> QED  BY <2>1, <2>2 DEF Frame
<1> QED  BY <1>3, <1>4, <1>5

(* What a request has read stays good while others move.                   *)
LEMMA FrameKeepsCalls ==
  ASSUME SmsInv, Frame, NEW r \in SmsRequests,
         \A q \in SmsRequests \ {r} : smsCall'[q] = smsCall[q],
         SmsCallIsSound(r)'
  PROVE  SmsCallsAreSound'
<1> SUFFICES ASSUME NEW q \in SmsRequests \ {r} PROVE SmsCallIsSound(q)'
  BY DEF SmsCallsAreSound
<1>1. Opened' = Opened /\ Opened \subseteq SessionIds
  BY CountBound DEF Frame, Opened, SmsInv
<1>2. SmsCallIsSound(q) /\ smsCall'[q] = smsCall[q]
  BY DEF SmsInv, SmsCallsAreSound
<1>3. smsCall[q].pc \in HoldingPc => smsCall[q].session \in Opened
  BY <1>2 DEF SmsCallIsSound
<1>4. ASSUME smsCall[q].pc = "insert", NEW i \in smsCall[q].seen
      PROVE  smsSession'[i].made + Cooldown <= smsNow'
  <2>1. i \in SessionIds /\ smsSession[i].made + Cooldown <= smsNow
    BY <1>1, <1>2, <1>4 DEF SmsCallIsSound, CooledDown
  <2>2. smsSession[i].made \in Nat
    BY <2>1 DEF SmsInv, SmsTypeOK, SessionRow
  <2>3. smsSession'[i].made = smsSession[i].made
    BY <2>1 DEF Frame
  <2> QED  BY <2>1, <2>2, <2>3, SmsAssumption DEF Frame
<1>5. smsCall[q].pc = "insert" => smsCall[q].seen \subseteq Opened
  BY <1>2 DEF SmsCallIsSound
<1> QED  BY <1>1, <1>2, <1>3, <1>4, <1>5 DEF SmsCallIsSound, CooledDown

LEMMA StillFrame ==
  ASSUME SmsInv, UNCHANGED <<smsNow, smsCount, smsSession>>
  PROVE  Frame
BY DEF Frame, SmsInv, SmsTypeOK

(* A step that sets an opened session's status or code.                    *)
LEMMA StatusFrame ==
  ASSUME SmsInv, UNCHANGED <<smsNow, smsCount>>, NEW i \in Opened, NEW status \in SessionStatus,
         smsSession' = [smsSession EXCEPT ![i].status = status]
  PROVE  Frame /\ smsSession' \in [SessionIds -> SessionRow]
<1>1. i \in SessionIds /\ smsSession \in [SessionIds -> SessionRow]
  BY CountBound DEF SmsInv, SmsTypeOK
<1>2. smsSession'[i] = [smsSession[i] EXCEPT !.status = status]
  BY <1>1
<1>3. smsSession'[i] \in SessionRow
  BY <1>1, <1>2 DEF SessionRow
<1>4. smsSession' \in [SessionIds -> SessionRow]
  BY <1>1, <1>3
<1>5. /\ smsSession'[i].made = smsSession[i].made
      /\ smsSession'[i].cooldown = smsSession[i].cooldown
      /\ smsSession'[i].attempts = smsSession[i].attempts
      /\ smsSession'[i].seen = smsSession[i].seen
  BY <1>1, <1>2 DEF SessionRow
<1>6. \A j \in SessionIds : j # i => smsSession'[j] = smsSession[j]
  BY <1>1
<1> QED  BY <1>1, <1>4, <1>5, <1>6 DEF Frame, SmsInv, SmsTypeOK

LEMMA CodeFrame ==
  ASSUME SmsInv, UNCHANGED <<smsNow, smsCount>>, NEW i \in Opened, NEW code \in Codes,
         smsSession' = [smsSession EXCEPT ![i].code = code]
  PROVE  /\ Frame
         /\ smsSession' \in [SessionIds -> SessionRow]
         /\ \A j \in SessionIds : smsSession'[j].status = smsSession[j].status
<1>1. i \in SessionIds /\ smsSession \in [SessionIds -> SessionRow]
  BY CountBound DEF SmsInv, SmsTypeOK
<1>2. smsSession'[i] = [smsSession[i] EXCEPT !.code = code]
  BY <1>1
<1>3. smsSession'[i] \in SessionRow
  BY <1>1, <1>2 DEF SessionRow
<1>4. smsSession' \in [SessionIds -> SessionRow]
  BY <1>1, <1>3
<1>5. /\ smsSession'[i].made = smsSession[i].made
      /\ smsSession'[i].cooldown = smsSession[i].cooldown
      /\ smsSession'[i].attempts = smsSession[i].attempts
      /\ smsSession'[i].seen = smsSession[i].seen
      /\ smsSession'[i].status = smsSession[i].status
  BY <1>1, <1>2 DEF SessionRow
<1>6. \A j \in SessionIds : j # i => smsSession'[j] = smsSession[j]
  BY <1>1
<1> QED  BY <1>1, <1>4, <1>5, <1>6 DEF Frame, SmsInv, SmsTypeOK

(* How a request's own entry changes.                                      *)
LEMMA GotoCall ==
  ASSUME SmsInv, NEW r \in SmsRequests, NEW pc \in SmsPc, SmsGoto(r, pc)
  PROVE  /\ smsCall' \in [SmsRequests -> SmsCall]
         /\ smsCall'[r].pc = pc
         /\ smsCall'[r].session = smsCall[r].session
         /\ \A q \in SmsRequests \ {r} : smsCall'[q] = smsCall[q]
<1>1. smsCall[r] \in SmsCall /\ smsCall \in [SmsRequests -> SmsCall]
  BY DEF SmsInv, SmsTypeOK
<1>2. smsCall'[r] = [smsCall[r] EXCEPT !.pc = pc]
  BY <1>1 DEF SmsGoto
<1>3. smsCall'[r] \in SmsCall /\ smsCall'[r].pc = pc
      /\ smsCall'[r].session = smsCall[r].session
  BY <1>1, <1>2 DEF SmsCall
<1>4. \A q \in SmsRequests \ {r} : smsCall'[q] = smsCall[q]
  BY <1>1 DEF SmsGoto
<1>5. smsCall' \in [SmsRequests -> SmsCall]
  BY <1>1, <1>3, <1>4 DEF SmsGoto
<1> QED  BY <1>3, <1>4, <1>5

LEMMA ReturnCall ==
  ASSUME SmsInv, NEW r \in SmsRequests, SmsReturn(r)
  PROVE  /\ smsCall' \in [SmsRequests -> SmsCall]
         /\ smsCall'[r].pc = "idle"
         /\ \A q \in SmsRequests \ {r} : smsCall'[q] = smsCall[q]
         /\ SmsCallIsSound(r)'
<1>1. smsCall' \in [SmsRequests -> SmsCall] /\ smsCall'[r] = SmsIdle
  BY SmsIdleIsCall DEF SmsInv, SmsTypeOK, SmsReturn
<1>2. \A q \in SmsRequests \ {r} : smsCall'[q] = smsCall[q]
  BY DEF SmsInv, SmsTypeOK, SmsReturn
<1>3. smsCall'[r].pc = "idle"
  BY <1>1 DEF SmsIdle
<1> QED  BY <1>1, <1>2, <1>3 DEF SmsCallIsSound, HoldingPc

(* A request for a code runs on only when no signature rests on its end.   *)
LEMMA BusyUnmarksNobody ==
  ASSUME SmsInv, NEW r \in SmsRequests, Requesting(r), UNCHANGED <<smsSignature, smsOverlapped>>
  PROVE  NobodyUnmarks'
BY DEF SmsInv, NobodyUnmarks

(* A step that starts no request for a code and leaves the marks.          *)
LEMMA MarksStay ==
  ASSUME SmsInv, UNCHANGED <<smsSigner, smsSession, smsSignature, smsOverlapped>>,
         \A q \in SmsRequests : Requesting(q)' => Requesting(q)
  PROVE  NobodyUnmarks' /\ NeverRefused'
BY DEF SmsInv, NobodyUnmarks, NeverRefused

LEMMA Conclude ==
  ASSUME SmsInv, Frame, SmsTypeOK', NEW r \in SmsRequests,
         \A q \in SmsRequests \ {r} : smsCall'[q] = smsCall[q],
         SmsCallIsSound(r)', NobodyUnmarks', NeverRefused'
  PROVE  SmsInv'
<1>1. RowsAreSound' /\ MadeInOrder' /\ CodesKeepTheCooldown'
  BY FrameKeepsRows
<1>2. SmsCallsAreSound'
  BY FrameKeepsCalls
<1> QED  BY <1>1, <1>2 DEF SmsInv

-----------------------------------------------------------------------------
LEMMA RequestKeeps ==
  ASSUME SmsInv, NEW r \in SmsRequests, RequestCode(r)
  PROVE  SmsInv'
<1>1. /\ UNCHANGED <<smsNow, smsSigner, smsSession, smsCount, smsSignature, smsWrong,
                     smsOverlapped>>
      /\ smsSignature = 0
  BY DEF RequestCode, MayRequestCode
<1> DEFINE call == [SmsIdle EXCEPT !.pc = "cooldown"]
<1>2. call \in SmsCall /\ call.pc = "cooldown"
  BY DEF SmsIdle, SmsCall, SmsPc
<1>3. /\ smsCall' \in [SmsRequests -> SmsCall]
      /\ smsCall'[r].pc = "cooldown"
      /\ \A q \in SmsRequests \ {r} : smsCall'[q] = smsCall[q]
  <2>1. smsCall' = [smsCall EXCEPT ![r] = call]
    BY DEF RequestCode
  <2> HIDE DEF call
  <2> QED  BY <1>2, <2>1 DEF SmsInv, SmsTypeOK
<1>4. Frame
  BY <1>1, StillFrame
<1>5. SmsTypeOK'
  BY <1>1, <1>3 DEF SmsInv, SmsTypeOK
<1>6. SmsCallIsSound(r)'
  BY <1>3 DEF SmsCallIsSound, HoldingPc
<1>7. NobodyUnmarks' /\ NeverRefused'
  BY <1>1 DEF NobodyUnmarks, NeverRefused, SmsInv
<1> QED  BY <1>3, <1>4, <1>5, <1>6, <1>7, Conclude

LEMMA CooldownKeeps ==
  ASSUME SmsInv, NEW r \in SmsRequests, CheckCooldown(r)
  PROVE  SmsInv'
<1>1. /\ UNCHANGED <<smsNow, smsSigner, smsSession, smsCount, smsSignature, smsWrong,
                     smsOverlapped>>
      /\ Requesting(r)
  BY DEF CheckCooldown, SmsAt, Requesting
<1>2. Frame
  BY <1>1, StillFrame
<1>3. NobodyUnmarks' /\ NeverRefused'
  BY <1>1, BusyUnmarksNobody DEF NeverRefused, SmsInv
<1>4. CASE SmsReturn(r)
  <2>1. SmsTypeOK'
    BY <1>1, <1>4, ReturnCall DEF SmsInv, SmsTypeOK
  <2> QED  BY <1>2, <1>3, <1>4, <2>1, ReturnCall, Conclude
<1>5. CASE /\ ActiveSessions = {} \/ ~IsInCooldown(smsSession[NewestActive])
           /\ smsCall' = [smsCall EXCEPT ![r].pc = "insert", ![r].seen = ActiveSessions]
  <2>1. ActiveSessions \subseteq Opened
    BY DEF ActiveSessions, SmsInactive, SmsInv, RowsAreSound, RowIsSound
  <2>2. CooledDown(ActiveSessions)
    BY <1>5, NewestCoolsAll DEF SmsInv, CooledDown
  <2>3. smsCall[r] \in SmsCall /\ smsCall \in [SmsRequests -> SmsCall]
        /\ ActiveSessions \subseteq SessionIds
    BY DEF SmsInv, SmsTypeOK, ActiveSessions
  <2> DEFINE call == [smsCall[r] EXCEPT !.pc = "insert", !.seen = ActiveSessions]
  <2>4. call \in SmsCall /\ call.pc = "insert" /\ call.seen = ActiveSessions
    BY <2>3 DEF SmsCall, SmsPc
  <2>5. smsCall' = [smsCall EXCEPT ![r] = call]
    BY <1>5, <2>3 DEF SmsCall
  <2> HIDE DEF call
  <2>6. /\ smsCall' \in [SmsRequests -> SmsCall]
        /\ smsCall'[r] = call
        /\ \A q \in SmsRequests \ {r} : smsCall'[q] = smsCall[q]
    BY <2>3, <2>4, <2>5
  <2>7. CooledDown(ActiveSessions)'
    BY <1>1, <2>2 DEF CooledDown, ActiveSessions
  <2>8. ActiveSessions' = ActiveSessions /\ Opened' = Opened
    BY <1>1 DEF ActiveSessions, Opened
  <2>9. SmsCallIsSound(r)'
    BY <1>1, <2>1, <2>2, <2>4, <2>6, <2>8 DEF SmsCallIsSound, HoldingPc, CooledDown
  <2>10. SmsTypeOK'
    BY <1>1, <2>6 DEF SmsInv, SmsTypeOK
  <2> QED  BY <1>2, <1>3, <2>6, <2>9, <2>10, Conclude
<1> QED  BY <1>4, <1>5 DEF CheckCooldown

(* The one step that makes a session.                                      *)
LEMMA CreateKeeps ==
  ASSUME SmsInv, NEW r \in SmsRequests, CreateSession(r)
  PROVE  SmsInv'
<1> DEFINE n == smsCount + 1
           row == [status |-> "created", code |-> NoCode, made |-> smsNow,
                   expires |-> smsNow + OtpTtl, cooldown |-> smsNow + Cooldown,
                   attempts |-> 0, seen |-> smsCall[r].seen]
<1>1. /\ smsCount' = n
      /\ smsSession' = [smsSession EXCEPT ![n] = row]
      /\ smsCall' = [smsCall EXCEPT ![r].pc = "set_code", ![r].session = n, ![r].seen = {}]
      /\ smsWrong' = 0
      /\ UNCHANGED <<smsNow, smsSigner, smsSignature, smsOverlapped>>
      /\ smsCount < MaxSessions
      /\ smsCall[r].pc = "insert"
  BY DEF CreateSession, SmsAt
<1>2. /\ smsCall[r] \in SmsCall /\ smsCall \in [SmsRequests -> SmsCall]
      /\ smsSession \in [SessionIds -> SessionRow]
      /\ smsCount \in Nat /\ smsNow \in 0 .. MaxNow
      /\ Opened \subseteq SessionIds /\ SessionIds \subseteq Nat
  BY CountBound DEF SmsInv, SmsTypeOK
<1>3. /\ n \in Nat /\ n \in SessionIds /\ n \notin Opened /\ n \in 0 .. MaxSessions
      /\ Opened' = Opened \cup {n}
      /\ \A i \in Opened : i < n
  BY <1>1, <1>2, SmsAssumption DEF Opened, SessionIds
<1>4. smsCall[r].seen \subseteq Opened /\ CooledDown(smsCall[r].seen)
  BY <1>1 DEF SmsInv, SmsCallsAreSound, SmsCallIsSound
<1>5. row \in SessionRow
  <2>1. smsCall[r].seen \in SUBSET SessionIds
    BY <1>2 DEF SmsCall
  <2>2. smsNow + OtpTtl \in Nat /\ smsNow + Cooldown \in Nat
    BY <1>2, SmsAssumption
  <2> QED  BY <1>2, <2>1, <2>2 DEF SessionRow, SessionStatus
<1>6. /\ row.status = "created" /\ row.made = smsNow /\ row.cooldown = smsNow + Cooldown
      /\ row.attempts = 0 /\ row.seen = smsCall[r].seen
  OBVIOUS
<1> HIDE DEF row
<1>7. /\ smsSession' \in [SessionIds -> SessionRow]
      /\ smsSession'[n] = row
      /\ \A i \in SessionIds \ {n} : smsSession'[i] = smsSession[i]
  BY <1>1, <1>2, <1>3, <1>5
<1> DEFINE call == [smsCall[r] EXCEPT !.pc = "set_code", !.session = n, !.seen = {}]
<1>8. call \in SmsCall /\ call.pc = "set_code" /\ call.session = n
  BY <1>2, <1>3 DEF SmsCall, SmsPc
<1>9. smsCall' = [smsCall EXCEPT ![r] = call]
  BY <1>1, <1>2 DEF SmsCall
<1> HIDE DEF call, n
<1>10. /\ smsCall' \in [SmsRequests -> SmsCall]
       /\ smsCall'[r] = call
       /\ \A q \in SmsRequests \ {r} : smsCall'[q] = smsCall[q]
  BY <1>2, <1>8, <1>9
<1>11. SmsTypeOK'
  BY <1>1, <1>3, <1>7, <1>10 DEF SmsInv, SmsTypeOK
<1>12. RowsAreSound'
  <2> SUFFICES ASSUME NEW i \in SessionIds PROVE RowIsSound(i)'
    BY DEF RowsAreSound
  <2>1. CASE i = n
    BY <1>1, <1>2, <1>3, <1>4, <1>6, <1>7, <2>1 DEF RowIsSound
  <2>2. CASE i # n
    <3>1. RowIsSound(i) /\ smsSession'[i] = smsSession[i]
      BY <1>7, <2>2 DEF SmsInv, RowsAreSound
    <3> QED  BY <1>1, <1>3, <2>2, <3>1 DEF RowIsSound
  <2> QED  BY <2>1, <2>2
<1>13. \A i \in Opened : i \in SessionIds \ {n} /\ smsSession[i].made <= smsNow
  BY <1>2, <1>3 DEF SmsInv, RowsAreSound, RowIsSound
<1>14. MadeInOrder'
  <2> SUFFICES ASSUME NEW i \in Opened', NEW j \in Opened', i <= j
               PROVE  smsSession'[i].made <= smsSession'[j].made
    BY DEF MadeInOrder
  <2>1. CASE j = n
    <3>1. smsSession'[j].made = smsNow
      BY <1>6, <1>7, <2>1
    <3>2. CASE i = n
      BY <1>2, <2>1, <3>1, <3>2
    <3>3. CASE i # n
      <4>1. smsSession'[i].made = smsSession[i].made /\ smsSession[i].made <= smsNow
        BY <1>3, <1>7, <1>13, <3>3
      <4> QED  BY <3>1, <4>1
    <3> QED  BY <3>2, <3>3
  <2>2. CASE j # n
    <3>1. j \in Opened /\ i \in Opened
      BY <1>2, <1>3, <2>2
    <3> QED  BY <1>7, <1>13, <3>1 DEF SmsInv, MadeInOrder
  <2> QED  BY <2>1, <2>2
<1>15. CodesKeepTheCooldown'
  <2> SUFFICES ASSUME NEW j \in SessionIds, NEW i \in smsSession'[j].seen
               PROVE  smsSession'[j].made >= smsSession'[i].made + Cooldown
    BY DEF CodesKeepTheCooldown
  <2>1. CASE j = n
    <3>1. i \in smsCall[r].seen /\ i \in Opened
      BY <1>4, <1>6, <1>7, <2>1
    <3>2. smsSession'[i].made + Cooldown <= smsNow
      BY <1>4, <1>7, <1>13, <3>1 DEF CooledDown
    <3> QED  BY <1>2, <1>6, <1>7, <1>13, <2>1, <3>1, <3>2, SmsAssumption DEF SessionRow
  <2>2. CASE j # n
    <3>1. i \in smsSession[j].seen /\ i \in Opened
      BY <1>7, <2>2 DEF SmsInv, RowsAreSound, RowIsSound
    <3>2. smsSession[j].made >= smsSession[i].made + Cooldown
      BY <3>1 DEF SmsInv, CodesKeepTheCooldown
    <3> QED  BY <1>7, <1>13, <2>2, <3>1, <3>2
  <2> QED  BY <2>1, <2>2
<1>16. SmsCallsAreSound'
  <2> SUFFICES ASSUME NEW q \in SmsRequests PROVE SmsCallIsSound(q)'
    BY DEF SmsCallsAreSound
  <2>1. CASE q = r
    BY <1>3, <1>8, <1>10, <2>1 DEF SmsCallIsSound
  <2>2. CASE q # r
    <3>1. SmsCallIsSound(q) /\ smsCall'[q] = smsCall[q]
      BY <1>10, <2>2 DEF SmsInv, SmsCallsAreSound
    <3>2. ASSUME smsCall[q].pc = "insert", NEW i \in smsCall[q].seen
          PROVE  smsSession'[i].made + Cooldown <= smsNow'
      BY <1>1, <1>7, <1>13, <3>1, <3>2 DEF SmsCallIsSound, CooledDown
    <3> QED  BY <1>3, <3>1, <3>2 DEF SmsCallIsSound, CooledDown
  <2> QED  BY <2>1, <2>2
<1>17. NobodyUnmarks' /\ NeverRefused'
  BY <1>1, BusyUnmarksNobody DEF NeverRefused, SmsInv, Requesting
<1> QED  BY <1>11, <1>12, <1>14, <1>15, <1>16, <1>17 DEF SmsInv

LEMMA SetCodeKeeps ==
  ASSUME SmsInv, NEW r \in SmsRequests, SetCode(r)
  PROVE  SmsInv'
<1>1. /\ UNCHANGED <<smsNow, smsSigner, smsCount, smsSignature, smsWrong, smsOverlapped>>
      /\ smsCall[r].pc = "set_code"
      /\ Requesting(r)
      /\ SmsGoto(r, "gateway")
  BY DEF SetCode, SmsAt, Requesting
<1>2. smsCall[r].session \in Opened
  BY <1>1 DEF SmsInv, SmsCallsAreSound, SmsCallIsSound, HoldingPc
<1>3. PICK c \in Codes : smsSession' = [smsSession EXCEPT ![smsCall[r].session].code = c]
  BY DEF SetCode
<1>4. Frame /\ smsSession' \in [SessionIds -> SessionRow]
  BY <1>1, <1>2, <1>3, CodeFrame
<1>5. /\ smsCall' \in [SmsRequests -> SmsCall]
      /\ smsCall'[r].pc = "gateway"
      /\ smsCall'[r].session = smsCall[r].session
      /\ \A q \in SmsRequests \ {r} : smsCall'[q] = smsCall[q]
  BY <1>1, GotoCall DEF SmsPc
<1>6. SmsTypeOK'
  BY <1>1, <1>4, <1>5 DEF SmsInv, SmsTypeOK
<1>7. SmsCallIsSound(r)'
  BY <1>1, <1>2, <1>5 DEF SmsCallIsSound, Opened
<1>8. NobodyUnmarks' /\ NeverRefused'
  BY <1>1, BusyUnmarksNobody DEF NeverRefused, SmsInv
<1> QED  BY <1>4, <1>5, <1>6, <1>7, <1>8, Conclude

LEMMA MarkSessionKeeps ==
  ASSUME SmsInv, NEW r \in SmsRequests, MarkSession(r)
  PROVE  SmsInv'
<1>1. /\ UNCHANGED <<smsNow, smsSigner, smsCount, smsSignature, smsWrong, smsOverlapped>>
      /\ smsCall[r].pc \in {"gateway", "sent"}
      /\ Requesting(r)
  BY DEF MarkSession, SmsAt, Requesting
<1>2. smsCall[r].session \in Opened
  BY <1>1 DEF SmsInv, SmsCallsAreSound, SmsCallIsSound, HoldingPc
<1>3. PICK status \in {"code_sent", "failed"}, pc \in {"sent", "unsent"} :
        /\ smsSession' = [smsSession EXCEPT ![smsCall[r].session].status = status]
        /\ SmsGoto(r, pc)
  BY DEF MarkSession
<1>4. Frame /\ smsSession' \in [SessionIds -> SessionRow]
  BY <1>1, <1>2, <1>3, StatusFrame DEF SessionStatus
<1>5. /\ smsCall' \in [SmsRequests -> SmsCall]
      /\ smsCall'[r].pc = pc
      /\ smsCall'[r].session = smsCall[r].session
      /\ \A q \in SmsRequests \ {r} : smsCall'[q] = smsCall[q]
  BY <1>3, GotoCall DEF SmsPc
<1>6. SmsTypeOK'
  BY <1>1, <1>4, <1>5 DEF SmsInv, SmsTypeOK
<1>7. SmsCallIsSound(r)'
  BY <1>1, <1>2, <1>5 DEF SmsCallIsSound, Opened
<1>8. NobodyUnmarks' /\ NeverRefused'
  BY <1>1, BusyUnmarksNobody DEF NeverRefused, SmsInv
<1> QED  BY <1>4, <1>5, <1>6, <1>7, <1>8, Conclude

LEMMA MarkSignerKeeps ==
  ASSUME SmsInv, NEW r \in SmsRequests, MarkSigner(r)
  PROVE  SmsInv'
<1>1. /\ UNCHANGED <<smsNow, smsSession, smsCount, smsSignature, smsWrong, smsOverlapped>>
      /\ smsSigner' \in {"sms_sent", "failed"}
      /\ Requesting(r)
      /\ SmsReturn(r)
  BY DEF MarkSigner, SmsAt, Requesting, StatusSent
<1>2. Frame
  BY <1>1, StillFrame
<1>3. smsSigner' \in SmsSignerStatus
  BY <1>1 DEF SmsSignerStatus
<1>4. SmsTypeOK'
  BY <1>1, <1>3, ReturnCall DEF SmsInv, SmsTypeOK
<1>5. NobodyUnmarks' /\ NeverRefused'
  BY <1>1, BusyUnmarksNobody DEF NeverRefused
<1> QED  BY <1>1, <1>2, <1>4, <1>5, ReturnCall, Conclude

LEMMA EnterKeeps ==
  ASSUME SmsInv, NEW r \in SmsRequests, EnterCode(r)
  PROVE  SmsInv'
<1>1. /\ UNCHANGED <<smsNow, smsSigner, smsSession, smsCount, smsSignature, smsWrong,
                     smsOverlapped>>
      /\ smsCall[r] = SmsIdle
      /\ ActiveSessions # {}
  BY DEF EnterCode
<1>2. NewestActive \in Opened /\ NewestActive \in SessionIds
  BY <1>1, NewestIsNewest
  DEF SmsInv, ActiveSessions, SmsInactive, RowsAreSound, RowIsSound
<1> DEFINE call == [SmsIdle EXCEPT !.pc = "enter", !.session = NewestActive]
<1>3. call \in SmsCall /\ call.pc = "enter" /\ call.session = NewestActive
  BY <1>2 DEF SmsIdle, SmsCall, SmsPc
<1>4. smsCall' = [smsCall EXCEPT ![r] = call]
  BY DEF EnterCode
<1> HIDE DEF call
<1>5. /\ smsCall' \in [SmsRequests -> SmsCall]
      /\ smsCall'[r] = call
      /\ \A q \in SmsRequests \ {r} : smsCall'[q] = smsCall[q]
  BY <1>3, <1>4 DEF SmsInv, SmsTypeOK
<1>6. Frame
  BY <1>1, StillFrame
<1>7. SmsTypeOK'
  BY <1>1, <1>5 DEF SmsInv, SmsTypeOK
<1>8. SmsCallIsSound(r)'
  BY <1>1, <1>2, <1>3, <1>5 DEF SmsCallIsSound, Opened
<1>9. NobodyUnmarks' /\ NeverRefused'
  BY <1>1, <1>3, <1>5, MarksStay DEF Requesting
<1> QED  BY <1>5, <1>6, <1>7, <1>8, <1>9, Conclude

LEMMA SmsCompleteKeeps ==
  ASSUME SmsInv, NEW r \in SmsRequests, CompleteSession(r)
  PROVE  SmsInv'
<1> DEFINE i == smsCall[r].session
<1>1. /\ UNCHANGED <<smsNow, smsCount>>
      /\ SmsReturn(r)
      /\ smsCall[r].pc = "enter"
  BY DEF CompleteSession, SmsAt
<1>2. i \in Opened /\ i \in SessionIds
  BY <1>1, CountBound DEF SmsInv, SmsCallsAreSound, SmsCallIsSound, HoldingPc
<1>3. \A q \in SmsRequests : Requesting(q)' => Requesting(q)
  BY <1>1, ReturnCall DEF Requesting
<1>4. CASE UNCHANGED <<smsSigner, smsSession, smsSignature, smsWrong, smsOverlapped>>
  <2>1. Frame
    BY <1>1, <1>4, StillFrame
  <2>2. SmsTypeOK'
    BY <1>1, <1>4, ReturnCall DEF SmsInv, SmsTypeOK
  <2>3. NobodyUnmarks' /\ NeverRefused'
    BY <1>3, <1>4, MarksStay
  <2> QED  BY <1>1, <2>1, <2>2, <2>3, ReturnCall, Conclude
<1>5. CASE /\ smsSignature' = i
           /\ smsSession' = [smsSession EXCEPT ![i].status = "signed"]
           /\ smsSigner' = "signed"
           /\ smsOverlapped' = \E q \in SmsRequests : Requesting(q)
           /\ UNCHANGED smsWrong
  <2>1. Frame /\ smsSession' \in [SessionIds -> SessionRow]
    BY <1>1, <1>2, <1>5, StatusFrame DEF SessionStatus
  <2>2. smsSigner' \in SmsSignerStatus /\ smsSignature' \in {0} \cup SessionIds
    BY <1>2, <1>5 DEF SmsSignerStatus
  <2>3. smsOverlapped' \in BOOLEAN
    BY <1>5
  <2>4. SmsTypeOK'
    BY <1>1, <1>5, <2>1, <2>2, <2>3, ReturnCall DEF SmsInv, SmsTypeOK
  <2>5. smsSession'[i].status = "signed"
    BY <1>2, <1>5 DEF SmsInv, SmsTypeOK, SessionRow
  <2>6. ~smsOverlapped' => \A q \in SmsRequests : ~Requesting(q)'
    BY <1>3, <1>5
  <2>7. NobodyUnmarks' /\ NeverRefused'
    BY <1>5, <2>5, <2>6 DEF NobodyUnmarks, NeverRefused
  <2> QED  BY <1>1, <2>1, <2>4, <2>7, ReturnCall, Conclude
<1>6. CASE /\ \E typed \in Codes :
                LET verdict == Verdict(smsSession[i], typed) IN
                /\ smsSession' = [smsSession EXCEPT ![i] =
                                    LeftByRaise(smsSession[i], RowAfter(smsSession[i], verdict))]
                /\ smsSigner' = LeftByRaise(smsSigner, SignerAfter(verdict))
           /\ smsWrong' \in {smsWrong, smsWrong + 1}
           /\ UNCHANGED <<smsSignature, smsOverlapped>>
  <2>1. UNCHANGED <<smsSigner, smsSession, smsSignature, smsOverlapped>>
    BY <1>2, <1>6 DEF LeftByRaise, SmsInv, SmsTypeOK
  <2>2. Frame
    BY <1>1, <2>1, StillFrame
  <2>3. smsWrong' \in Nat
    BY <1>6 DEF SmsInv, SmsTypeOK
  <2>4. SmsTypeOK'
    BY <1>1, <2>1, <2>3, ReturnCall DEF SmsInv, SmsTypeOK
  <2>5. NobodyUnmarks' /\ NeverRefused'
    BY <1>3, <2>1, MarksStay
  <2> QED  BY <1>1, <2>2, <2>4, <2>5, ReturnCall, Conclude
<1> QED  BY <1>4, <1>5, <1>6 DEF CompleteSession

LEMMA CrashKeeps ==
  ASSUME SmsInv, NEW r \in SmsRequests, SmsCrash(r)
  PROVE  SmsInv'
<1>1. /\ UNCHANGED <<smsNow, smsSigner, smsSession, smsCount, smsSignature, smsWrong,
                     smsOverlapped>>
      /\ SmsReturn(r)
  BY DEF SmsCrash
<1>2. Frame
  BY <1>1, StillFrame
<1>3. SmsTypeOK'
  BY <1>1, ReturnCall DEF SmsInv, SmsTypeOK
<1>4. NobodyUnmarks' /\ NeverRefused'
  BY <1>1, ReturnCall, MarksStay DEF Requesting
<1> QED  BY <1>1, <1>2, <1>3, <1>4, ReturnCall, Conclude

(* Steps of no request: the clock, or nothing.                             *)
LEMMA TimeKeeps ==
  ASSUME SmsInv, smsNow' \in 0 .. MaxNow, smsNow <= smsNow',
         UNCHANGED <<smsSigner, smsSession, smsCount, smsSignature, smsCall, smsWrong,
                     smsOverlapped>>
  PROVE  SmsInv'
<1>1. smsNow \in Nat /\ smsNow' \in Nat
  BY SmsAssumption DEF SmsInv, SmsTypeOK
<1>2. Frame
  BY <1>1 DEF Frame
<1>3. RowsAreSound' /\ MadeInOrder' /\ CodesKeepTheCooldown'
  BY <1>2, FrameKeepsRows
<1>4. SmsTypeOK'
  BY DEF SmsInv, SmsTypeOK
<1>5. SmsCallsAreSound'
  <2> SUFFICES ASSUME NEW q \in SmsRequests PROVE SmsCallIsSound(q)'
    BY DEF SmsCallsAreSound
  <2>1. SmsCallIsSound(q) /\ Opened' = Opened /\ Opened \subseteq SessionIds
    BY CountBound DEF SmsInv, SmsCallsAreSound, Opened
  <2>2. \A i \in Opened : smsSession[i].made \in Nat
    BY <2>1 DEF SmsInv, SmsTypeOK, SessionRow
  <2> QED  BY <1>1, <2>1, <2>2, SmsAssumption DEF SmsCallIsSound, CooledDown
<1>6. NobodyUnmarks' /\ NeverRefused'
  BY MarksStay DEF Requesting
<1> QED  BY <1>3, <1>4, <1>5, <1>6 DEF SmsInv

-----------------------------------------------------------------------------
LEMMA SmsStepHolds ==
  ASSUME SmsInv, [SmsNext]_smsVars
  PROVE  SmsInv'
<1>1. CASE UNCHANGED smsVars \/ SmsTick
  <2>1. smsNow \in 0 .. MaxNow /\ MaxNow \in Nat
    BY SmsAssumption DEF SmsInv, SmsTypeOK
  <2>2. smsNow' \in 0 .. MaxNow /\ smsNow <= smsNow'
    BY <1>1, <2>1 DEF smsVars, SmsTick
  <2> QED  BY <1>1, <2>2, TimeKeeps DEF smsVars, SmsTick
<1>2. ASSUME NEW r \in SmsRequests, RequestCode(r) PROVE SmsInv'
  BY <1>2, RequestKeeps
<1>3. ASSUME NEW r \in SmsRequests, CheckCooldown(r) PROVE SmsInv'
  BY <1>3, CooldownKeeps
<1>4. ASSUME NEW r \in SmsRequests, CreateSession(r) PROVE SmsInv'
  BY <1>4, CreateKeeps
<1>5. ASSUME NEW r \in SmsRequests, SetCode(r) PROVE SmsInv'
  BY <1>5, SetCodeKeeps
<1>6. ASSUME NEW r \in SmsRequests, MarkSession(r) PROVE SmsInv'
  BY <1>6, MarkSessionKeeps
<1>7. ASSUME NEW r \in SmsRequests, MarkSigner(r) PROVE SmsInv'
  BY <1>7, MarkSignerKeeps
<1>8. ASSUME NEW r \in SmsRequests, EnterCode(r) PROVE SmsInv'
  BY <1>8, EnterKeeps
<1>9. ASSUME NEW r \in SmsRequests, CompleteSession(r) PROVE SmsInv'
  BY <1>9, SmsCompleteKeeps
<1>10. ASSUME NEW r \in SmsRequests, SmsCrash(r) PROVE SmsInv'
  BY <1>10, CrashKeeps
<1> QED
  BY <1>1, <1>2, <1>3, <1>4, <1>5, <1>6, <1>7, <1>8, <1>9, <1>10 DEF SmsNext

(* SmsInv is inductive.                                                    *)
THEOREM SmsInvariant == SmsSpec => []SmsInv
<1>1. SmsInv /\ [SmsNext]_smsVars => SmsInv'
  BY SmsStepHolds
<1> QED  BY <1>1, SmsInitHolds, PTL DEF SmsSpec

(* The signer, the sessions and the requests stay well formed.             *)
THEOREM SmsTypeCorrect == SmsSpec => []SmsTypeOK
<1>1. SmsInv => SmsTypeOK
  BY DEF SmsInv
<1> QED  BY <1>1, SmsInvariant, PTL

(* A code is created a full cooldown after every session that was active   *)
(* when it was allowed (sms_signing_service.py:77-113).                    *)
THEOREM CodesAreSpaced == SmsSpec => []CodesKeepTheCooldown
<1>1. SmsInv => CodesKeepTheCooldown
  BY DEF SmsInv
<1> QED  BY <1>1, SmsInvariant, PTL

(* Only a code that was already being requested can take the mark of a     *)
(* signature back (sms_signing_service.py:173-203).                        *)
THEOREM SignaturesStayMarked == SmsSpec => []SignatureIsMarked
<1>1. SmsInv => SignatureIsMarked
  BY DEF SmsInv, NobodyUnmarks, SignatureIsMarked
<1> QED  BY <1>1, SmsInvariant, PTL

(* A signer without a signature may always ask for another code            *)
(* (sms_signing_service.py:205-288).                                       *)
THEOREM NobodyIsLockedOut == SmsSpec => []NoSignerIsLockedOut
<1>1. SmsInv => NoSignerIsLockedOut
  BY DEF SmsInv, NeverRefused, RowsAreSound, RowIsSound, NoSignerIsLockedOut
<1> QED  BY <1>1, SmsInvariant, PTL
=============================================================================
