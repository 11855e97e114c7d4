------------------------------- MODULE SmsOtp -------------------------------
(***************************************************************************)
(* The one-time codes of one signer: SmsSigningService.create_session and  *)
(* complete_session, with the two views that call them.                    *)
(*                                                                         *)
(* create_session is a sequence of autocommitted statements around a call  *)
(* of the SMS gateway, so other requests run between any two of them.      *)
(* complete_session is one transaction that holds the session, signer and  *)
(* document rows from its first statement on: one action.  An exception    *)
(* raised in it undoes everything it wrote, the bookkeeping of verify_otp  *)
(* for a wrong or expired code included.                                   *)
(*                                                                         *)
(* Time is counted in units of the resend cooldown.  The document, its     *)
(* hash and the other providers are Signing's subject.                     *)
(***************************************************************************)
EXTENDS Naturals, FiniteSets

CONSTANTS
  SmsRequests,   \* slots for requests in flight at the same time
  Codes,         \* codes that generate_otp may return and a person may type
  NoCode,        \* code_hash is empty
  Cooldown,      \* COOLDOWN_SECONDS
  OtpTtl,        \* OTP_TTL_MINUTES
  MaxAttempts,   \* MAX_ATTEMPTS
  MaxNow,        \* bound on the clock
  MaxSessions    \* bound on the number of sessions

ASSUME SmsAssumption ==
  /\ NoCode \notin Codes
  /\ Cooldown \in Nat \ {0}
  /\ OtpTtl \in Nat /\ Cooldown <= OtpTtl
  /\ MaxAttempts \in Nat \ {0}
  /\ MaxNow \in Nat
  /\ MaxSessions \in Nat \ {0}

VARIABLES
  smsNow,        \* the clock
  smsSigner,     \* the signer's status
  smsSession,    \* the signing_session rows, by creation
  smsCount,      \* number of sessions created
  smsSignature,  \* the session the signature came from, 0 before
  smsCall,       \* what each request has read and where it stands
  smsWrong,      \* history: wrong codes typed for the newest session
  smsOverlapped  \* history: a code was being requested when the signature came

smsVars == <<smsNow, smsSigner, smsSession, smsCount, smsSignature, smsCall,
             smsWrong, smsOverlapped>>

SessionIds == 1 .. MaxSessions
SmsSignerStatus == {"pending", "sms_sent", "failed", "expired", "rejected", "signed"}
SessionStatus == {"none", "created", "code_sent", "signed", "failed", "expired"}
SmsInactive == {"none", "signed", "failed", "expired"}

(* seen is history: the sessions that were active when this one was allowed. *)
SessionRow == [status : SessionStatus, code : Codes \cup {NoCode},
               made : 0 .. MaxNow, expires : Nat, cooldown : Nat,
               attempts : Nat, seen : SUBSET SessionIds]

NoSession == [status |-> "none", code |-> NoCode, made |-> 0, expires |-> 0,
              cooldown |-> 0, attempts |-> 0, seen |-> {}]

SmsPc == {"idle", "cooldown", "insert", "set_code", "gateway", "sent", "unsent", "enter"}
SmsCall == [pc : SmsPc, session : {0} \cup SessionIds, seen : SUBSET SessionIds]
SmsIdle == [pc |-> "idle", session |-> 0, seen |-> {}]

SmsTypeOK ==
  /\ smsNow \in 0 .. MaxNow
  /\ smsSigner \in SmsSignerStatus
  /\ smsSession \in [SessionIds -> SessionRow]
  /\ smsCount \in 0 .. MaxSessions
  /\ smsSignature \in {0} \cup SessionIds
  /\ smsCall \in [SmsRequests -> SmsCall]
  /\ smsWrong \in Nat
  /\ smsOverlapped \in BOOLEAN

SmsInit ==
  /\ smsNow = 0
  /\ smsSigner = "pending"
  /\ smsSession = [i \in SessionIds |-> NoSession]
  /\ smsCount = 0
  /\ smsSignature = 0
  /\ smsCall = [r \in SmsRequests |-> SmsIdle]
  /\ smsWrong = 0
  /\ smsOverlapped = FALSE

-----------------------------------------------------------------------------
ActiveSessions == {i \in SessionIds : smsSession[i].status \notin SmsInactive}

(* Mutant: order_by("created_at"). *)
OldestActive == CHOOSE i \in ActiveSessions : \A j \in ActiveSessions : i <= j

(* order_by("-created_at").first() of the active sessions. *)
NewestActive == CHOOSE i \in ActiveSessions : \A j \in ActiveSessions : j <= i

IsExpired(row) == smsNow > row.expires
IsInCooldown(row) == smsNow < row.cooldown
AttemptsExceeded(row) == row.attempts >= MaxAttempts

(* Mutant: the checks of a signed signer and of an existing signature are lost. *)
NotRejected == smsSigner \notin {"rejected", "expired"}

(* start_sms_signing and create_session before they look at the sessions.  *)
MayRequestCode ==
  /\ smsSigner \notin {"signed", "rejected", "expired"}
  /\ smsSignature = 0

SmsAt(r, pc) == smsCall[r].pc = pc
SmsGoto(r, pc) == smsCall' = [smsCall EXCEPT ![r].pc = pc]
SmsReturn(r) == smsCall' = [smsCall EXCEPT ![r] = SmsIdle]

(* start_sms_signing: the consent is given and the signer may sign.        *)
RequestCode(r) ==
  /\ smsCall[r] = SmsIdle
  /\ MayRequestCode
  /\ smsCall' = [smsCall EXCEPT ![r] = [SmsIdle EXCEPT !.pc = "cooldown"]]
  /\ UNCHANGED <<smsNow, smsSigner, smsSession, smsCount, smsSignature, smsWrong,
                 smsOverlapped>>

(* The newest active session is asked for its cooldown.                    *)
CheckCooldown(r) ==
  /\ SmsAt(r, "cooldown")
  /\ IF ActiveSessions # {} /\ IsInCooldown(smsSession[NewestActive])
     THEN SmsReturn(r)
     ELSE smsCall' = [smsCall EXCEPT ![r].pc = "insert", ![r].seen = ActiveSessions]
  /\ UNCHANGED <<smsNow, smsSigner, smsSession, smsCount, smsSignature, smsWrong,
                 smsOverlapped>>

(* SigningSession.objects.create: the row has no code yet.                 *)
CreateSession(r) ==
  /\ SmsAt(r, "insert")
  /\ smsCount < MaxSessions
  /\ smsCount' = smsCount + 1
  /\ smsSession' = [smsSession EXCEPT ![smsCount + 1] =
                      [status |-> "created", code |-> NoCode, made |-> smsNow,
                       expires |-> smsNow + OtpTtl,
                       cooldown |-> smsNow + Cooldown, attempts |-> 0,
                       seen |-> smsCall[r].seen]]
  /\ smsCall' = [smsCall EXCEPT ![r].pc = "set_code", ![r].session = smsCount + 1,
                                ![r].seen = {}]
  /\ smsWrong' = 0
  /\ UNCHANGED <<smsNow, smsSigner, smsSignature, smsOverlapped>>

(* set_sms_code(save=True): only the hash is written.                      *)
SetCode(r) ==
  /\ SmsAt(r, "set_code")
  /\ \E c \in Codes : smsSession' = [smsSession EXCEPT ![smsCall[r].session].code = c]
  /\ SmsGoto(r, "gateway")
  /\ UNCHANGED <<smsNow, smsSigner, smsCount, smsSignature, smsWrong, smsOverlapped>>

(* The gateway's answer, a lost one counts as a failure although the       *)
(* message may have been delivered, and so does an exception after it: the *)
(* session's status is overwritten, whatever became of it during the call. *)
MarkSession(r) ==
  /\ \/ /\ SmsAt(r, "gateway")
        /\ smsSession' = [smsSession EXCEPT ![smsCall[r].session].status = "code_sent"]
        /\ SmsGoto(r, "sent")
     \/ /\ SmsAt(r, "gateway") \/ SmsAt(r, "sent")
        /\ smsSession' = [smsSession EXCEPT ![smsCall[r].session].status = "failed"]
        /\ SmsGoto(r, "unsent")
  /\ UNCHANGED <<smsNow, smsSigner, smsCount, smsSignature, smsWrong, smsOverlapped>>

(* Mutant: the session's CODE_SENT is saved as the signer's status. *)
SessionStatusSent == "code_sent"

StatusSent == "sms_sent"

(* So is the signer's status.                                              *)
MarkSigner(r) ==
  /\ \/ SmsAt(r, "sent") /\ smsSigner' = StatusSent
     \/ SmsAt(r, "unsent") /\ smsSigner' = "failed"
  /\ SmsReturn(r)
  /\ UNCHANGED <<smsNow, smsSession, smsCount, smsSignature, smsWrong, smsOverlapped>>

-----------------------------------------------------------------------------
(* complete_sms_signing picks the session before the transaction begins.   *)
EnterCode(r) ==
  /\ smsCall[r] = SmsIdle
  /\ ActiveSessions # {}
  /\ smsCall' = [smsCall EXCEPT ![r] = [SmsIdle EXCEPT !.pc = "enter",
                                          !.session = NewestActive]]
  /\ UNCHANGED <<smsNow, smsSigner, smsSession, smsCount, smsSignature, smsWrong,
                 smsOverlapped>>

(* verify_otp: what it finds, in the order of its checks.                  *)
Verdict(row, code) ==
  IF row.status = "signed" THEN "completed"
  ELSE IF IsExpired(row) THEN "expired"
  ELSE IF AttemptsExceeded(row) THEN "exceeded"
  ELSE IF row.code = NoCode THEN "no_code"
  ELSE IF row.code # code THEN "invalid"
  ELSE "confirmed"

(* verify_otp: the rows it has written when it raises.                     *)
RowAfter(row, verdict) ==
  CASE verdict = "expired" -> [row EXCEPT !.status = "expired"]
    [] verdict = "exceeded" -> [row EXCEPT !.status = "failed"]
    [] verdict = "invalid" -> [row EXCEPT !.attempts = @ + 1,
                                          !.cooldown = smsNow + Cooldown]
    [] OTHER -> row

SignerAfter(verdict) ==
  CASE verdict = "expired" -> "expired"
    [] verdict = "exceeded" -> "failed"
    [] OTHER -> smsSigner

(* Mutant: complete_session without transaction.atomic. *)
KeptByRaise(stored, written) == written

(* transaction.atomic: what an exception leaves of the rows written.       *)
LeftByRaise(stored, written) == stored

(* A request for a code that will still write the signer's status.         *)
Requesting(r) == smsCall[r].pc \notin {"idle", "enter"}

(* complete_session, all of it, with the code that was typed.              *)
CompleteSession(r) ==
  LET i == smsCall[r].session
      row == smsSession[i]
  IN
  /\ SmsAt(r, "enter")
  /\ \/ /\ smsSigner = "signed" \/ smsSignature # 0
        /\ UNCHANGED <<smsSigner, smsSession, smsSignature, smsWrong, smsOverlapped>>
     \/ /\ smsSigner # "signed" /\ smsSignature = 0
        /\ \E typed \in Codes : Verdict(row, typed) = "confirmed"
        /\ smsSignature' = i
        /\ smsSession' = [smsSession EXCEPT ![i].status = "signed"]
        /\ smsSigner' = "signed"
        /\ smsOverlapped' = \E q \in SmsRequests : Requesting(q)
        /\ UNCHANGED smsWrong
     \/ /\ smsSigner # "signed" /\ smsSignature = 0
        /\ \E typed \in Codes :
             LET verdict == Verdict(row, typed) IN
             /\ verdict # "confirmed"
             /\ smsSession' = [smsSession EXCEPT ![i] =
                                 LeftByRaise(row, RowAfter(row, verdict))]
             /\ smsSigner' = LeftByRaise(smsSigner, SignerAfter(verdict))
             /\ smsWrong' = IF verdict = "invalid" /\ i = smsCount
                               /\ smsWrong <= MaxAttempts
                            THEN smsWrong + 1 ELSE smsWrong
        /\ UNCHANGED <<smsSignature, smsOverlapped>>
  /\ SmsReturn(r)
  /\ UNCHANGED <<smsNow, smsCount>>

(* The web server dies: the request ends where it stands.                  *)
SmsCrash(r) ==
  /\ smsCall[r] # SmsIdle
  /\ SmsReturn(r)
  /\ UNCHANGED <<smsNow, smsSigner, smsSession, smsCount, smsSignature, smsWrong,
                 smsOverlapped>>

SmsTick ==
  /\ smsNow < MaxNow
  /\ smsNow' = smsNow + 1
  /\ UNCHANGED <<smsSigner, smsSession, smsCount, smsSignature, smsCall, smsWrong,
                 smsOverlapped>>

SmsNext ==
  \/ \E r \in SmsRequests :
       \/ RequestCode(r) \/ CheckCooldown(r) \/ CreateSession(r) \/ SetCode(r)
       \/ MarkSession(r) \/ MarkSigner(r)
       \/ EnterCode(r) \/ CompleteSession(r) \/ SmsCrash(r)
  \/ SmsTick

SmsSpec == SmsInit /\ [][SmsNext]_smsVars

-----------------------------------------------------------------------------
(* A new code is created a full cooldown after every session that was      *)
(* active when it was allowed, although create_session asks only the       *)
(* newest of them (sms_signing_service.py:77-113).  Two requests that      *)
(* overlap may both be allowed by the same sessions.                       *)
CodesKeepTheCooldown ==
  \A j \in SessionIds : \A i \in smsSession[j].seen :
    smsSession[j].made >= smsSession[i].made + Cooldown

(* Only a code that was already being requested can take the mark of a     *)
(* signature back from the signer or from its session: the saves after the *)
(* gateway's answer do not look (sms_signing_service.py:173-203).          *)
SignatureIsMarked ==
  smsSignature # 0 /\ ~smsOverlapped =>
    /\ smsSigner = "signed"
    /\ smsSession[smsSignature].status = "signed"

(* A signer without a signature may always ask for another code: an        *)
(* expired code does not leave the status EXPIRED, which can_sign refuses, *)
(* because complete_session raises after writing it.                       *)
NoSignerIsLockedOut ==
  smsSignature = 0 =>
    /\ smsSigner \notin {"expired", "rejected"}
    /\ \A i \in SessionIds : smsSession[i].attempts = 0

(* The newest session takes no more than max_attempts wrong codes: "Too    *)
(* many incorrect attempts." (sms_signing_service.py:280).  The counter is *)
(* rolled back with the exception that reports the wrong code.             *)
AttemptsAreLimited == smsWrong <= MaxAttempts
=============================================================================
