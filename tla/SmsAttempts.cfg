\* One signer, a code, and somebody who types wrong ones.
CONSTANTS
  SmsRequests = {r1}
  Codes = {c1, c2}
  NoCode = None
  Cooldown = 1
  OtpTtl = 1
  MaxAttempts = 1
  MaxNow = 1
  MaxSessions = 1
SPECIFICATION SmsSpec
CHECK_DEADLOCK FALSE
INVARIANTS
  AttemptsAreLimited
