\* Each service around a document by itself: what overlaps, breaks off or is lost in it.
CONSTANTS
  r1 = r1
  r2 = r2
  r3 = r3
  a1 = a1
  a2 = a2
  None = None
  Requests <- TwoRequests
  Events <- Pair
  MaxEntries = 4
  MaxAppends = 2
  SmsRequests <- TwoRequests
  Codes <- Pair
  NoCode = None
  Cooldown = 1
  OtpTtl = 1
  MaxAttempts = 1
  MaxNow = 2
  MaxSessions = 3
  LdgRequests <- ThreeRequests
  LdgSigners = 3
  MaxPdfs = 3
  LvRequests <- TwoRequests
  LvContents = 2
  RetryDelays = 2
  EvRequests <- TwoRequests
  EvSigners <- Pair
  EvContents = 2
  AdRequests <- TwoRequests
  NoAdRequest = None
  MaxVersion = 1
  TpRequests <- TwoRequests
  FileNames = {"t"}
  SchemaNames = {"s"}
  SystemNames = {"y"}
  OwnNames = {"o"}
  WordsOf <- WordsOfOwn
  MaxFiles = 3
  Certs <- ThreeCerts
  TrustedSets <- RootAndIntermediate
  MaxDepth = 2
  DtRequests <- TwoRequests
  Applicants = 2
  Amounts = 1
  MaxChanges = 3
  MwAmounts <- MCAmounts
  Scales = 2
SPECIFICATION ServicesSpec
SYMMETRY Symmetry
CHECK_DEADLOCK FALSE
INVARIANTS
  ServicesTypeOK
  LoneAppendsFollow
  CodesKeepTheCooldown
  SignatureIsMarked
  NoSignerIsLockedOut
  SubmittedIsProven
  LedgeredOnceUnlessUnheard
  HashesTellContents
  LinkedContentIsStored
  BundleIsConsistent
  LoneRequestMirrors
  TemplateFileExists
  LoneRequestsAgree
  RenderedNamesHaveFields
  
  
  WordsSayTheAmount
PROPERTIES
  BrokenStaysBroken
  SuccessIsKept
  LoneDeletionSparesRector
  EditsAreKept
  KeepsThePromise
