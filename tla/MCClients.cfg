SPECIFICATION ClientsSpec
CONSTANTS
  Mails <- MCMails
  OwnerOf <- MCOwner
  HomeOf <- MCHome
  Users <- MCUsers
  Folders <- MCFolders
  PageSize = 1
  MaxActs = 4
  MaxPending = 2
  StoredMails <- MCStored
  StoredKind <- MCKind
  InlineOf <- MCInline
  FilesOf <- MCFiles
  UploadIds = {"u1", "u2"}
  MaxImages = 2
  MaxFiles = 4
  MaxComposeActs = 4
  Limit = 2
  StreamRetryMax = 2
  LoadAttempts = 2
  MaxCreated = 2
  MaxSignIns = 2
  InitialTasks = 2
  RetryMax = 2
  MaxLogins = 3
  MaxRequests = 2
  MaxBrokerLogins = 3
  MaxCalls = 2
  Members = {"m1", "m2"}
  MaxSessions = 2
  MaxTaps = 3
  Providers = {"p1", "p2"}
  Keyless = {"p1"}
  InitialProvider = "p1"
  FirstProvider = "p2"
  MaxAiSessions = 2
  MaxAiSteps = 4
  Custodians = 2
  MaxChallenges = 3
  MaxHandlers = 2
  MaxWork = 1
  MaxGlass = 1
  MaxResets = 1
  MaxTokens = 1
  LastStep = 2
INVARIANTS
  ClientsTypeOK
  LoadedDetailIsSelected ListIsOfFolder BadgeIsTrue BulkBusyIsTrue SelectionIsShown
  UrlsAreOwned ReservedIsTrue
  OneStream GivesUpOnlyAfterFailures
  ScreenIsOfSession
  RejectedIsDropped
  GateIsHeld SpinnerIsTrue OneAtATime
  AiGateIsHeld ReadyIsStored ModelsAreOfProvider UnsavedIsKept
  TokensAreCurrent NewestEnrolment CodesAreSpent
PROPERTIES
  KeepsSession
CHECK_DEADLOCK FALSE
