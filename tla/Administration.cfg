SPECIFICATION LiveSpec
CONSTANTS
  Parts = {"revocation", "console", "lockout", "confirmation", "evidence", "onboarding"}
  MaxCerts = 2
  MaxTroubles = 2
  AskWhileInFlight = FALSE
  CertNames = {a, b}
  DomainSets = {x, y}
  Undeclared = Undeclared
  Initially = {a}
  Observing = TRUE
  MaxChanges = 3
  MaxHitches = 1
  Addrs = {u, v, w}
  MaxFailures = 4
  ForgiveFloor = 2
  Window = 1
  BlockFor = 3
  GCThreshold = 2
  GCInterval = 1
  MaxEntries = 2
  MaxClock = 5
  MaxTokens = 2
  Requests = {r1, r2}
  RestoreFrom = {"latest", "other"}
  MaxVersions = 2
  MaxTime = 1
  TTL = 1
  ShopCert = ShopCert
  MailCert = MailCert
  ShopHost = ShopHost
  MailHost = MailHost
  Sites = {ShopCert, MailCert}
  NoSite = NoSite
  Hosts = {ShopHost, MailHost}
  Addresses = {x}
  MaxVers = 2
  Sans <- Moving
  MaxUpsets = 1
  MaxTriggers = 1
  Apex = Apex
  Www = Www
  Declarable = {Apex, Www}
  DomainOf <- OneDomain
  Allowlists <- WithOrWithout
  RequireRule = TRUE
  MaxNames = 2
  DropPercent = 50
  GracePeriod = 2
  BudgetWindow = 1
  Budget = 1
  MaxMoves = 5
  MaxSlips = 1
INVARIANTS AdministrationType  StaleIsAnnounced OneRestorePerChallenge
PROPERTIES DecisionCarriedOut BlocksSurviveFloods PageCatchesUp LiveEvidenceKept NamesLeaveInDueTime
CHECK_DEADLOCK FALSE
