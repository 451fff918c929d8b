SPECIFICATION Spec
CONSTANTS
  ann = ann
  ben = ben
  a1 = a1
  a2 = a2
  n1 = n1
  n2 = n2
  n3 = n3
  zero = zero
  typed = typed
  data1 = data1
  data2 = data2
  data3 = data3
  Module = {"blacklist", "lockup", "manual", "volume", "general", "limits",
            "registry", "permission", "wallet", "modules", "issuance"}
  Client = {ann, ben}
  MaxTime = 2
  MaxCommands = 3
  Investor = {a1, a2}
  Name = {n1, n2}
  StartTime = {2}
  File <- ListFiles
  DefaultBatch = 1
  BatchSize = {2}
  Pair = {a1, a2}
  Amount = {1}
  Expiry = {3}
  ApprovalFile <- ApprovalFiles
  ApprovalBatch = {2}
  Holder = {a1, a2}
  RestrictionStart = {0}
  RestrictionFile <- RestrictionFiles
  RestrictionBatch = {3}
  KnownInvestor = {a1, a2}
  Zero = zero
  KYC = {typed}
  Flag = {2}
  Setting = {1}
  Initial = 0
  InvestorFile <- InvestorFiles
  InvestorBatch = {2}
  TokenHolder = {a1, a2}
  NoAccount = zero
  HolderCount = {1, 2}
  Percentage = {60}
  TransferAmount = {0, 1, 2}
  MaxSupply = 3
  WhitelistFile <- WhitelistFiles
  WhitelistBatch = {2}
  User = {ann, ben}
  NoUser = zero
  Ticker = {a1, a2}
  MaxPoly = 2
  FeesInPoly <- Fees
  FirstFees <- LowFees
  ExpiryLimit = {1}
  ExpiryDate = {1}
  Delegate = {a1, a2}
  Permission = {1}
  Beneficiary = {ann, ben}
  TemplateName = {a1, a2}
  Granularity = 1
  MaxTokens = 2
  MaxSchedules = 2
  TemplateData <- Templates
  TypedStart = {3}
  ScheduleFile <- ScheduleFiles
  ScheduleBatch = {2}
  MaxModules = 2
  ModuleFee = {1, 2}
  Purse = 6
  PolyTyped = {1}
  Receiver = {n1}
  Shares = {1}
  IssueFile <- IssueFiles
  IssueBatch = {1, 2}
SYMMETRY Alike
INVARIANTS
  MembershipAgrees
  ApprovalsAgree
  UsedIsShown
  RestrictionsShown
  InvestorsListed
  VerifyAgrees
  TickersAgree
  WhoMayIsShown
  LeftoverIsUsed
  IssuedInOrder
PROPERTIES
  OnlyShownAreRemoved
  LimitsKept
  ReservationKept
  OnlySelectedIsRevoked
