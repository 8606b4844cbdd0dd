CONSTANTS
  admin = admin
  alice = alice
  Zero = Zero
  NoRoot = NoRoot
  Unreadable = Unreadable
  Accounts <- MCAccounts
  Contracts = {}
  TokenIds <- MCTokenIds
  LastTokenId = 1
  Supply = 1
  Spenders = {}
  UintModulus = 4
  Roles <- MCRoles
  DEFAULT_ADMIN_ROLE = "DEFAULT_ADMIN_ROLE"
  ADMIN_ROLE = "ADMIN_ROLE"
  Grantees = {}
  Deployer = admin
  GroupNames = {"whitelist", "public"}
  GroupTerms <- MCGroupTerms
  CreatorSplits <- MCCreatorSplits
  Payments = {1}
  Listed <- MCListed
  MaxTime = 4
  Configs <- MCConfigs
  Skews = {0, 1}
  WhitelistSpan = 1
  PublicDelay = 2
  PublicSpan = 1
  MaxRuns = 2
SPECIFICATION FairScriptsSpec
INVARIANTS
  ScriptsTypeOK
  OnlyLateOrRepeated
  CreatorsBeforeGroups
  SalesApart
  OnlyFastClocks
PROPERTIES
  UpdatesReportTruth
  ScriptsEnd
  DeploymentSettles
CHECK_DEADLOCK FALSE
