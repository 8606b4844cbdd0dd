CONSTANTS
  admin = admin
  alice = alice
  root = root
  Zero = Zero
  NoRoot = NoRoot
  Accounts <- MCAccounts
  Contracts = {}
  TokenIds <- MCTokenIds
  LastTokenId = 3
  Supply = 2
  Spenders = {}
  UintModulus = 4
  Roles <- MCRoles
  DEFAULT_ADMIN_ROLE = "DEFAULT_ADMIN_ROLE"
  ADMIN_ROLE = "ADMIN_ROLE"
  Grantees = {}
  Deployer = admin
  GroupNames = {"", "vip", "public"}
  GroupTerms <- MCGroupTerms
  CreatorSplits <- MCCreatorSplits
  Payments = {3, 4}
  Listed <- MCListed
  MaxTime = 2
SPECIFICATION Spec
INVARIANTS
  TypeOK
  TokensAreSequential
  GroupIndexConsistent
  EventsMatchUnlessNested
PROPERTY MintsRespectLimits
