CONSTANTS
  admin = admin
  vault = vault
  root = root
  Zero = Zero
  NoRoot = NoRoot
  Accounts <- MCAccounts
  Contracts <- MCContracts
  TokenIds <- MCTokenIds
  LastTokenId = 3
  Supply = 3
  Spenders = {}
  UintModulus = 4
  Roles <- MCRoles
  DEFAULT_ADMIN_ROLE = "DEFAULT_ADMIN_ROLE"
  ADMIN_ROLE = "ADMIN_ROLE"
  Grantees = {}
  Deployer = admin
  GroupNames = {"vip"}
  GroupTerms <- MCGroupTerms
  CreatorSplits <- MCCreatorSplits
  Payments = {3}
  Listed <- MCListed
  MaxTime = 2
SPECIFICATION Spec
INVARIANTS
  CountersMatchMints
  OneListedMint
  NoOverpayment
  MintDelivers
  EventsMatchUnlessNested
PROPERTIES
  PayoutsComplete
  MintsAreLogged
