CONSTANTS
  admin = admin
  alice = alice
  root = root
  Zero = Zero
  NoRoot = NoRoot
  Accounts <- MCAccounts
  Contracts = {}
  TokenIds <- MCTokenIds
  LastTokenId = 1
  Supply = 2
  Spenders <- MCAccounts
  UintModulus = 4
  Roles <- MCRoles
  DEFAULT_ADMIN_ROLE = "DEFAULT_ADMIN_ROLE"
  ADMIN_ROLE = "ADMIN_ROLE"
  Grantees <- MCAccounts
  Deployer = admin
  GroupNames = {"public"}
  GroupTerms <- MCOpenTerms
  CreatorSplits <- MCCreatorSplits
  Payments = {3}
  Listed <- MCListed
  MaxTime = 2
SPECIFICATION Spec
PROPERTIES
  OwnerlessIsFrozen
  LastAdminIsFinal
