CONSTANTS
  alice = alice
  shop = shop
  market = market
  Zero = Zero
  Accounts <- MCAccounts
  Contracts = {}
  TokenIds <- MCTwoTokens
  Spenders = {market}
  UintModulus = 4
  Roles = {"DEFAULT_ADMIN_ROLE"}
  DEFAULT_ADMIN_ROLE = "DEFAULT_ADMIN_ROLE"
  ADMIN_ROLE = "DEFAULT_ADMIN_ROLE"
  Grantees = {}
  Market = market
  Deployer = alice
  InitialFee = 1000
  InitialRoyalty <- MCRoyalty
  CollectionAdmins = {}
  Prices = {10}
  Values = {20}
  Verdicts = {}
  Fees = {}
  Treasuries = {}
  Royalties <- MCRoyalties
  MaxListings = 2
  MaxBatch = 2
  MaxBalance = 20
  MaxTime = 0
SPECIFICATION Spec
INVARIANT BystandersKeepTokens
