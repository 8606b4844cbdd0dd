CONSTANTS
  alice = alice
  shop = shop
  market = market
  Zero = Zero
  Accounts <- MCAccounts
  Contracts <- MCContracts
  TokenIds <- MCOneToken
  Spenders = {market}
  UintModulus = 4
  Roles = {"DEFAULT_ADMIN_ROLE"}
  DEFAULT_ADMIN_ROLE = "DEFAULT_ADMIN_ROLE"
  ADMIN_ROLE = "DEFAULT_ADMIN_ROLE"
  Grantees = {}
  Market = market
  Deployer = shop
  InitialFee = 1000
  InitialRoyalty <- MCRoyalty
  CollectionAdmins = {shop}
  Prices = {10, 20}
  Values = {20}
  Verdicts = {}
  Fees = {0, 2000}
  Treasuries = {}
  Royalties <- MCRoyalties
  MaxListings = 1
  MaxBatch = 2
  MaxBalance = 20
  MaxTime = 0
SPECIFICATION Spec
INVARIANTS
  MarketTypeOK
  PaidInFull
