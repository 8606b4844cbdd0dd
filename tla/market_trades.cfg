CONSTANTS
  alice = alice
  shop = shop
  market = market
  Zero = Zero
  Accounts <- MCAccounts
  Contracts <- MCContracts
  TokenIds <- MCOneToken
  Spenders = {market, shop}
  UintModulus = 4
  Roles = {"DEFAULT_ADMIN_ROLE"}
  DEFAULT_ADMIN_ROLE = "DEFAULT_ADMIN_ROLE"
  ADMIN_ROLE = "DEFAULT_ADMIN_ROLE"
  Grantees = {}
  Market = market
  Deployer = alice
  InitialFee = 1000
  InitialRoyalty <- MCRoyalty
  CollectionAdmins = {}
  Prices = {10}
  Values = {10, 20}
  Verdicts = {FALSE}
  Fees = {}
  Treasuries = {shop}
  Royalties <- MCRoyalties
  MaxListings = 1
  MaxBatch = 2
  MaxBalance = 20
  MaxTime = 1
SPECIFICATION Spec
INVARIANTS
  CoveredByBuyer
  BuyersHaveTokens
