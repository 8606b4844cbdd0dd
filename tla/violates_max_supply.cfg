CONSTANTS
  alice = alice
  vault = vault
  bothListed = bothListed
  vaultListed = vaultListed
  Zero = Zero
  NoRoot = NoRoot
  Accounts <- MCAccounts
  Contracts = {vault}
  TokenIds <- MCTokenIds
  LastTokenId = 2
  MaxSupply = 1
  Spenders = {alice}
  UintModulus = 3
  Roles <- MCRoles
  DEFAULT_ADMIN_ROLE = "DEFAULT_ADMIN_ROLE"
  ADMIN_ROLE = "ADMIN_ROLE"
  MINTER_ROLE = "MINTER_ROLE"
  Grantees = {}
  Deployer = vault
  Listed <- MCListed
  Royalties <- MCRoyalties
  Uris = {"uri"}
SPECIFICATION Spec
INVARIANT MaxSupplyIsMaximum
