SPECIFICATION MCSpec
CONSTANTS
  boss = boss
  ann = ann
  bob = bob
  usdc = usdc
  vault = vault
  registry = registry
  registrar = registrar
  k1 = k1
  k2 = k2
  Zero = Zero
  NoUpkeep = NoUpkeep
  NoJob = NoJob
  LINK = LINK
  Tokens = {LINK, usdc}
  FalseTokens = {}
  Accounts <- MCAccounts
  Users <- MCUsers
  Vault = vault
  Registry = registry
  Registrar = registrar
  registryOwner = boss
  Keepers <- MCKeepers
  Targets <- MCTargets
  Payees = {ann, bob}
  Salaries = {1}
  FirstDates = {1}
  Periods = {1}
  Amounts = {1}
  LinkAmounts = {}
  Payments = {1}
  MaxPayment = 1
  minUpkeepSpend = 1
  minLINKJuels = 1
  autoApproveMaxAllowed = 1
  CANCELATION_DELAY = 1
  UINT64_MAX = 9
  Genesis <- MCGenesis
  Charge = 4
  MaxNonce = 1
  MaxBlock = 2
  MaxSpent = 4
  MaxUint = 4
  MaxTime = 2
  MaxListed = 2
  MaxOps = 2
  Buddy <- MCBuddy
  GracePeriod = 1
INVARIANTS NodesTypeOK WasteBounded
PROPERTIES Disbursed StalePerformHarmless
