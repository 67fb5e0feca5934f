INIT MCInit
NEXT DashboardNext
CONSTANTS
  boss = boss
  ann = ann
  bob = bob
  usdc = usdc
  vault = vault
  Zero = Zero
  NoUpkeep = NoUpkeep
  Closed = Closed
  Vault = vault
  Users <- MCUsers
  Accounts <- MCAccounts
  Payees = {ann, bob}
  Tokens = {usdc}
  FalseTokens = {usdc}
  Salaries = {1, 2}
  FirstDates = {1}
  Periods = {1}
  weekly = 1
  biWeekly = 2
  monthly = 3
  LocalOffset = 0
  Amounts = {1}
  Genesis <- MCGenesis
  MaxUint = 4
  MaxTime = 1
  MaxListed = 2
  MaxLoads = 2
  MaxCopies = 2
  MaxClicks = 4
  MaxErrors = 1
SYMMETRY PayeeSymmetry
INVARIANTS DashboardTypeOK RowsPaired LoadingEnds FormFollowsRow TableSettles
CHECK_DEADLOCK FALSE
