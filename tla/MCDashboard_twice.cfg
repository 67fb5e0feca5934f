INIT MCInit
NEXT DashboardNext
CONSTANTS
  boss = boss
  ann = ann
  bob = bob
  usdc = usdc
  vault = vault
  Zero = Zero
  NoUpkeep = NoUpkeep
  Closed = Closed
  Vault = vault
  Users <- MCUsers
  Accounts <- MCAccounts
  Payees = {ann}
  Tokens = {usdc}
  FalseTokens = {}
  Salaries = {1}
  FirstDates = {1}
  Periods = {1}
  weekly = 1
  biWeekly = 2
  monthly = 3
  LocalOffset = 0
  Amounts = {1}
  Genesis <- MCGenesis
  MaxUint = 4
  MaxTime = 2
  MaxListed = 2
  MaxLoads = 1
  MaxCopies = 1
  MaxClicks = 4
  MaxErrors = 0
PROPERTIES NoDatePaidTwice
CHECK_DEADLOCK FALSE
