SPECIFICATION Spec
CONSTANTS
  boss = boss
  ann = ann
  usdc = usdc
  vault = vault
  Zero = Zero
  NoUpkeep = NoUpkeep
  Vault = vault
  Users <- MCUsers
  Accounts <- MCAccounts
  Payees = {ann, boss}
  Tokens = {usdc}
  FalseTokens = {}
  Salaries = {1}
  FirstDates = {1}
  Periods = {1, 2}
  Amounts = {1}
  Genesis <- MCGenesis
  MaxUint = 3
  MaxTime = 3
  MaxListed = 3
INVARIANTS TypeOK ScheduleExact NeverAhead CheckUpkeepAgrees
PROPERTIES OutflowJustified ImplementsPayroll
CHECK_DEADLOCK FALSE
