SPECIFICATION HomeSpec
CONSTANTS
  Users = {ann, bob}
  Vaults = {v1, v2}
  Zero = Zero
  Undefined = Undefined
  InOrder = TRUE
  MaxCalls = 6
  MaxSwitches = 1
  MaxReloads = 1
  MaxErrors = 1
INVARIANTS HomeTypeOK Settled NoEmployeesIsTrue
PROPERTIES SpinnerEnds
CHECK_DEADLOCK FALSE
