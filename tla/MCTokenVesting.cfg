\* Both generations of vesting over six ledgers, from the deployment on.
CONSTANTS
  a1 = a1
  a2 = a2
  Address = {a1}
  NoAdmin = NoAdmin
  None = None
  Amount = {3}
  Spender = {}
  MaxSupply = 3
  I128Max = 6
  Beneficiary = {a1}
  StepCount = {0, 3}
  MaxLedger = 5
  MaxSchedules = 1
  MaxCampaigns = 0
SPECIFICATION Spec
INVARIANTS
  ClaimedWithinGrant
  NothingBeforeCliff
  VestingIsMonotonic
PROPERTY
  GrantsAreKept
CHECK_DEADLOCK FALSE
