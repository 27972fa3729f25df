\* The smallest instance in which mint_reward returns.
CONSTANTS
  a1 = a1
  a2 = a2
  Address = {a1, a2}
  NoAdmin = NoAdmin
  None = None
  Amount = {1}
  Spender = {}
  MaxSupply = 2
  I128Max = 2
  Beneficiary = {}
  StepCount = {}
  MaxLedger = 0
  MaxSchedules = 0
  MaxCampaigns = 0
SPECIFICATION DeployedSpec
INVARIANT LockFreeBetweenCalls
CHECK_DEADLOCK FALSE
