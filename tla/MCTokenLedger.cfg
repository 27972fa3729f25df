\* Ledger, allowances, rewards and airdrops; no vesting schedules.
CONSTANTS
  a1 = a1
  a2 = a2
  Address = {a1, a2}
  NoAdmin = NoAdmin
  None = None
  Amount = {0, 1, 2}
  Spender = {a2}
  MaxSupply = 3
  I128Max = 4
  Beneficiary = {}
  StepCount = {}
  MaxLedger = 2
  MaxSchedules = 0
  MaxCampaigns = 1
SPECIFICATION DeployedSpec
INVARIANTS
  TypeOK
  SupplyIsBacked
  AirdropWithinTotal
  RecoveryIsFinal
PROPERTY
  ImplementsIssuance
CHECK_DEADLOCK FALSE
