\* Two items, voted on by two holders while their tokens move; a pool with two
\* providers; two grants of two milestones.
CONSTANTS
  a1 = a1
  a2 = a2
  c1 = c1
  w0 = w0
  w1 = w1
  Address = {a1, a2}
  NoAdmin = NoAdmin
  Amount = {2}
  Spender = {}
  MaxSupply = 2
  I128Max = 2
  Target = {c1}
  Wasm = {w0, w1}
  Genesis = w0
  MaxInterventions = 2
  Delay = {2}
  MaxLedger = 2
  MaxItems = 2
  g1 = g1
  g2 = g2
  Provider = {g1, g2}
  PoolAmount <- PoolAmounts
  MinimumLiquidity = 1
  FeeNumerator = 1
  FeeDenominator = 4
  MaxReserve = 8
  Grant = {g1, g2}
  Milestone = {0, 1}
  GrantAmount = {1, 2}
  MaxTreasury = 3
  MaxSettings = 3
SPECIFICATION ContractsSpec
SYMMETRY Symmetry
INVARIANTS
  ContractsTypeOK
  TalliesMatchBallots
  OnlyMajoritiesTakeEffect
  UpgradesInstallOnce
  GrantsPayWhatWasSet
PROPERTIES
  VerdictIsFinal
  SharesKeepTheirValue
CHECK_DEADLOCK FALSE
