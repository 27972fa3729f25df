\* The documented timelock against the one the code stores.
CONSTANTS
  a1 = a1
  a2 = a2
  c1 = c1
  w0 = w0
  w1 = w1
  Address = {a1, a2}
  NoAdmin = NoAdmin
  Amount = {1}
  Spender = {}
  MaxSupply = 2
  I128Max = 2
  Target = {c1}
  Wasm = {w0, w1}
  Genesis = w0
  MaxInterventions = 0
  Delay = {2}
  MaxLedger = 2
  MaxItems = 1
SPECIFICATION Spec
SYMMETRY Symmetry
INVARIANT TimelockLastsAsConfigured
CHECK_DEADLOCK FALSE
