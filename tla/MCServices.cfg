\* One service at a time, two requests beside each other.
CONSTANTS
  k1 = k1
  k2 = k2
  u1 = u1
  u2 = u2
  g1 = g1
  g2 = g2
  Caller = {k1, k2}
  Attempts = 4
  MaxLedgerCalls = 3
  MaxRpcFaults = 4
  Request = {k1, k2}
  Code = {u1, u2}
  ResetLimit = 2
  MaxTokens = 4
  MaxRequests = 7
  MaxAuthFaults = 1
  Buyer = {k1, k2}
  MaxUsage = 2
  MaxCheckouts = 6
  Runs = {k1, k2}
  BatchSize = 2
  Completions = 3
  MaxEntries = 1
  MaxPayouts = 2
  MaxFetchFaults = 1
  MaxEvents = 4
  Poster = {k1, k2}
  User = {u1, u2}
  MaxPosts = 4
  Grader = {k1, k2}
  Reviewer = {u1, u2}
  Grade = {g1, g2}
  MaxGradings = 6
  MaxCommunityFaults = 1
SPECIFICATION Spec
SYMMETRY Symmetry
INVARIANTS
  CallsAreAccounted
  SecretsAreSpentOnce
  
  TalliesAndGradesAgree
CHECK_DEADLOCK FALSE
