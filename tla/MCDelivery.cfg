\* One service at a time, with what overlaps it.
CONSTANTS
  kept = kept
  edited = edited
  Hook = {kept, edited}
  Delivery = {1, 2}
  HookOf <- DeliveryHook
  Sweep = {s1}
  s1 = s1
  NoDelivery = NoDelivery
  MaxPosts = 2
  MaxConcurrent = 1
  SweepTake = 1
  MaxHookFaults = 1
  EditedHook = {edited}
  MaxHookEdits = 1
  Letter = {1, 2}
  Process = {p1, p2}
  p1 = p1
  p2 = p2
  NoLetter = NoLetter
  MaxSends = 2
  MailTake = 2
  MaxMailFaults = 1
  Member = {m1, m2}
  m1 = m1
  m2 = m2
  Sweeper = {w1, w2}
  w1 = w1
  w2 = w2
  Editor = {e1}
  e1 = e1
  NoSession = NoSession
  MaxTime = 3
  MaxCalls = 1
  Job = {j1, j2}
  j1 = j1
  j2 = j2
  NoJob = NoJob
  Items = 3
  ChunkSize = 2
  MaxRestarts = 1
  Poller = {p1, p2}
  Reader = {r1}
  r1 = r1
  MaxLedger = 3
  MaxEvents = 2
  PageLimit = 1
  MaxPollFaults = 1
  MaxReports = 3
  Sync = {s1, s2}
  s2 = s2
SPECIFICATION Spec
INVARIANTS
  DeliveryTypeOK
  SentOnceAlone
  RemindersAreKept
  NoEventIsSkipped
  ReportsSurvive
PROPERTIES
  QueuesKeepThePromise
  DeliveriesSettle
  MailsSettle
  JobsSettle
  BalanceCacheConverges
CHECK_DEADLOCK FALSE
