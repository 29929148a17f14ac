SPECIFICATION FairSpec
CONSTANTS
  i1 = i1
  i2 = i2
  w1 = w1
  w2 = w2
  s1 = s1
  s2 = s2
  Items = {i1, i2}
  Workers = {w1}
  Slots = {s1}
  CanarySize = 2
  MaxAttempts = 2
  MaxBatch = 2
  Policy = "next_renewal"
  Faults = {}
  ForeignJobs = FALSE
  IndexLag = FALSE
  ExternalSubs = {}
  OwnSchedules = {}
  MaxRevision = 4
  MaxMessages = 2
  MaxFailures = 1
  NoItem = NoItem
  NoSlot = NoSlot
  OtherJob = OtherJob
  NoView = NoView
PROPERTIES
  CancellationFinishes
CHECK_DEADLOCK FALSE
