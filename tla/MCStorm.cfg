SPECIFICATION Spec
CONSTANTS
  i1 = i1
  i2 = i2
  w1 = w1
  w2 = w2
  s1 = s1
  s2 = s2
  Items = {i1, i2}
  Workers = {w1}
  Slots = {s1}
  CanarySize = 1
  MaxAttempts = 2
  MaxBatch = 2
  Policy = "immediate_prorated"
  Faults = {}
  ForeignJobs = TRUE
  IndexLag = TRUE
  ExternalSubs = {i1}
  OwnSchedules = {}
  MaxRevision = 4
  MaxMessages = 1
  MaxFailures = 1
  NoItem = NoItem
  NoSlot = NoSlot
  OtherJob = OtherJob
  NoView = NoView
INVARIANTS
  CountersAgree
  SkippedNeverTouched
CHECK_DEADLOCK FALSE
