SPECIFICATION PatientSpec
CONSTANTS
  i1 = i1
  i2 = i2
  w1 = w1
  w2 = w2
  s1 = s1
  s2 = s2
  Items = {i1, i2}
  Workers = {w1}
  Slots = {s1}
  CanarySize = 1
  MaxAttempts = 2
  MaxBatch = 1
  Policy = "next_renewal"
  Faults = {"retryable_failure"}
  ForeignJobs = FALSE
  IndexLag = FALSE
  ExternalSubs = {}
  OwnSchedules = {i1}
  MaxRevision = 5
  MaxMessages = 2
  MaxFailures = 1
  NoItem = NoItem
  NoSlot = NoSlot
  OtherJob = OtherJob
  NoView = NoView
PROPERTIES
  KeepsLifecycle
  ApprovedJobEnds
  CancellationEnds
CHECK_DEADLOCK FALSE
