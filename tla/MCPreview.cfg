SPECIFICATION Spec
CONSTANTS
  job1 = job1  job2 = job2  worker1 = worker1  worker2 = worker2
  Jobs = {job1, job2}
  Immediate = {job1, job2}
  Subscriptions = {1, 2}
  Foreign = {1}
  Populations = {{1, 2}, {2}}
  Workers = {worker1, worker2}
  Snapshots = {"plan", "unfit"}
  Unfit = {"unfit"}
  PageSize = 1
  MaxPages = 3
  MaxMishaps = 1
  NoJob = NoJob
  NoItem = NoItem
SYMMETRY Symmetric
INVARIANTS
  PreviewTypeOK
  CommitmentAgrees
  NoCandidateMissed
  PendingIsBound
CHECK_DEADLOCK FALSE
