SPECIFICATION Spec
CONSTANTS
  job1 = job1  job2 = job2  worker1 = worker1  worker2 = worker2
  Jobs = {job1, job2}
  Immediate = {}
  Subscriptions = {1}
  Foreign = {}
  Populations = {{1}}
  Workers = {worker1}
  Snapshots = {"plan"}
  Unfit = {}
  PageSize = 1
  MaxPages = 3
  MaxMishaps = 0
  NoJob = NoJob
  NoItem = NoItem
INVARIANTS
  PreviewReadable
CHECK_DEADLOCK FALSE
