SPECIFICATION FairSpec
CONSTANTS
  job1 = job1  job2 = job2  worker1 = worker1  worker2 = worker2
  Jobs = {job1}
  Immediate = {job1}
  Subscriptions = {1, 2}
  Foreign = {}
  Populations = {{1, 2}}
  Workers = {worker1}
  Snapshots = {"plan", "unfit"}
  Unfit = {"unfit"}
  PageSize = 2
  MaxPages = 3
  MaxMishaps = 2
  NoJob = NoJob
  NoItem = NoItem
PROPERTIES
  PreviewEnds
CHECK_DEADLOCK FALSE
