SPECIFICATION FairSpec
CONSTANTS
  Collector = {c1, c2}
  Healthy = c1
  Jobs <- MCJobs
  Absent = Absent
  Sample = 1
  RowGroup = 2
  CommitEvery = 2
  Period = 2
INVARIANTS   OneCollector
PROPERTIES RetentionIsHonoured 
