\* Two CPUs and one job: are the results sorted?
CONSTANTS
  NCpus = 2
  Inputs <- ManyOrFew
  Key = {2, 4, 6, 8, 11, 14, 16, 18, 20}
  Order = 1
  Kinds = {"fixed", "sample"}
  MixedKinds = FALSE
  FixedTasks = 2
  SampleTasks = 3
  TasksPerCpu = 1
  Estimates = {0, 3}
  MaxJobs = 1
SPECIFICATION Spec
CHECK_DEADLOCK FALSE
INVARIANT ResultSorted
