SPECIFICATION SamplersSpec
CONSTANTS
  t1 = t1  t2 = t2
  Tasks <- MCTasks
  Main = t1
  None = none
  MaxStarts = 4
  MaxWork = 1
  Reuse = FALSE
INVARIANTS SamplersTypeOK GainsOfOneTask
CHECK_DEADLOCK FALSE
