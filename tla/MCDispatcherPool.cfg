\* Two tasks, three drafts (one malformed), one run, with a pool of two and with a
\* pool of one, the latter asked for as 0.
SPECIFICATION LiveSpec
CONSTANTS
  t1 = t1
  t2 = t2
  e1 = e1
  e2 = e2
  e3 = e3
  Tasks <- TwoTasks
  Entries <- ThreeEntries
  TaskOf <- OnTwoTasks
  Malformed = {e2}
  Concurrencies = {0, 2}
  HugeOutput = FALSE
  Assessment = Assessment
  None = None
  MaxRuns = 1
INVARIANTS DrainedWasDelivered AssessmentComesLast TallyMatchesQueue CutJobsRequeue
PROPERTIES NoneLaunchedAfterCancel RunEnds
