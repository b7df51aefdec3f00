\* A failing command prints more than a status file may hold.
SPECIFICATION Spec
CONSTANTS
  t1 = t1
  t2 = t2
  e1 = e1
  e2 = e2
  e3 = e3
  Tasks <- OneTask
  Entries <- TwoEntries
  TaskOf <- OnOneTask
  Malformed = {}
  Concurrencies = {1}
  HugeOutput = TRUE
  Assessment = Assessment
  None = None
  MaxRuns = 2
PROPERTIES AssessmentNeverWiped
