\* One task, two drafts, a pool of one, up to three runs, each of which
\* may fail anywhere or die.
SPECIFICATION Spec
CONSTANTS
  t1 = t1
  t2 = t2
  e1 = e1
  e2 = e2
  e3 = e3
  Tasks <- OneTask
  Entries <- TwoEntries
  TaskOf <- OnOneTask
  Malformed = {}
  Concurrencies = {1}
  HugeOutput = FALSE
  Assessment = Assessment
  None = None
  MaxRuns = 3
INVARIANTS TypeOK RepeatOnlyAfterAbort ShownWasLogged
PROPERTIES DeliversAsPromised AssessmentNeverWiped
