\* Two TUIs, two jobs of one dispatcher, three entries, one fault.
SPECIFICATION LiveSpec
CONSTANTS
  e1 = e1
  e2 = e2
  e3 = e3
  j1 = j1
  j2 = j2
  Entries = {e1, e2, e3}
  Appenders = {t1, t2}
  Removers = {j1, j2}
  DraftsOf <- TwoTasks
  NoProc = NoProc
  NoEntry = NoEntry
  MaxFaults = 1
INVARIANTS TypeOK NoLostAppend NoResurrection RemovedMeansGone NoDuplicates
PROPERTIES WedgedForGood OrderKept AtomicQueue CallsReturn
