\* Two workspaces with the same channel id.
SPECIFICATION Spec
CONSTANTS
  hostA = hostA
  hostB = hostB
  hostE = hostE
  t1 = t1
  t2 = t2
  t3 = t3
  t4 = t4
  c1 = c1
  c2 = c2
  thA = thA
  thB = thB
  thE = thE
  thGone = thGone
  x15 = x15
  x18 = x18
  x = x
  w18 = w18
  w = w
  y18 = y18
  y = y
  z18 = z18
  z = z
  u18 = u18
  u = u
  case = case
  caseGone = caseGone
  mail = mail
  Canonical <- CanonicalValue
  Channel <- ChannelValue
  KeyObject <- KeyObjectValue
  CaseNumbers = {case, caseGone}
  Cases = Cases
  Org <- OrgValue
  TeamOf <- TeamOfValue
  Files <- OneFile
  Installed = {"salesforce", "github"}
  Google = {"gmail"}
  NotProbeable = {"teams"}
  MaxLinks = 8
  MaxQueryGroups = 2
  MaxProbes = 2
  None = None
  MaxRuns = 2
  Corpora <- Shared
  Threads <- SharedThreads
  MaxFaults = 0
INVARIANTS WorkspacesKeptApart
