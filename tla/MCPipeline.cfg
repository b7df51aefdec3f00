\* One task with a Slack thread, one draft on its card, one failure.
SPECIFICATION PipelineSpec
CONSTANTS
  p1 = p1
  t1 = t1
  thread = thread
  Probes = {p1}
  Tasks = {t1}
  Keys = {thread}
  Slack = {thread}
  Rest = {}
  TitleLinks <- AllInTitle
  MaxLinks = 1
  Second = 1
  Broadcasts = {}
  MaxNow = 2
  MaxEvents = 2
  MaxFaults = 1
  MaxDisturbances = 3
  d1 = d1
  Drafts = {d1}
  DraftOn <- OnOneCard
PROPERTIES OpenStaysCached NewsGetsReported ClosedLeavesCache DraftsArrive
