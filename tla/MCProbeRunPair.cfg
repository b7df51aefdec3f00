\* Two probes beside each other, a Slack thread and an issue, two clock readings to a second.
\* The world changes twice, or once beside a failure, at any moments.
SPECIFICATION Spec
CONSTANTS
  p1 = p1
  p2 = p2
  t1 = t1
  t2 = t2
  thread = thread
  issue = issue
  shared = shared
  Probes = {p1, p2}
  Tasks = {t1}
  Keys = {thread, issue}
  Slack = {thread}
  Rest = {issue}
  TitleLinks <- ThreadsInTitle
  MaxLinks = 1
  Second = 2
  Broadcasts = {}
  MaxNow = 4
  MaxEvents = 2
  MaxFaults = 1
  MaxDisturbances = 2
INVARIANTS WatermarkSound FreshIsTrue MovedWasNews ReportIsComplete
SYMMETRY EitherProbe
