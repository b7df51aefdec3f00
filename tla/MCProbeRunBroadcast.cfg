\* A thread with replies that are also sent to the channel.
SPECIFICATION Spec
CONSTANTS
  p1 = p1
  p2 = p2
  t1 = t1
  t2 = t2
  thread = thread
  issue = issue
  shared = shared
  Probes = {p1}
  Tasks = {t1}
  Keys = {thread}
  Slack = {thread}
  Rest = {}
  TitleLinks <- ThreadsInTitle
  MaxLinks = 1
  Second = 1
  Broadcasts = {thread}
  MaxNow = 3
  MaxEvents = 3
  MaxFaults = 0
  MaxDisturbances = 3
INVARIANT OldThreadsConfirmed
