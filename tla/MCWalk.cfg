\* Three launches or appends over two tasks.
SPECIFICATION Spec
CONSTANTS
  single = single
  filter = filter
  Tasks = {1, 2}
  Scopes = {filter, single}
  InScope <- InScopeValue
  TaskScopes = {single}
  None = None
  Corpus <- CachedTasks
  Priorities <- SomePriorities
  Quote = Quote
  MaxFilterDepth = 5
  MaxNow = 3
  MaxSummaries = 1
INVARIANTS NothingUnasked EntryIDsUnique NoDeadEnd FiltersMeanWhatTheySay QuotedNamesAreLiteral
PROPERTY ResumesWhereLeft
CONSTRAINT AssessedEarly
