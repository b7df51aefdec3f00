\* A script runs on a card that shows an assessment.
SPECIFICATION Spec
CONSTANTS
  single = single
  filter = filter
  Tasks = {1, 2}
  Scopes = {filter, single}
  InScope <- InScopeValue
  TaskScopes = {single}
  None = None
  Corpus <- CachedTasks
  Priorities <- SomePriorities
  Quote = Quote
  MaxFilterDepth = 5
  MaxNow = 1
  MaxSummaries = 1
PROPERTY AssessmentStays
