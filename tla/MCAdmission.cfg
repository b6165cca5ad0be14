\* Three sources for a table of two; a token takes two ticks to come, and a
\* ban outlasts the time to live of an entry.
CONSTANTS
  Source = {s1, s2, s3}
  None = None
  Cost = 2
  SourceRate = 1
  SourceBurst = 5
  GlobalRate = 4
  GlobalBurst = 10
  MaxSources = 2
  EntryTTL = 4
  ViolationBurst = 3
  SourceBan = 6
SPECIFICATION Spec
INVARIANTS
  TypeOK
  FullMeansBusy
PROPERTIES
  ImplementsMeter
