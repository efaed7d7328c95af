SPECIFICATION FairSpec
CONSTANTS
  first = first
  limbo = limbo
  d1 = d1
  d2 = d2
  d3 = d3
  archive = archive
  readme = readme
  Depositions <- MCDepositions
  First = first
  Limbo = limbo
  Names <- MCNames
  Archive = archive
  MaxRuns = 3
  MaxFailures = 2
INVARIANT TypeOK
INVARIANT SuccessIsPublished
INVARIANT OldFilesOnlyWarned
PROPERTY ImplementsHistory
PROPERTY ReleasedInTheEnd
CHECK_DEADLOCK FALSE
