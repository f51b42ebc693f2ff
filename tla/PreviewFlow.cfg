SPECIFICATION FairPreviewSpec
CONSTANTS
  Previews = {p1}
  MaxSessions = 1
  ParserQueue = 1
  BatchSize = 2
  MaxOps = 3
  MaxPosted = 2
CHECK_DEADLOCK FALSE
PROPERTY CloseReleasesLease
