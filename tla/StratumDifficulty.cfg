SPECIFICATION Spec
CONSTANTS
  Difficulty <- Difficulties
  Base = 1
  MinDiff = 1
  QueueCapacity = 2
  Posting = {"job"}
  MaxRequests = 1
  Orderly = TRUE
INVARIANTS
  TypeOK
  FairlyJudged
  Agreed
