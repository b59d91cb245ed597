SPECIFICATION Spec
CONSTANTS
  NumCounters = 2
  NumRefs = 2
  Monetary = {}
  Repays = {}
  Initial <- MCInitial
  ExpiryAt <- MCExpiryAt
  LoanTerms <- MCLoanTerms
  Tariff <- MCTariff
  Validity = 6
  NumRequests = 4
  Program <- MCProgram
  Follows <- MCFollows
  NumRows = 1
  RetryLimit = 3
  MaxTime = 6
  MaxUnits = 2
  MaxCrashes = 0
INVARIANT TopicTellsWhatWasSaved
CHECK_DEADLOCK FALSE
