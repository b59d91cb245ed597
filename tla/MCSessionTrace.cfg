SPECIFICATION Spec
CONSTANTS
  NumCounters = 1
  NumRefs = 3
  Monetary = {}
  Repays = {}
  Initial <- MCInitial
  ExpiryAt <- MCExpiryAt
  LoanTerms <- MCLoanTerms
  Tariff <- MCTariff
  Validity = 2
  Session = {"a"}
  Group = {1}
  Free = {}
  Minimum <- MCMinimum
  Increment <- MCIncrement
  NumRequests = 4
  Requests <- MCRequests
  Follows <- MCFollows
  StaleAfter = 1
  MaxTime = 1
  MaxUnits = 2
  Failing = {"load", "account", "rate", "save", "trace"}
  MaxFaults = 1
INVARIANT CleanUpSparesSaved
CHECK_DEADLOCK FALSE
