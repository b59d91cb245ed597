SPECIFICATION Spec
CONSTANTS
  NumCounters = 1
  NumRefs = 2
  Monetary = {}
  Repays = {}
  Initial <- MCInitial
  ExpiryAt <- MCExpiryAt
  LoanTerms <- MCLoanTerms
  Tariff <- MCTariff
  Validity = 2
  NumRequests = 5
  Program <- MCProgram
  Follows <- MCFollows
  NumRows = 1
  RetryLimit = 3
  MaxTime = 6
  MaxUnits = 2
  MaxCrashes = 1
INVARIANTS
  StoreTypeOK
  ExpiryPostedOnce
PROPERTIES
  ImplementsLedger
CHECK_DEADLOCK FALSE
