SPECIFICATION Spec
CONSTANTS
  NumCounters = 1
  NumRefs = 4
  Monetary = {}
  Repays = {}
  Initial <- MCInitial
  ExpiryAt <- MCExpiryAt
  LoanTerms <- MCLoanTerms
  Tariff <- MCTariff
  Validity = 1
  Session = {"a", "b"}
  Group = {1, 2}
  Free = {2}
  Minimum <- MCMinimum
  Increment <- MCIncrement
  NumRequests = 6
  Requests <- MCRequests
  Follows <- MCFollows
  StaleAfter = 0
  MaxTime = 1
  MaxUnits = 2
  Failing = {"load", "account", "rate", "save"}
  MaxFaults = 1
INVARIANTS
  SessionTypeOK
  DebitsFitGrants
  AnswerIsBacked
PROPERTIES
  ReservationsEnd
  ImplementsGrants
CHECK_DEADLOCK FALSE
