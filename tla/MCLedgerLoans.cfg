SPECIFICATION Spec
CONSTANTS
  NumCounters = 3
  NumRefs = 1
  Monetary = {}
  Repays = {3}
  Initial <- MCInitial
  ExpiryAt <- MCExpiryAt
  LoanTerms <- MCLoanTerms
  Tariff <- MCTariff
  Validity = 1
  MaxTime = 2
  Lag = 1
  MaxUnits = 5
  MaxDeliveries = 2
INVARIANTS
  TypeOK
  FeeBeforeLoan
  LoansAccountedFor
PROPERTIES
  OldestLoanFirst
CHECK_DEADLOCK FALSE
