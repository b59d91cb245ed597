SPECIFICATION GrantsSpec
CONSTANTS
  NumCounters = 1
  NumRefs = 1
  Monetary = {1}
  Repays = {}
  Initial <- MCInitial
  ExpiryAt <- MCExpiryAt
  LoanTerms <- MCLoanTerms
  Tariff <- MCTariff
  Validity = 2
  MaxTime = 2
  Lag = 0
  MaxUnits = 5
  MaxDeliveries = 1
INVARIANT GrantedUnitsAreReserved
CHECK_DEADLOCK FALSE
