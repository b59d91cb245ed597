SPECIFICATION GrantsToPeerSpec
CONSTANTS
  NumCounters = 3
  NumRefs = 2
  Monetary = {3}
  Repays = {}
  Initial <- MCInitial
  ExpiryAt <- MCExpiryAt
  LoanTerms <- MCLoanTerms
  Tariff <- MCTariff
  Validity = 2
  MaxTime = 2
  Lag = 0
  MaxUnits = 5
  MaxDeliveries = 1
  Group <- MCGroup
  Timed <- MCTimed
  Wanted <- MCWanted
  Grantable <- MCGrantable
  Word = 3
  MaxNumber = 2
  MaxTries = 2
INVARIANTS
  GrantsTypeOK
  NoOverReservation
  JournalBalances
  UseWithinGrantIsPaid
  CreditControlTypeOK
  PeerWithinGrants
  UseDebitedOnce
CHECK_DEADLOCK FALSE
