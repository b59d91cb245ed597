SPECIFICATION BackendSpec
CONSTANTS
  Subscriber = {1, 2}
  Wholesaler = {1}
  Msisdn = {1}
  SubscriberTopic <- MCSubscriberTopic
  WholesaleTopic <- MCWholesaleTopic
  Lookup = {q}
  Absent = Absent
  MaxFailures = 1
  MaxRestarts = 1
  Plan = {p}
  PlanType = {0, 1}
  Lines = {l1, l2}
  Editor = {e}
  Job = {j1, j2}
  NoVersion = NoVersion
  Retention = 0
  MaxVersions = 2
  MaxClock = 2
  Content = {r1, r2}
  Cloner = {x}
  NoRow = NoRow
  MaxRows = 2
  LastDay = 2
  TopUp = {1, 2, 3}
  Malformed = Malformed
  TopUpTopic <- MCTopUpTopic
  MaxRefusals = 2
  MaxCrashes = 1
  Expressions <- MCExpressions
  Call <- MCCall
  Field = {"category", "window"}
  Value = {"a", "b", "*"}
  Ratings <- MCRatings
  Grain = 10
  Ccr = {c1, c2, c3}
  Reseller = {w}
  Rate = {0, 1}
  Burst = 1
  NoLimiter = NoLimiter
  MaxSeconds = 1
  Expired = {s1, s2, s3}
  NotYet = NotYet
  Requests <- MCRequests
  CarrierTables <- MCCarrierTables
  NumberTables <- MCNumberTables
  DialCode <- MCDialCode
  Missing = Missing
  Zero = 0
  Windows <- MCWindows
  MaxLoads = 2
INVARIANTS
  SubscribersTypeOK
  TablesFollowTopics
  RatePlansTypeOK
  ChargedAsApproved
  ClassificationsTypeOK
  ClassifiedAsAgreed
  TopUpsTypeOK
  TopUpsNeitherLostNorDoubled
  EvaluatedAsWritten
  MostSpecificLine
  SurchargesCover
  AnswersTellCharging
  WithinRate
  ExitTellsAll
  ClassifiedWhole
  LongestRangeDecides
PROPERTIES
  CachesCatchUp
  ActivePlanStays
  NeverAnOlderPlan
  ConsumedTopUpsArrive
CHECK_DEADLOCK FALSE
