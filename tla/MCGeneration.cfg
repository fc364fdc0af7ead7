CONSTANTS
  Requests = {r1, r2}
  Orgs = {o1}
  Plans = {"free"}
  free = "free"
  PLAN_LIMITS <- OneSlot
  PERIOD = 1
  History <- NoneOld
  MaxTime = 1
  MaxSyncs = 1
  MaxBackfills = 0
  NoBucket = NoBucket
  NoEnd = NoEnd
  NoTime = NoTime
  Keys = {k1}
  NoRow = NoRow
  NoResponse = NoResponse
  Titles = {t1}
  NoJob = NoJob
  NoTitle = NoTitle
  MaxFaults = 2
  MaxCrashes = 1
SPECIFICATION FairSpec
INVARIANTS TypeOK FailedGenerationIsFree ChargesMatchAnswers
PROPERTIES ReservationProtocol EveryRequestAnswered
CHECK_DEADLOCK FALSE
