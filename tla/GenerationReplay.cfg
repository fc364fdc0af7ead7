CONSTANTS
  Requests = {r1, r2}
  Orgs = {o1}
  Plans = {"free"}
  free = "free"
  PLAN_LIMITS <- TwoSlots
  PERIOD = 1
  History <- NoneOld
  MaxTime = 0
  MaxSyncs = 0
  MaxBackfills = 0
  NoBucket = NoBucket
  NoEnd = NoEnd
  NoTime = NoTime
  Keys = {k1}
  NoRow = NoRow
  NoResponse = NoResponse
  Titles = {t1}
  NoJob = NoJob
  NoTitle = NoTitle
  MaxFaults = 0
  MaxCrashes = 0
SPECIFICATION Spec
INVARIANT ReplayIsNotCharged
CHECK_DEADLOCK FALSE
