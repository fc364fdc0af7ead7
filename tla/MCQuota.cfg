CONSTANTS
  Requests = {r1, r2, r3}
  Orgs = {o1}
  Plans = {"free", "starter"}
  free = "free"
  PLAN_LIMITS <- MCLimits
  PERIOD = 2
  History <- OneOld
  MaxTime = 2
  MaxSyncs = 1
  MaxBackfills = 2
  NoBucket = NoBucket
  NoEnd = NoEnd
  NoTime = NoTime
SPECIFICATION Spec
SYMMETRY Symmetry
INVARIANTS TypeOK LedgerExact NoOverdraft BackfillNeverOvercounts
PROPERTY LedgerSpec
CHECK_DEADLOCK FALSE
