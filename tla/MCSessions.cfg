CONSTANTS
  Requests = {r1, r2, r3, r4}
  First = First
  NoToken = NoToken
  MAX_FAILED_LOGINS = 3
SPECIFICATION Spec
SYMMETRY Symmetry
INVARIANTS TypeOK ExchangedOnce SweepSparesOnlyRaces LockNeedsFailures
CHECK_DEADLOCK FALSE
