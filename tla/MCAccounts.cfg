CONSTANTS
  Requests = {r1, r2, r3}
  Trials = {t1, t2}
  Nobody = Nobody
  MaxSent = 3
SPECIFICATION Spec
SYMMETRY Symmetry
INVARIANTS TypeOK LiveLinksOverlapped CustomersStay PlanFollowsNewest
CHECK_DEADLOCK FALSE
