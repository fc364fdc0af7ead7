CONSTANTS
  Requests = {r1, r2, r3}
  Visitors = {v1, v2}
  Family <- OneFamily
  VERDICT_CAP = 2
  PROPOSAL_CAP = 1
  DAILY_CAP = 1
  ANON_CAP = 1
  ManyDevices = 1
  ManyRows = 0
  MaxDays = 2
  MaxRestarts = 1
  Seeded = Seeded
  Nothing = Nothing
SPECIFICATION Spec
SYMMETRY Symmetry
INVARIANTS TypeOK CapsOvershootByTheCrowd NoAnswerPastTheCap ConfigIsCurrent
CHECK_DEADLOCK FALSE
