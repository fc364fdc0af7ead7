CONSTANTS
  Requests = {r1, r2, r3, r4}
  Original = Original
  NoToken = NoToken
SPECIFICATION Spec
SYMMETRY Symmetry
INVARIANTS TypeOK HistoryOrdered EditsLostOnlyToRaces LinksFollowAnswers
CHECK_DEADLOCK FALSE
