CONSTANTS
  Requests = {r1, r2, r3, r4}
  Orgs = {o1}
  Keys = {k1, k2}
  NoRow = NoRow
  NoResponse = NoResponse
SPECIFICATION Spec
SYMMETRY Symmetry
INVARIANTS TypeOK ReplayFaithful OneOwnerPerKey
PROPERTY CompletedIsFinal
CHECK_DEADLOCK FALSE
