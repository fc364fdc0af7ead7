CONSTANTS
  Requests = {r1, r2}
  Keys = {k1}
  Confs = {1, 2}
  Patches <- SomePatches
  Nobody = Nobody
  NoOrg = NoOrg
  Orgs = {o1, o2}
  Home = o1
  Titles = {t1, t2}
  Seed = seed
  SeedTitle = t1
  Keep = Keep
  NoAmount = NoAmount
  NoAnalysis = NoAnalysis
  NoRate = NoRate
SPECIFICATION Spec
SYMMETRY Symmetry
INVARIANT EncryptedWhenSensitive
CHECK_DEADLOCK FALSE
