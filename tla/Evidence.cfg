SPECIFICATION Spec
CONSTANTS
  r1 = r1
  r2 = r2
  r3 = r3
  Absent = Absent
  NoPlan = NoPlan
  Slots = {r1, r2, r3}
  Images <- SomeImages
  Order <- SomeOrder
  Files <- SomeFiles
  Match <- SomeMatch
  PrefixBytes = 2
  Cap = 9
  MaxRows = 2
  MaxDrifts = 1
INVARIANTS
  TypeOK
  DigestDecides
  NoFalseDrift
  EffectIsEvidence
  CapIsExact
  EInv
PROPERTY ComparesTargets
CHECK_DEADLOCK FALSE
