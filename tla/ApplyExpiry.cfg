SPECIFICATION Spec
CONSTANTS
  r1 = r1
  r2 = r2
  old = old
  new = new
  upd = upd
  del = del
  ins = ins
  a1 = a1
  a2 = a2
  w1 = w1
  s1 = s1
  s2 = s2
  s3 = s3
  i1 = i1
  i2 = i2
  Absent = Absent
  Nobody = Nobody
  NoPlan = NoPlan
  NoSnapshot = NoSnapshot
  Rows = {r1, r2}
  Values = {old, new}
  Plans = {upd}
  Inserts = {}
  NewRow <- InsRow
  Match <- PlanMatch
  After <- PlanAfter
  Image <- WholeRow
  Appliers = {a1}
  Writers = {w1}
  Schemas = {s1}
  Allowed <- AnySchema
  Idents = {i1}
  PlanOf <- OnlyUpd
  MaxRows = 2
  MaxChanges = 1
  NameRebinding = FALSE
PROPERTIES
  NeverAppliedAfterExpiry
CHECK_DEADLOCK FALSE
