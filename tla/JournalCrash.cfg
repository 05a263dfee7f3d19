SPECIFICATION Spec
CONSTANTS
  a1 = a1
  a2 = a2
  p1 = p1
  Appliers = {a1, a2}
  Paths = {p1}
  PathOf <- SamePath
  Finals = {"committed", "uncertain"}
  NoEvent = NoEvent
  MaxTime = 1
  EntryDurable = TRUE
INVARIANTS
  TypeOK
  PreparedSurvives
  OutcomeSurvives
  JInv
PROPERTIES
  AnswersStand
  IsReceiptFile
CHECK_DEADLOCK FALSE
