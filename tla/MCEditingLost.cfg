SPECIFICATION Spec
CONSTANTS
  None = None
  Definitions = {d1, d2}
  Crons = {}
  Period <- NoPeriods
  Editors = {e1, e2}
  Kind = "webhook"
  MaxVersion = 5
PROPERTIES NoLostUpdate
CHECK_DEADLOCK FALSE
