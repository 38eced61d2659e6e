SPECIFICATION Spec
CONSTANTS
  WcKindOf <- MCKindOf
  WcInboxMax = 1
  JsTasksMax = 2
INVARIANTS
  JsNamesFresh
PROPERTIES
  JsDone
CHECK_DEADLOCK FALSE
