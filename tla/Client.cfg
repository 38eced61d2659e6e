SPECIFICATION Spec
CONSTANTS
  WcKindOf <- MCKindOf
  WcInboxMax = 1
  LrEventsMax = 2
  DpCallers = {"c", "d"}
  DpCallsMax = 3
  IpcPostedMax = 1
INVARIANTS
  WcMapsSound
  WcServerKnows
  LrAgreed
  LrToldLast
  DpCallbackKept
  DpHeardLast
  DpThawed
  IpcAgrees
PROPERTY
  WcCallsEnd
CHECK_DEADLOCK FALSE
