SPECIFICATION Spec
CONSTANTS
  WcKindOf <- MCKindOf
  WcInboxMax = 1
  JsTasksMax = 1
  ScApps = {"a", "b"}
  ScSystem = {"b"}
  ScWindows = {"w"}
  ScScreens = {"s"}
  ScCallsMax = 2
  ScFaultsMax = 1
  SrDevices <- MCDevices
  SrOrientations = {"UNSPECIFIED", "HORIZONTAL", "REVERSE_VERTICAL", "SENSOR", "SENSOR_VERTICAL", "AUTO_ROTATION_LANDSCAPE_RESTRICTED"}
  SrDegrees <- MCDegrees
  SrCallsMax = 3
INVARIANTS
  JsSettlesOnce
  ScOwned
  SrObeyed
  SrLockHolds
PROPERTIES
  JsSettlesAll
  ScAnswered
CHECK_DEADLOCK FALSE
