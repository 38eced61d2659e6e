----------------------------- MODULE ScreenRotation -----------------------------
(* How the default display is turned. Three threads do it, without a lock: the
   gravity sensor's (HandleGravitySensorEventCallback), the window service's, when
   the window in front asks for an orientation, and the one that serves the user's
   SetOrientation and SetScreenRotationLocked. Each reads some of the state first
   and turns the screen later. A rotation is 0..3, a quarter of a turn each.      *)
EXTENDS Integers

CONSTANTS SrDevices,       \* the devices: their default rotation and their offset
          SrOrientations,  \* the orientations windows and the user ask for
          SrDegrees,       \* what the sensor tells, -1 when the device lies flat
          SrCallsMax       \* bound on the requests and events
Invalid == -1
Fixed == {"VERTICAL", "HORIZONTAL", "REVERSE_VERTICAL", "REVERSE_HORIZONTAL"}
Orientations == Fixed \cup
  {"UNSPECIFIED", "SENSOR", "SENSOR_VERTICAL", "SENSOR_HORIZONTAL", "AUTO_ROTATION_RESTRICTED",
   "AUTO_ROTATION_PORTRAIT_RESTRICTED", "AUTO_ROTATION_LANDSCAPE_RESTRICTED", "LOCKED"}
ASSUME SrAssumption == /\ SrDevices \subseteq [landscape : BOOLEAN, bias : 0..3]
                       /\ SrOrientations \subseteq Orientations
                       /\ SrDegrees \subseteq -1..359 /\ SrCallsMax \in Nat

VARIABLES srDevice,
          srScreen, srOrientation, srRequested,  \* the screen: rotation_, orientation_, screenRequestedOrientation_
          srDisplay,                             \* rotation_ of the default display
          srLocked, srLockedRotation,            \* isScreenRotationLocked_, rotationLockedRotation_
          srLastType, srLastDecided, srConverted,\* lastOrientationType_, lastSensorDecidedRotation_, lastSensorRotationConverted_
          srSensor, srWindow, srUser,            \* what each thread is at
          srCalls, srRaced, srStale, srLast      \* history, see the properties
srVars == <<srDevice, srScreen, srOrientation, srRequested, srDisplay, srLocked, srLockedRotation, srLastType,
            srLastDecided, srConverted, srSensor, srWindow, srUser, srCalls, srRaced, srStale, srLast>>

SrIdle == [pc |-> "idle", orientation |-> "UNSPECIFIED", converted |-> Invalid, current |-> 0]
SrQuiet == srSensor = SrIdle /\ srWindow = SrIdle /\ srUser = SrIdle

(* CalcSensorRotation and CalcDeviceRotation *)
CalcSensorRotation(degree) == CASE degree \in (0..30) \cup (330..359) -> 0
                                [] degree \in 60..120  -> 1
                                [] degree \in 150..210 -> 2
                                [] degree \in 240..300 -> 3
                                [] OTHER -> Invalid
CalcDeviceRotation(sensor) ==
  LET turned == (sensor - srDevice.bias + 4) % 4 IN
  IF sensor = Invalid THEN Invalid
  ELSE IF ~srDevice.landscape THEN turned
  ELSE IF (turned + 1) % 2 = 0 THEN turned - 1 ELSE turned + 1
DevicePortrait(d)  == d \in {0, 2}
DeviceLandscape(d) == d \in {1, 3}
(* the entries of deviceToDisplayRotationMap_ *)
OnDisplay(d) == IF srDevice.landscape THEN <<1, 0, 3, 2>>[d + 1] ELSE d
ConvertDeviceToDisplayRotation(d) == IF d = Invalid THEN srDisplay ELSE OnDisplay(d)
DisplayVertical(r) == r \in {ConvertDeviceToDisplayRotation(0), ConvertDeviceToDisplayRotation(2)}

FixedDevice == [VERTICAL |-> 0, HORIZONTAL |-> 1, REVERSE_VERTICAL |-> 2, REVERSE_HORIZONTAL |-> 3]
(* AbstractScreen::CalcRotation, for what the user asks *)
CalcRotation(o) == IF o \in Fixed THEN OnDisplay(FixedDevice[o]) ELSE 0
RelatedUnlessFirstTwo(o) == o \notin {"VERTICAL", "HORIZONTAL", "LOCKED"}
IsSensorRelatedOrientation(o) == o \notin Fixed \cup {"LOCKED"}
RestrictedByLock == {"UNSPECIFIED", "AUTO_ROTATION_RESTRICTED", "AUTO_ROTATION_PORTRAIT_RESTRICTED",
                     "AUTO_ROTATION_LANDSCAPE_RESTRICTED"}
PortraitOnly  == {"SENSOR_VERTICAL", "AUTO_ROTATION_PORTRAIT_RESTRICTED"}
LandscapeOnly == {"SENSOR_HORIZONTAL", "AUTO_ROTATION_LANDSCAPE_RESTRICTED"}

SrInit == /\ srDevice \in SrDevices
          /\ srScreen = 0 /\ srOrientation = "UNSPECIFIED" /\ srRequested = "UNSPECIFIED" /\ srDisplay = 0
          /\ srLocked = TRUE /\ srLockedRotation = 0
          /\ srLastType = "UNSPECIFIED" /\ srLastDecided = 0 /\ srConverted = Invalid
          /\ srSensor = SrIdle /\ srWindow = SrIdle /\ srUser = SrIdle
          /\ srCalls = 0 /\ srRaced = FALSE /\ srStale = FALSE /\ srLast = "none"

SrCalled(thread) == /\ srCalls < SrCallsMax /\ srCalls' = srCalls + 1
                    /\ srRaced' = (srRaced \/ ~SrQuiet) /\ srLast' = thread

(* SetScreenRotation, and the display that follows the screen *)
SetScreenRotation(target) == IF target = srDisplay THEN UNCHANGED <<srScreen, srDisplay>>
                             ELSE srScreen' = target /\ srDisplay' = target

(* HandleGravitySensorEventCallback: it reads, and turns the display *)
SrSense(degree) ==
  LET converted == CalcDeviceRotation(CalcSensorRotation(degree)) IN
  /\ srSensor.pc = "idle" /\ SrCalled("sensor")
  /\ srConverted' = converted
  /\ srSensor' = IF \/ ~IsSensorRelatedOrientation(srOrientation) \/ converted = Invalid
                    \/ srDisplay = ConvertDeviceToDisplayRotation(converted)
                 THEN SrIdle
                 ELSE [pc |-> "turn", orientation |-> srOrientation, converted |-> converted, current |-> srDisplay]
  /\ UNCHANGED <<srDevice, srScreen, srOrientation, srRequested, srDisplay, srLocked, srLockedRotation,
                 srLastType, srLastDecided, srWindow, srUser, srStale>>
(* CalcTargetDisplayRotation: whether the event decides, or the display stays as it was *)
SensorDecidesAnyway(o, d) == TRUE
SensorDecides(o, d) == /\ ~(srLocked /\ o \in RestrictedByLock)
                       /\ o \in PortraitOnly => ~DeviceLandscape(d)
                       /\ o \in LandscapeOnly => ~DevicePortrait(d)
SrTurn == LET decides == SensorDecides(srSensor.orientation, srSensor.converted)
              to      == ConvertDeviceToDisplayRotation(srSensor.converted)
          IN /\ srSensor.pc = "turn" /\ srSensor' = SrIdle
             /\ srLastDecided' = IF decides THEN to ELSE srLastDecided
             /\ SetScreenRotation(IF decides THEN to ELSE srSensor.current)
             /\ UNCHANGED <<srDevice, srOrientation, srRequested, srLocked, srLockedRotation, srLastType,
                            srConverted, srWindow, srUser, srCalls, srRaced, srStale, srLast>>

(* ProcessOrientationSwitch: what the switch turns the display to, itself for no turn *)
LockedOr(horizontal) == IF DisplayVertical(srLockedRotation) # horizontal THEN srLockedRotation
                        ELSE ConvertDeviceToDisplayRotation(IF horizontal THEN 1 ELSE 0)
SwitchTarget(o) ==
  CASE o \in Fixed   -> ConvertDeviceToDisplayRotation(FixedDevice[o])
    [] o = "LOCKED"  -> srDisplay
    [] o \in {"UNSPECIFIED", "AUTO_ROTATION_RESTRICTED"} /\ srLocked -> srLockedRotation
    [] o \in {"UNSPECIFIED", "AUTO_ROTATION_RESTRICTED", "SENSOR"} /\ ~(srLocked /\ o # "SENSOR") ->
         IF srConverted # Invalid THEN srDisplay ELSE srLastDecided
    [] o \in PortraitOnly  -> IF DisplayVertical(srDisplay) THEN srDisplay
                              ELSE IF srLocked /\ o \in RestrictedByLock THEN LockedOr(FALSE)
                              ELSE IF DevicePortrait(srConverted) THEN srDisplay
                              ELSE ConvertDeviceToDisplayRotation(0)
    [] o \in LandscapeOnly -> IF ~DisplayVertical(srDisplay) THEN srDisplay
                              ELSE IF srLocked /\ o \in RestrictedByLock THEN LockedOr(TRUE)
                              ELSE IF DeviceLandscape(srConverted) THEN srDisplay
                              ELSE ConvertDeviceToDisplayRotation(1)

(* AbstractScreenController::SetOrientation for a window: the switch, skipped for the
   type that was switched to last, and then the orientation is stored            *)
SrWindowAsks(asked) ==
  LET o == IF asked = "UNSPECIFIED" THEN srRequested ELSE asked IN
  /\ srWindow.pc = "idle" /\ o # srOrientation /\ SrCalled("window")
  /\ srWindow' = [SrIdle EXCEPT !.pc = "store", !.orientation = o]
  /\ srLastType' = o
  /\ IF o = srLastType THEN UNCHANGED <<srScreen, srDisplay>> ELSE SetScreenRotation(SwitchTarget(o))
  /\ srStale' = (o = srLastType)
  /\ UNCHANGED <<srDevice, srOrientation, srRequested, srLocked, srLockedRotation, srLastDecided,
                 srConverted, srSensor, srUser>>
SrWindowStores == /\ srWindow.pc = "store" /\ srWindow' = SrIdle
                  /\ srOrientation' = srWindow.orientation /\ srDisplay' = srScreen
                  /\ UNCHANGED <<srDevice, srScreen, srRequested, srLocked, srLockedRotation, srLastType,
                                 srLastDecided, srConverted, srSensor, srUser, srCalls, srRaced, srStale, srLast>>

(* the same for the user: the controller is not told *)
SrUserAsks(o) ==
  /\ srUser.pc = "idle" /\ SrCalled("user")
  /\ srRequested' = o
  /\ IF o = srOrientation THEN UNCHANGED <<srScreen, srUser, srStale>>
     ELSE /\ srScreen' = CalcRotation(o) /\ srStale' = (o \notin Fixed)
          /\ srUser' = [SrIdle EXCEPT !.pc = "store", !.orientation = o]
  /\ UNCHANGED <<srDevice, srOrientation, srDisplay, srLocked, srLockedRotation, srLastType, srLastDecided,
                 srConverted, srSensor, srWindow>>
SrUserStores == /\ srUser.pc = "store" /\ srUser' = SrIdle
                /\ srOrientation' = srUser.orientation /\ srDisplay' = srScreen
                /\ UNCHANGED <<srDevice, srScreen, srRequested, srLocked, srLockedRotation, srLastType,
                               srLastDecided, srConverted, srSensor, srWindow, srCalls, srRaced, srStale, srLast>>

SetScreenRotationLocked(locked) ==
  /\ srUser.pc = "idle" /\ locked # srLocked /\ SrCalled("user") /\ srLocked' = locked
  /\ srLockedRotation' = IF locked THEN srDisplay ELSE srLockedRotation
  /\ UNCHANGED <<srDevice, srScreen, srOrientation, srRequested, srDisplay, srLastType, srLastDecided,
                 srConverted, srSensor, srWindow, srUser, srStale>>

SrNext == \/ \E degree \in SrDegrees : SrSense(degree)
          \/ SrTurn
          \/ \E o \in SrOrientations : SrWindowAsks(o)
          \/ SrWindowStores
          \/ \E o \in SrOrientations : SrUserAsks(o)
          \/ SrUserStores
          \/ \E locked \in BOOLEAN : SetScreenRotationLocked(locked)
SrSpec == SrInit /\ [][SrNext]_srVars

(* The display is turned as the orientation in force says: a fixed one to its
   rotation; with SENSOR, after an event, to the way the device is held, whatever its
   offset and its default rotation. Not so when the threads raced, or when the switch
   was skipped because the controller last saw the same type, before the user's.     *)
SrObeyed == SrQuiet /\ ~srRaced /\ ~srStale =>
  /\ srOrientation \in Fixed => srDisplay = CalcRotation(srOrientation)
  /\ srOrientation = "SENSOR" /\ srLast = "sensor" /\ srConverted # Invalid =>
       CalcDeviceRotation((srDisplay + srDevice.bias) % 4) = srConverted
  /\ srScreen = srDisplay

(* With the rotation locked, a window that leaves the rotation to the device is shown
   as the display was when it was locked: neither the sensor nor windows that turned
   the display meanwhile leave it otherwise.                                        *)
SrLockHolds == SrQuiet /\ ~srRaced /\ ~srStale /\ srLocked
               /\ srOrientation \in {"UNSPECIFIED", "AUTO_ROTATION_RESTRICTED"} => srDisplay = srLockedRotation
=============================================================================
