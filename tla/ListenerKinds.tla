----------------------------- MODULE ListenerKinds -----------------------------
(* The lists of listeners an application keeps: those of a window, of the window
   manager, of the display manager and of the screen manager, and the callbacks of
   JavaScript that become listeners.

   Registering (on): how the service comes to tell the list ("own": the window's
   own agent; "flag": the service is told when the list gets its first member;
   "kept" and "must": an agent is registered with the first member, and a refusal is
   ignored or refuses the listener), and whether the list has one place only (one).
   Unregistering (off): how the service is told that nobody listens ("own" never,
   "flag", "freed": the agent is unregistered), whether one that is not there ends
   the call (strict), and whether a second list with the same agent is heeded (heeds).
   Telling (tell): "ready" and "late" post to a thread of the list's own, which is
   there from the first task posted under the lock or made without it; "ipc" calls a
   copy of the list, or the list itself, on the thread of the message.           *)

Joins(agent) == [agent |-> agent, one |-> FALSE]
Leaves(agent) == [agent |-> agent, strict |-> FALSE, heeds |-> TRUE]
Strictly(row) == [row EXCEPT !.strict = TRUE]
Kind(on, off, tell, js) == [on |-> on, off |-> off, tell |-> tell, js |-> js, two |-> FALSE]

(* WindowImpl *)
RegisterLifeCycleListener              == Joins("own")
UnregisterLifeCycleListener            == Leaves("own")
NotifyAfterForeground                  == "ready"
RegisterWindowChangeListener           == Joins("own")
UnregisterWindowChangeListener         == Leaves("own")
NotifySizeChange                       == "ready"
RegisterAvoidAreaChangeListener        == Joins("flag")
UnregisterAvoidAreaUntold              == Leaves("own")
UnregisterAvoidAreaChangeListener      == Leaves("flag")
NotifyAvoidAreaChange                  == "ready"
RegisterDragListener                   == Joins("own")
UnregisterDragListener                 == Strictly(Leaves("own"))
UpdateDragEvent                        == "ready"
RegisterDisplayMoveListener            == Joins("own")
UnregisterDisplayMoveListener          == Strictly(Leaves("own"))
NotifyDisplayMoveChange                == "ready"
RegisterOccupiedAreaChangeListener     == Joins("own")
UnregisterOccupiedAreaChangeListener   == Leaves("own")
NotifyOccupiedAreaChange               == "ready"
RegisterTouchOutsideListener           == Joins("own")
UnregisterTouchOutsideListener         == Leaves("own")
NotifyTouchOutside                     == "ready"
RegisterScreenshotListener             == Joins("own")
UnregisterScreenshotListener           == Leaves("own")
NotifyScreenshot                       == "ready"
RegisterDialogTargetTouchListener      == Joins("own")
UnregisterDialogTargetTouchListener    == Leaves("own")
NotifyTouchDialogTarget                == "ready"
RegisterDialogDeathRecipientListener   == [Joins("own") EXCEPT !.one = TRUE]
UnregisterDialogDeathRecipientListener == Leaves("own")
OnDialogDeathRecipient                 == "ready"

(* WindowManager *)
RegisterFocusChangedListener             == Joins("kept")
UnregisterFocusChangedListener           == Strictly(Leaves("freed"))
NotifyFocused                            == "late"
NotifyUnfocused                          == "late"
RegisterSystemBarChangedListener         == Joins("kept")
UnregisterSystemBarChangedListener       == Strictly(Leaves("freed"))
NotifySystemBarChanged                   == "late"
RegisterWindowUpdateListener             == Joins("kept")
UnregisterWindowUpdateListener           == Strictly(Leaves("freed"))
NotifyAccessibilityWindowInfo            == "late"
RegisterVisibilityChangedListener        == Joins("kept")
UnregisterVisibilityChangedListener      == Leaves("freed")
NotifyWindowVisibilityInfoChanged        == "late"
RegisterCameraFloatWindowChangedListener == Joins("kept")
UnregisterCameraFloatWindowChangedListener == Strictly(Leaves("freed"))
UpdateCameraFloatWindowStatus            == "late"

(* DisplayManager and ScreenManager *)
RegisterDisplayListener             == Joins("must")
UnregisterDisplayListener           == Strictly(Leaves("freed"))
OnDisplayChange                     == "ipc"
RegisterDisplayPowerEventListener   == Joins("must")
UnregisterDisplayPowerEventListener == Strictly(Leaves("freed"))
NotifyDisplayPowerEvent             == "ipc"
RegisterScreenListener              == Joins("must")
UnregisterScreenListener            == Strictly(Leaves("freed"))
OnScreenChange                      == "ipc"
RegisterScreenGroupListener         == Joins("must")
UnregisterScreenGroupListener       == [Strictly(Leaves("freed")) EXCEPT !.heeds = FALSE]
OnScreenGroupChange                 == "ipc"

(* the listeners of JavaScript: those of a window are held weakly by the task they
   leave to the JavaScript thread, those of displays and screens are not         *)
OnSizeChange == "weak"
JsDisplayListenerOnChange == "bare"
JsScreenListenerOnChange  == "bare"

ProcessLifeCycleEventRegister        == Kind(RegisterLifeCycleListener, UnregisterLifeCycleListener, NotifyAfterForeground, OnSizeChange)
ProcessWindowChangeRegister          == Kind(RegisterWindowChangeListener, UnregisterWindowChangeListener, NotifySizeChange, OnSizeChange)
ProcessAvoidAreaChangeRegister       == Kind(RegisterAvoidAreaChangeListener, UnregisterAvoidAreaChangeListener, NotifyAvoidAreaChange, OnSizeChange)
ProcessSystemAvoidAreaChangeRegister == ProcessAvoidAreaChangeRegister
ProcessOccupiedAreaChangeRegister    == Kind(RegisterOccupiedAreaChangeListener, UnregisterOccupiedAreaChangeListener, NotifyOccupiedAreaChange, OnSizeChange)
ProcessTouchOutsideRegister          == Kind(RegisterTouchOutsideListener, UnregisterTouchOutsideListener, NotifyTouchOutside, OnSizeChange)
ProcessScreenshotRegister            == Kind(RegisterScreenshotListener, UnregisterScreenshotListener, NotifyScreenshot, OnSizeChange)
ProcessDialogTargetTouchRegister     == Kind(RegisterDialogTargetTouchListener, UnregisterDialogTargetTouchListener, NotifyTouchDialogTarget, OnSizeChange)
ProcessDialogDeathRecipientRegister  == Kind(RegisterDialogDeathRecipientListener, UnregisterDialogDeathRecipientListener, OnDialogDeathRecipient, OnSizeChange)
ProcessSystemBarChangeRegister       == Kind(RegisterSystemBarChangedListener, UnregisterSystemBarChangedListener, NotifySystemBarChanged, OnSizeChange)
RegisterDisplayListenerWithType      == Kind(RegisterDisplayListener, UnregisterDisplayListener, OnDisplayChange, JsDisplayListenerOnChange)
RegisterScreenListenerWithType       == Kind(RegisterScreenListener, UnregisterScreenListener, OnScreenChange, JsScreenListenerOnChange)

ScriptKinds == {ProcessLifeCycleEventRegister, ProcessWindowChangeRegister, ProcessAvoidAreaChangeRegister,
    ProcessSystemAvoidAreaChangeRegister, ProcessOccupiedAreaChangeRegister, ProcessTouchOutsideRegister,
    ProcessScreenshotRegister, ProcessDialogTargetTouchRegister, ProcessDialogDeathRecipientRegister,
    ProcessSystemBarChangeRegister, RegisterDisplayListenerWithType, RegisterScreenListenerWithType}

(* what native code registers itself; a screen manager has two lists for its agent *)
NativeKinds == {[RegisterScreenListenerWithType EXCEPT !.js = "none", !.two = TRUE]} \cup
   {[kind EXCEPT !.js = "none"] : kind \in ScriptKinds} \cup
   {Kind(RegisterDragListener, UnregisterDragListener, UpdateDragEvent, "none"),
    Kind(RegisterDisplayMoveListener, UnregisterDisplayMoveListener, NotifyDisplayMoveChange, "none"),
    Kind(RegisterFocusChangedListener, UnregisterFocusChangedListener, NotifyFocused, "none"),
    Kind(RegisterFocusChangedListener, UnregisterFocusChangedListener, NotifyUnfocused, "none"),
    Kind(RegisterWindowUpdateListener, UnregisterWindowUpdateListener, NotifyAccessibilityWindowInfo, "none"),
    Kind(RegisterVisibilityChangedListener, UnregisterVisibilityChangedListener, NotifyWindowVisibilityInfoChanged, "none"),
    Kind(RegisterCameraFloatWindowChangedListener, UnregisterCameraFloatWindowChangedListener, UpdateCameraFloatWindowStatus, "none"),
    Kind(RegisterDisplayPowerEventListener, UnregisterDisplayPowerEventListener, NotifyDisplayPowerEvent, "none")}
=============================================================================
