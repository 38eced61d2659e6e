------------------------------ MODULE JsFunctions ------------------------------
(* What the objects of JavaScript can be asked: the window, the window stage, the
   managers of windows, displays and screens, a screen, a display and a recorder.
   Every function is described by a row: what it does with the window (op), where a
   null window is noticed (check: "task", "call" or "never"; "none" without one),
   whether it reads an argument behind too few (beyond), whether its task returns
   after a rejection (stops), heeds the result of the call (heeds), holds the native
   object by a bare pointer (bare) or loses an argument it holds weakly (loses),
   whether bad arguments end it without a promise (mute), whether there is a promise
   at all (async), and whether it is known to settle its promise twice (twice), see
   JsWindow. How many arguments it takes and how they are read is left out: they are
   bad or not.                                                                    *)

Async(op) == [op |-> op, check |-> "task", beyond |-> FALSE, stops |-> TRUE, heeds |-> TRUE, bare |-> FALSE,
              loses |-> FALSE, mute |-> FALSE, async |-> TRUE, twice |-> FALSE]
Careless(op) == [Async(op) EXCEPT !.heeds = FALSE]
Twice(row) == [row EXCEPT !.stops = FALSE, !.twice = TRUE]
Sync(op) == [Async(op) EXCEPT !.check = "call", !.async = FALSE, !.heeds = FALSE]
Manager(op) == [Async(op) EXCEPT !.check = "none"]
Mute(op) == [Manager(op) EXCEPT !.mute = TRUE]
Bare(op) == [Manager(op) EXCEPT !.bare = TRUE]
Beyond(row) == [row EXCEPT !.beyond = TRUE]

(* JsWindow *)
OnShow               == Async("show")
OnShowWithAnimation  == [Async("show") EXCEPT !.check = "never"]
OnDestroy            == Async("destroy")
OnHide               == Async("hide")
OnHideWithAnimation  == [Async("hide") EXCEPT !.check = "never"]
OnMoveTo             == Async("set")
OnResize             == Async("set")
OnSetWindowType      == Async("ask")
OnSetWindowMode      == Beyond(Async("set"))
OnGetProperties      == Async("ask")
OnRegisterWindowCallback   == Sync("tell")
OnUnregisterWindowCallback == Sync("tell")
OnBindDialogTarget   == Beyond([Async("ask") EXCEPT !.check = "call"])
OnLoadContent        == [Async("ask") EXCEPT !.loses = TRUE]
OnSetFullScreen      == Async("ask")
OnSetLayoutFullScreen == Async("ask")
OnSetSystemBarEnable == [Async("bars") EXCEPT !.check = "call"]
OnSetSystemBarProperties == Twice([Async("bars") EXCEPT !.check = "never"])
OnGetAvoidArea       == Careless("ask")
OnIsShowing          == Async("tell")
OnSetPreferredOrientation == Careless("set")
OnIsSupportWideGamut == Async("tell")
OnSetBackgroundColor == Async("ask")
OnSetBrightness      == Async("set")
OnSetDimBehind       == Async("refuse")
OnSetFocusable       == Async("set")
OnSetKeepScreenOn    == Async("set")
OnSetWakeUpScreen    == Sync("set")
OnSetOutsideTouchable == Async("refuse")
OnSetPrivacyMode     == Careless("set")
OnSetTouchable       == Async("set")
OnSetTransparent     == Async("ask")
OnSetCallingWindow   == Async("set")
OnDisableWindowDecor == Sync("tell")
OnSetColorSpace      == Async("tell")
OnGetColorSpace      == Async("tell")
OnDump               == Sync("tell")
OnSetForbidSplitMove == Async("set")
OnSnapshot           == Async("ask")
OnSetSnapshotSkip    == Async("tell")
OnOpacity            == Sync("tell")
OnScale              == Sync("set")
OnRotate             == Sync("set")
OnTranslate          == Sync("set")
OnGetTransitionController == Sync("tell")
OnSetCornerRadius    == Sync("ask")
OnSetShadow          == Sync("ask")
OnSetBlur            == Sync("ask")
OnSetBackdropBlur    == Sync("ask")
OnSetBackdropBlurStyle == Sync("ask")

(* JsWindowStage, whose scene holds the main window *)
StageSetUIContent    == Sync("ask")
StageGetMainWindow   == Beyond(Async("ask"))
StageOnEvent         == Sync("tell")
StageOffEvent        == Beyond(Sync("tell"))
StageLoadContent     == Beyond([Async("ask") EXCEPT !.loses = TRUE])
StageGetWindowMode   == Beyond(Async("tell"))
StageCreateSubWindow == Beyond(Async("ask"))
StageGetSubWindow    == Beyond(Async("tell"))
StageSetShowOnLockScreen == Sync("set")
StageDisableWindowDecor  == Sync("tell")

(* JsTransitionContext: an animation that was not completed takes the window back *)
CompleteShown  == Async("hide")
CompleteHidden == Async("show")

(* JsWindowManager *)
OnCreateWindow == Bare("ask")
OnFindWindow   == Manager("ask")
OnMinimizeAll  == Manager("tell")
OnToggleShownStateForAllAppWindows == Manager("ask")
OnRegisterWindowMangerCallback     == Sync("tell")
OnUnregisterWindowManagerCallback  == Sync("tell")
OnGetTopWindow        == Bare("ask")
OnSetWindowLayoutMode == Manager("ask")

(* JsDisplayManager and JsDisplay *)
OnGetDefaultDisplay == Twice(Manager("ask"))
OnGetDefaultDisplaySync == Sync("ask")
OnGetAllDisplay     == Twice(Manager("ask"))
OnRegisterDisplayManagerCallback   == Sync("tell")
OnUnregisterDisplayManagerCallback == Sync("tell")
OnHasPrivateWindow  == Sync("ask")
OnGetCutoutInfo     == Bare("ask")

(* JsScreenManager and JsScreen *)
OnGetAllScreensGoesOn == [Manager("ask") EXCEPT !.stops = FALSE]
OnGetAllScreens == Manager("ask")
OnRegisterScreenMangerCallback    == Sync("tell")
OnUnregisterScreenManagerCallback == Sync("tell")
OnMakeMirror    == Mute("ask")
OnMakeExpand    == Mute("ask")
OnCreateVirtualScreen     == Manager("ask")
OnDestroyVirtualScreen    == Manager("ask")
OnSetVirtualScreenSurface == Manager("ask")
OnIsScreenRotationLocked  == Manager("tell")
OnSetScreenRotationLocked == Manager("tell")
OnSetOrientation      == Bare("ask")
OnSetScreenActiveMode == Bare("ask")
OnSetDensityDpi       == Bare("ask")

(* JsScreenRecorder and JsVirtualScreenRecorder *)
OnGetVirtualScreenRecorder == Manager("ask")
OnGetInputSurface == Bare("ask")
OnStart           == Bare("ask")
OnStop            == Bare("ask")

(* the functions the window is given, and those of the other objects *)
BindFunctions ==
    {OnShow, OnShowWithAnimation, OnDestroy, OnHide, OnHideWithAnimation, OnMoveTo, OnResize,
     OnSetWindowType, OnSetWindowMode, OnGetProperties, OnRegisterWindowCallback,
     OnUnregisterWindowCallback, OnBindDialogTarget, OnLoadContent, OnSetFullScreen,
     OnSetLayoutFullScreen, OnSetSystemBarEnable, OnSetSystemBarProperties, OnGetAvoidArea,
     OnIsShowing, OnSetPreferredOrientation, OnIsSupportWideGamut, OnSetBackgroundColor,
     OnSetBrightness, OnSetDimBehind, OnSetFocusable, OnSetKeepScreenOn, OnSetWakeUpScreen,
     OnSetOutsideTouchable, OnSetPrivacyMode, OnSetTouchable, OnSetTransparent,
     OnSetCallingWindow, OnDisableWindowDecor, OnSetColorSpace, OnGetColorSpace, OnDump,
     OnSetForbidSplitMove, OnSnapshot, OnSetSnapshotSkip, OnOpacity, OnScale, OnRotate,
     OnTranslate, OnGetTransitionController, OnSetCornerRadius, OnSetShadow, OnSetBlur,
     OnSetBackdropBlur, OnSetBackdropBlurStyle}
JsStageFunctions ==
    {StageSetUIContent, StageGetMainWindow, StageOnEvent, StageOffEvent,
     StageLoadContent, StageGetWindowMode, StageCreateSubWindow, StageGetSubWindow,
     StageSetShowOnLockScreen, StageDisableWindowDecor, CompleteShown, CompleteHidden}
JsManagerFunctions ==
    {OnCreateWindow, OnFindWindow, OnMinimizeAll, OnToggleShownStateForAllAppWindows,
     OnRegisterWindowMangerCallback, OnUnregisterWindowManagerCallback, OnGetTopWindow,
     OnSetWindowLayoutMode, OnGetDefaultDisplay, OnGetDefaultDisplaySync,
     OnGetAllDisplay, OnRegisterDisplayManagerCallback,
     OnUnregisterDisplayManagerCallback, OnHasPrivateWindow, OnGetCutoutInfo,
     OnGetAllScreens, OnRegisterScreenMangerCallback, OnUnregisterScreenManagerCallback,
     OnMakeMirror, OnMakeExpand, OnCreateVirtualScreen, OnDestroyVirtualScreen,
     OnSetVirtualScreenSurface, OnIsScreenRotationLocked, OnSetScreenRotationLocked,
     OnSetOrientation, OnSetScreenActiveMode, OnSetDensityDpi,
     OnGetVirtualScreenRecorder, OnGetInputSurface, OnStart, OnStop}
=============================================================================
