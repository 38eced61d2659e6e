----------------------------- MODULE WindowMessages -----------------------------
(* The messages of the window manager: IWindowManager (clients to the service),
   IWindow (the service to one window), IWindowManagerAgent (the service to the
   listeners of a process) and the two interfaces of the window extension. One
   definition per proxy function and one per case of OnRemoteRequest.          *)
EXTENDS IpcFields

(* the three rectangles of ModeChangeHotZones, in the order they are written *)
HotZoneFields == <<"fullscreen.posX", "fullscreen.posY", "fullscreen.width", "fullscreen.height",
                   "primary.posX", "primary.posY", "primary.width", "primary.height",
                   "secondary.posX", "secondary.posY", "secondary.width", "secondary.height">>

(* WindowManagerProxy *)
ProxyCreateWindow == Call("CreateWindow", "CREATE_WINDOW",
    <<O("window"), P("property"), P("surfaceNode"), Opt(O("token"))>>, <<W("windowId"), W("ret")>>)
ProxyAddWindow == Call("AddWindow", "ADD_WINDOW", <<P("property")>>, <<W("ret")>>)
ProxyRemoveWindow == Call("RemoveWindow", "REMOVE_WINDOW", <<W("windowId")>>, <<W("ret")>>)
ProxyDestroyWindow == Call("DestroyWindow", "DESTROY_WINDOW", <<W("windowId")>>, <<W("ret")>>)
ProxyRequestFocus == Call("RequestFocus", "REQUEST_FOCUS", <<W("windowId")>>, <<W("ret")>>)
ProxyGetAvoidAreaByType == Call("GetAvoidAreaByType", "GET_AVOID_AREA",
    <<W("windowId"), W("type")>>, <<P("avoidArea")>>)
ProxyRegisterWindowManagerAgent == Tell("RegisterWindowManagerAgent", "REGISTER_WINDOW_MANAGER_AGENT",
    <<W("type"), O("agent")>>)
ProxyUnregisterWindowManagerAgent == Tell("UnregisterWindowManagerAgent",
    "UNREGISTER_WINDOW_MANAGER_AGENT", <<W("type"), O("agent")>>)
ProxySetWindowAnimationController == Call("SetWindowAnimationController", "ANIMATION_SET_CONTROLLER",
    <<O("controller")>>, <<W("ret")>>)
ProxyNotifyServerReadyToMoveOrDrag == Tell("NotifyServerReadyToMoveOrDrag", "NOTIFY_READY_MOVE_OR_DRAG",
    <<W("windowId"), P("windowProperty"), P("moveDragProperty")>>)
ProxyProcessPointDown == Tell("ProcessPointDown", "PROCESS_POINT_DOWN", <<W("windowId")>>)
ProxyProcessPointUp == Tell("ProcessPointUp", "PROCESS_POINT_UP", <<W("windowId")>>)
ProxyMinimizeAllAppWindows == Tell("MinimizeAllAppWindows", "MINIMIZE_ALL_APP_WINDOWS", <<D("displayId")>>)
ProxyToggleShownState == Call("ToggleShownStateForAllAppWindows",
    "TOGGLE_SHOWN_STATE_FOR_ALL_APP_WINDOWS", <<>>, <<W("ret")>>)
ProxySetWindowLayoutMode == Call("SetWindowLayoutMode", "UPDATE_LAYOUT_MODE", <<W("mode")>>, <<W("ret")>>)
ProxyUpdateProperty == Call("UpdateProperty", "UPDATE_PROPERTY",
    <<W("action"), P("windowProperty")>>, <<W("ret")>>)
ProxyGetTopWindowId == Call("GetTopWindowId", "GET_TOP_WINDOW_ID",
    <<W("mainWinId")>>, <<W("topWinId"), W("ret")>>)
ProxyGetAccessibilityWindowInfo == Call("GetAccessibilityWindowInfo",
    "GET_ACCESSIBILITY_WINDOW_INFO_ID", <<P("windowInfo")>>, <<P("windowInfo"), W("ret")>>)
ProxyGetSystemConfig == Call("GetSystemConfig", "GET_SYSTEM_CONFIG", <<>>, <<P("config"), W("ret")>>)
ProxyNotifyWindowTransition == Call("NotifyWindowTransition", "NOTIFY_WINDOW_TRANSITION",
    <<P("from"), P("to"), W("isFromClient")>>, <<W("ret")>>)
ProxyGetModeChangeHotZones == Call("GetModeChangeHotZones", "GET_FULLSCREEN_AND_SPLIT_HOT_ZONE",
    <<D("displayId")>>, <<W("ret")>> \o [i \in 1 .. 12 |-> IfOk(W(HotZoneFields[i]))])
ProxyMinimizeWindowsByLauncher == Call("MinimizeWindowsByLauncher", "GET_ANIMATION_CALLBACK",
    <<V("windowIds"), W("isAnimated")>>, <<W("hasCallback"), IfOk(O("finishCallback"))>>)
ProxyUpdateAvoidAreaListener == Call("UpdateAvoidAreaListener", "UPDATE_AVOIDAREA_LISTENER",
    <<W("windowId"), W("haveListener")>>, <<W("ret")>>)
ProxyUpdateRsTree == [Call("UpdateRsTree", "UPDATE_RS_TREE", <<W("windowId"), W("isAdd")>>, <<W("ret")>>)
    EXCEPT !.waits = FALSE]
ProxyBindDialogTarget == Call("BindDialogTarget", "BIND_DIALOG_TARGET",
    <<W("windowId"), Opt(O("targetToken"))>>, <<W("ret")>>)

(* WindowManagerStub *)
StubCreateWindow == Case("CREATE_WINDOW",
    <<O("window"), P("property"), P("surfaceNode"), Opt(O("token"))>>, "CreateWindow",
    <<W("windowId"), W("ret")>>)
StubAddWindow == Case("ADD_WINDOW", <<P("property")>>, "AddWindow", <<W("ret")>>)
StubRemoveWindow == Case("REMOVE_WINDOW", <<W("windowId")>>, "RemoveWindow", <<W("ret")>>)
StubDestroyWindow == Case("DESTROY_WINDOW", <<W("windowId")>>, "DestroyWindow", <<W("ret")>>)
StubRequestFocus == Case("REQUEST_FOCUS", <<W("windowId")>>, "RequestFocus", <<W("ret")>>)
StubGetAvoidAreaByType == Case("GET_AVOID_AREA", <<W("windowId"), W("type")>>, "GetAvoidAreaByType",
    <<P("avoidArea")>>)
StubRegisterWindowManagerAgent == Case("REGISTER_WINDOW_MANAGER_AGENT", <<W("type"), O("agent")>>,
    "RegisterWindowManagerAgent", <<>>)
StubUnregisterWindowManagerAgent == Case("UNREGISTER_WINDOW_MANAGER_AGENT", <<W("type"), O("agent")>>,
    "UnregisterWindowManagerAgent", <<>>)
StubNotifyServerReadyToMoveOrDrag == Case("NOTIFY_READY_MOVE_OR_DRAG",
    <<W("windowId"), P("windowProperty"), P("moveDragProperty")>>, "NotifyServerReadyToMoveOrDrag", <<>>)
StubProcessPointDown == Case("PROCESS_POINT_DOWN", <<W("windowId")>>, "ProcessPointDown", <<>>)
StubProcessPointUp == Case("PROCESS_POINT_UP", <<W("windowId")>>, "ProcessPointUp", <<>>)
StubTopWindowLast == Case("GET_TOP_WINDOW_ID", <<W("mainWinId")>>, "GetTopWindowId",
    <<W("ret"), W("topWinId")>>)
StubGetTopWindowId == Case("GET_TOP_WINDOW_ID", <<W("mainWinId")>>, "GetTopWindowId",
    <<W("topWinId"), W("ret")>>)
StubMinimizeAllAppWindows == Case("MINIMIZE_ALL_APP_WINDOWS", <<D("displayId")>>,
    "MinimizeAllAppWindows", <<>>)
StubToggleShownState == Case("TOGGLE_SHOWN_STATE_FOR_ALL_APP_WINDOWS", <<>>,
    "ToggleShownStateForAllAppWindows", <<W("ret")>>)
StubSetWindowLayoutMode == Case("UPDATE_LAYOUT_MODE", <<W("mode")>>, "SetWindowLayoutMode", <<W("ret")>>)
StubUpdateProperty == Case("UPDATE_PROPERTY", <<W("action"), P("windowProperty")>>, "UpdateProperty",
    <<W("ret")>>)
StubGetAccessibilityWindowInfo == Case("GET_ACCESSIBILITY_WINDOW_INFO_ID", <<P("windowInfo")>>,
    "GetAccessibilityWindowInfo", <<P("windowInfo"), W("ret")>>)
StubSetWindowAnimationController == Case("ANIMATION_SET_CONTROLLER", <<O("controller")>>,
    "SetWindowAnimationController", <<W("ret")>>)
StubGetSystemConfig == Case("GET_SYSTEM_CONFIG", <<>>, "GetSystemConfig", <<P("config"), W("ret")>>)
StubNotifyWindowTransition == Case("NOTIFY_WINDOW_TRANSITION", <<P("from"), P("to"), W("isFromClient")>>,
    "NotifyWindowTransition", <<W("ret")>>)
StubGetModeChangeHotZones == Case("GET_FULLSCREEN_AND_SPLIT_HOT_ZONE", <<D("displayId")>>,
    "GetModeChangeHotZones", <<W("ret")>> \o [i \in 1 .. 12 |-> W(HotZoneFields[i])])
StubMinimizeWindowsByLauncher == Case("GET_ANIMATION_CALLBACK", <<V("windowIds"), W("isAnimated")>>,
    "MinimizeWindowsByLauncher", <<W("hasCallback"), IfOk(O("finishCallback"))>>)
StubUpdateAvoidAreaListener == Case("UPDATE_AVOIDAREA_LISTENER", <<W("windowId"), W("haveListener")>>,
    "UpdateAvoidAreaListener", <<W("ret")>>)
StubUpdateRsTree == Case("UPDATE_RS_TREE", <<W("windowId"), W("isAdd")>>, "UpdateRsTree", <<W("ret")>>)
StubBindDialogTarget == Case("BIND_DIALOG_TARGET", <<W("windowId"), O("targetToken")>>,
    "BindDialogTarget", <<W("ret")>>)

(* WindowProxy *)
ProxyUpdateWindowRect == Post("UpdateWindowRect", "UPDATE_WINDOW_RECT",
    <<W("posX"), W("posY"), W("width"), W("height"), W("decoStatus"), W("reason")>>)
ProxyUpdateWindowMode == Post("UpdateWindowMode", "UPDATE_WINDOW_MODE", <<W("mode")>>)
ProxyUpdateWindowModeSupportInfo == Post("UpdateWindowModeSupportInfo", "UPDATE_MODE_SUPPORT_INFO",
    <<W("modeSupportInfo")>>)
ProxyUpdateFocusStatus == Post("UpdateFocusStatus", "UPDATE_FOCUS_STATUS", <<W("focused")>>)
ProxyUpdateAvoidArea == Post("UpdateAvoidArea", "UPDATE_AVOID_AREA", <<P("avoidArea"), W("type")>>)
ProxyUpdateWindowState == Post("UpdateWindowState", "UPDATE_WINDOW_STATE", <<W("state")>>)
ProxyUpdateWindowDragInfo == Post("UpdateWindowDragInfo", "UPDATE_DRAG_EVENT",
    <<W("x"), W("y"), W("event")>>)
ProxyUpdateDisplayId == Post("UpdateDisplayId", "UPDATE_DISPLAY_ID", <<D("from"), D("to")>>)
ProxyUpdateOccupiedAreaChangeInfo == Post("UpdateOccupiedAreaChangeInfo", "UPDATE_OCCUPIED_AREA",
    <<P("info")>>)
ProxyUpdateActiveStatus == Post("UpdateActiveStatus", "UPDATE_ACTIVE_STATUS", <<W("isActive")>>)
ProxyGetWindowProperty == Call("GetWindowProperty", "GET_WINDOW_PROPERTY", <<>>, <<P("property")>>)
ProxyNotifyTouchOutside == Post("NotifyTouchOutside", "NOTIFY_OUTSIDE_PRESSED", <<>>)
ProxyNotifyScreenshot == Post("NotifyScreenshot", "NOTIFY_SCREEN_SHOT", <<>>)
ProxyDumpInfo == Call("DumpInfo", "DUMP_INFO", <<V("params")>>, <<V("info")>>)
ProxyNotifyDestroy == Post("NotifyDestroy", "NOTIFY_DESTROY", <<>>)
ProxyNotifyWindowClientPointUp == Post("NotifyWindowClientPointUp", "NOTIFY_CLIENT_POINT_UP",
    <<P("pointerEvent")>>)

(* WindowStub; UpdateDisplayId reads its two arguments in the order clang
   evaluates them, from left to right                                          *)
StubUpdateWindowRect == Case("UPDATE_WINDOW_RECT",
    <<W("posX"), W("posY"), W("width"), W("height"), W("decoStatus"), W("reason")>>, "UpdateWindowRect", <<>>)
StubUpdateWindowMode == Case("UPDATE_WINDOW_MODE", <<W("mode")>>, "UpdateWindowMode", <<>>)
StubUpdateWindowModeSupportInfo == Case("UPDATE_MODE_SUPPORT_INFO", <<W("modeSupportInfo")>>,
    "UpdateWindowModeSupportInfo", <<>>)
StubUpdateFocusStatus == Case("UPDATE_FOCUS_STATUS", <<W("focused")>>, "UpdateFocusStatus", <<>>)
StubUpdateAvoidArea == Case("UPDATE_AVOID_AREA", <<P("avoidArea"), W("type")>>, "UpdateAvoidArea", <<>>)
StubUpdateWindowState == Case("UPDATE_WINDOW_STATE", <<W("state")>>, "UpdateWindowState", <<>>)
StubUpdateWindowDragInfo == Case("UPDATE_DRAG_EVENT", <<W("x"), W("y"), W("event")>>,
    "UpdateWindowDragInfo", <<>>)
StubUpdateDisplayId == Case("UPDATE_DISPLAY_ID", <<D("from"), D("to")>>, "UpdateDisplayId", <<>>)
StubUpdateOccupiedAreaChangeInfo == Case("UPDATE_OCCUPIED_AREA", <<P("info")>>,
    "UpdateOccupiedAreaChangeInfo", <<>>)
StubUpdateActiveStatus == Case("UPDATE_ACTIVE_STATUS", <<W("isActive")>>, "UpdateActiveStatus", <<>>)
StubGetWindowProperty == Case("GET_WINDOW_PROPERTY", <<>>, "GetWindowProperty", <<P("property")>>)
StubNotifyTouchOutside == Case("NOTIFY_OUTSIDE_PRESSED", <<>>, "NotifyTouchOutside", <<>>)
StubNotifyScreenshot == Case("NOTIFY_SCREEN_SHOT", <<>>, "NotifyScreenshot", <<>>)
StubNotifyDestroy == Case("NOTIFY_DESTROY", <<>>, "NotifyDestroy", <<>>)
StubDumpInfo == Case("DUMP_INFO", <<V("params")>>, "DumpInfo", <<V("info")>>)
StubNotifyWindowClientPointUp == Case("NOTIFY_CLIENT_POINT_UP", <<P("pointerEvent")>>,
    "NotifyWindowClientPointUp", <<>>)

(* WindowManagerAgentProxy; the token of a focus change is left out when it is null *)
ProxyUpdateFocusChangeInfo == Post("UpdateFocusChangeInfo", "UPDATE_FOCUS",
    <<P("info"), Opt(O("abilityToken")), W("focused")>>)
ProxyUpdateSystemBarRegionTints == Post("UpdateSystemBarRegionTints", "UPDATE_SYSTEM_BAR_PROPS",
    <<D("displayId"), V("tints")>>)
ProxyNotifyAccessibilityWindowInfo == Post("NotifyAccessibilityWindowInfo", "UPDATE_WINDOW_STATUS",
    <<P("windowInfo"), W("type")>>)
ProxyUpdateWindowVisibilityInfo == Post("UpdateWindowVisibilityInfo", "UPDATE_WINDOW_VISIBILITY",
    <<V("visibilityInfos")>>)
ProxyUpdateCameraFloatWindowStatus == Post("UpdateCameraFloatWindowStatus", "UPDATE_CAMERA_FLOAT",
    <<W("accessTokenId"), W("isShowing")>>)

(* WindowManagerAgentStub *)
StubUpdateFocusChangeInfo == Case("UPDATE_FOCUS", <<P("info"), O("abilityToken"), W("focused")>>,
    "UpdateFocusChangeInfo", <<>>)
StubUpdateSystemBarRegionTints == Case("UPDATE_SYSTEM_BAR_PROPS", <<D("displayId"), V("tints")>>,
    "UpdateSystemBarRegionTints", <<>>)
StubNotifyAccessibilityWindowInfo == Case("UPDATE_WINDOW_STATUS", <<P("windowInfo"), W("type")>>,
    "NotifyAccessibilityWindowInfo", <<>>)
StubUpdateWindowVisibilityInfo == Case("UPDATE_WINDOW_VISIBILITY", <<V("visibilityInfos")>>,
    "UpdateWindowVisibilityInfo", <<>>)
StubUpdateCameraFloatWindowStatus == Case("UPDATE_CAMERA_FLOAT", <<W("accessTokenId"), W("isShowing")>>,
    "UpdateCameraFloatWindowStatus", <<>>)

(* WindowExtensionProxy writes the height before the width, and its RequestFocus
   sends nothing at all                                                        *)
ProxySetBounds == Tell("SetBounds", "SETBOUNDS", <<W("posX"), W("posY"), W("height"), W("width")>>)
ProxyHideExtension == Tell("Hide", "HIDE_WINDOW", <<>>)
ProxyShowExtension == Tell("Show", "SHOW_WINDOW", <<>>)
ProxyGetExtensionWindow == Tell("GetExtensionWindow", "CONNECT_TO_EXTENSION", <<O("token")>>)

(* WindowExtensionStub *)
StubSetBounds == Case("SETBOUNDS", <<W("posX"), W("posY"), W("width"), W("height")>>, "SetBounds", <<>>)
StubHideExtension == Case("HIDE_WINDOW", <<>>, "Hide", <<>>)
StubShowExtension == Case("SHOW_WINDOW", <<>>, "Show", <<>>)
StubRequestFocusExtension == Case("REQUESTFOCUS", <<>>, "RequestFocus", <<>>)
StubGetExtensionWindow == Case("CONNECT_TO_EXTENSION", <<O("token")>>, "GetExtensionWindow", <<>>)

(* WindowExtensionClientProxy and WindowExtensionClientStub *)
ProxyOnWindowReady == Tell("OnWindowReady", "ON_WINDOW_READY", <<P("surfaceNode")>>)
ProxyOnBackPress == Tell("OnBackPress", "ON_BACK_PRESS", <<>>)
ProxyOnKeyEvent == Tell("OnKeyEvent", "ON_KEY_EVENT", <<P("keyEvent")>>)
ProxyOnPointerEvent == Tell("OnPointerEvent", "ON_POINTER_EVENT", <<P("pointerEvent")>>)
StubOnWindowReady == Case("ON_WINDOW_READY", <<P("surfaceNode")>>, "OnWindowReady", <<>>)
StubOnBackPress == Case("ON_BACK_PRESS", <<>>, "OnBackPress", <<>>)
StubOnKeyEvent == Case("ON_KEY_EVENT", <<P("keyEvent")>>, "OnKeyEvent", <<>>)
StubOnPointerEvent == Case("ON_POINTER_EVENT", <<P("pointerEvent")>>, "OnPointerEvent", <<>>)
=============================================================================
