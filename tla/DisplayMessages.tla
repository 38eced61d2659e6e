----------------------------- MODULE DisplayMessages -----------------------------
(* The messages of the display manager: IDisplayManager (clients to the service)
   and IDisplayManagerAgent (the service to the listeners of a process).       *)
EXTENDS IpcFields

(* DisplayManagerProxy *)
ProxyGetDefaultDisplayInfo == Call("GetDefaultDisplayInfo", "GET_DEFAULT_DISPLAY_INFO", <<>>, <<P("info")>>)
ProxyGetDisplayInfoById == Call("GetDisplayInfoById", "GET_DISPLAY_BY_ID", <<D("displayId")>>, <<P("info")>>)
ProxyGetDisplayInfoByScreen == Call("GetDisplayInfoByScreen", "GET_DISPLAY_BY_SCREEN",
    <<D("screenId")>>, <<P("info")>>)
ProxyCreateVirtualScreen == Call("CreateVirtualScreen", "CREATE_VIRTUAL_SCREEN",
    <<S("name"), W("width"), W("height"), W("density"), W("flags"), W("isForShot"),
      W("isSurfaceValid"), Opt(O("surface")), Opt(O("agent"))>>, <<D("screenId")>>)
ProxyDestroyVirtualScreen == Call("DestroyVirtualScreen", "DESTROY_VIRTUAL_SCREEN",
    <<D("screenId")>>, <<W("ret")>>)
ProxySetVirtualScreenSurface == Call("SetVirtualScreenSurface", "SET_VIRTUAL_SCREEN_SURFACE",
    <<D("screenId"), W("isSurfaceValid"), Opt(O("surface"))>>, <<W("ret")>>)
ProxySetOrientation == Call("SetOrientation", "SET_ORIENTATION",
    <<D("screenId"), W("orientation")>>, <<W("ret")>>)
ProxyGetDisplaySnapshot == Call("GetDisplaySnapshot", "GET_DISPLAY_SNAPSHOT",
    <<D("displayId")>>, <<P("snapshot")>>)
ProxyGetScreenSupportedColorGamuts == Call("GetScreenSupportedColorGamuts",
    "SCREEN_GET_SUPPORTED_COLOR_GAMUTS", <<D("screenId")>>, <<W("ret"), IfOk(V("colorGamuts"))>>)
ProxyGetScreenColorGamut == Call("GetScreenColorGamut", "SCREEN_GET_COLOR_GAMUT",
    <<D("screenId")>>, <<W("ret"), IfOk(W("colorGamut"))>>)
ProxySetScreenColorGamut == Call("SetScreenColorGamut", "SCREEN_SET_COLOR_GAMUT",
    <<D("screenId"), W("colorGamutIdx")>>, <<W("ret")>>)
ProxyGetScreenGamutMap == Call("GetScreenGamutMap", "SCREEN_GET_GAMUT_MAP",
    <<D("screenId")>>, <<W("ret"), IfOk(W("gamutMap"))>>)
ProxySetScreenGamutMap == Call("SetScreenGamutMap", "SCREEN_SET_GAMUT_MAP",
    <<D("screenId"), W("gamutMap")>>, <<W("ret")>>)
ProxySetScreenColorTransform == Call("SetScreenColorTransform", "SCREEN_SET_COLOR_TRANSFORM",
    <<D("screenId")>>, <<W("ret")>>)
ProxyRegisterDisplayManagerAgent == Call("RegisterDisplayManagerAgent",
    "REGISTER_DISPLAY_MANAGER_AGENT", <<O("agent"), W("type")>>, <<W("ret")>>)
ProxyUnregisterDisplayManagerAgent == Call("UnregisterDisplayManagerAgent",
    "UNREGISTER_DISPLAY_MANAGER_AGENT", <<O("agent"), W("type")>>, <<W("ret")>>)
ProxyWakeUpBegin == Call("WakeUpBegin", "WAKE_UP_BEGIN", <<W("reason")>>, <<W("ret")>>)
ProxyWakeUpEnd == Call("WakeUpEnd", "WAKE_UP_END", <<>>, <<W("ret")>>)
ProxySuspendBegin == Call("SuspendBegin", "SUSPEND_BEGIN", <<W("reason")>>, <<W("ret")>>)
ProxySuspendEnd == Call("SuspendEnd", "SUSPEND_END", <<>>, <<W("ret")>>)
ProxySetScreenPowerForAll == Call("SetScreenPowerForAll", "SET_SCREEN_POWER_FOR_ALL",
    <<W("state"), W("reason")>>, <<W("ret")>>)
ProxyGetScreenPower == Call("GetScreenPower", "GET_SCREEN_POWER", <<D("screenId")>>, <<W("state")>>)
ProxySetDisplayState == Call("SetDisplayState", "SET_DISPLAY_STATE", <<W("state")>>, <<W("ret")>>)
ProxyGetDisplayState == Call("GetDisplayState", "GET_DISPLAY_STATE", <<D("displayId")>>, <<W("state")>>)
ProxyGetAllDisplayIds == Call("GetAllDisplayIds", "GET_ALL_DISPLAYIDS", <<>>, <<V("displayIds")>>)
ProxyGetCutoutInfo == Call("GetCutoutInfo", "GET_CUTOUT_INFO", <<D("displayId")>>, <<P("info")>>)
ProxyHasPrivateWindow == Call("HasPrivateWindow", "HAS_PRIVATE_WINDOW",
    <<D("displayId")>>, <<W("ret"), W("hasPrivateWindow")>>)
ProxyNotifyDisplayEvent == Tell("NotifyDisplayEvent", "NOTIFY_DISPLAY_EVENT", <<W("event")>>)
ProxySetFreeze == Call("SetFreeze", "SET_FREEZE_EVENT", <<V("displayIds"), W("isFreeze")>>, <<>>)
ProxyMakeMirror == Call("MakeMirror", "SCREEN_MAKE_MIRROR",
    <<D("mainScreenId"), V("mirrorScreenId")>>, <<D("screenGroup")>>)
ProxyGetScreenInfoById == Call("GetScreenInfoById", "GET_SCREEN_INFO_BY_ID", <<D("screenId")>>, <<P("info")>>)
ProxyGetScreenGroupInfoById == Call("GetScreenGroupInfoById", "GET_SCREEN_GROUP_INFO_BY_ID",
    <<D("screenId")>>, <<P("info")>>)
ProxyGetAllScreenInfos == Call("GetAllScreenInfos", "GET_ALL_SCREEN_INFOS", <<>>, <<V("screenInfos")>>)
ProxyMakeExpand == Call("MakeExpand", "SCREEN_MAKE_EXPAND",
    <<V("screenId"), V("startPoint")>>, <<D("screenGroup")>>)
ProxyRemoveVirtualScreenFromGroup == Post("RemoveVirtualScreenFromGroup",
    "REMOVE_VIRTUAL_SCREEN_FROM_SCREEN_GROUP", <<V("screens")>>)
ProxySetScreenActiveMode == Call("SetScreenActiveMode", "SET_SCREEN_ACTIVE_MODE",
    <<D("screenId"), W("modeId")>>, <<W("ret")>>)
ProxySetVirtualPixelRatio == Call("SetVirtualPixelRatio", "SET_VIRTUAL_PIXEL_RATIO",
    <<D("screenId"), W("virtualPixelRatio")>>, <<W("ret")>>)
ProxyIsScreenRotationLocked == Call("IsScreenRotationLocked", "IS_SCREEN_ROTATION_LOCKED",
    <<>>, <<W("isLocked")>>)
ProxySetScreenRotationLocked == Tell("SetScreenRotationLocked", "SET_SCREEN_ROTATION_LOCKED", <<W("isLocked")>>)

(* DisplayManagerStub *)
StubGetDefaultDisplayInfo == Case("GET_DEFAULT_DISPLAY_INFO", <<>>, "GetDefaultDisplayInfo", <<P("info")>>)
StubGetDisplayInfoById == Case("GET_DISPLAY_BY_ID", <<D("displayId")>>, "GetDisplayInfoById", <<P("info")>>)
StubGetDisplayInfoByScreen == Case("GET_DISPLAY_BY_SCREEN", <<D("screenId")>>, "GetDisplayInfoByScreen",
    <<P("info")>>)
StubCreateVirtualScreen == Case("CREATE_VIRTUAL_SCREEN",
    <<S("name"), W("width"), W("height"), W("density"), W("flags"), W("isForShot"),
      W("isSurfaceValid"), Opt(O("surface")), O("agent")>>, "CreateVirtualScreen", <<D("screenId")>>)
StubDestroyVirtualScreen == Case("DESTROY_VIRTUAL_SCREEN", <<D("screenId")>>, "DestroyVirtualScreen", <<W("ret")>>)
StubSetVirtualScreenSurface == Case("SET_VIRTUAL_SCREEN_SURFACE",
    <<D("screenId"), W("isSurfaceValid"), Opt(O("surface"))>>, "SetVirtualScreenSurface", <<W("ret")>>)
StubSetOrientation == Case("SET_ORIENTATION", <<D("screenId"), W("orientation")>>, "SetOrientation", <<W("ret")>>)
StubGetDisplaySnapshot == Case("GET_DISPLAY_SNAPSHOT", <<D("displayId")>>, "GetDisplaySnapshot", <<P("snapshot")>>)
StubRegisterDisplayManagerAgent == Case("REGISTER_DISPLAY_MANAGER_AGENT", <<O("agent"), W("type")>>,
    "RegisterDisplayManagerAgent", <<W("ret")>>)
StubUnregisterDisplayManagerAgent == Case("UNREGISTER_DISPLAY_MANAGER_AGENT", <<O("agent"), W("type")>>,
    "UnregisterDisplayManagerAgent", <<W("ret")>>)
StubWakeUpBegin == Case("WAKE_UP_BEGIN", <<W("reason")>>, "WakeUpBegin", <<W("ret")>>)
StubWakeUpEnd == Case("WAKE_UP_END", <<>>, "WakeUpEnd", <<W("ret")>>)
StubSuspendBegin == Case("SUSPEND_BEGIN", <<W("reason")>>, "SuspendBegin", <<W("ret")>>)
StubSuspendEnd == Case("SUSPEND_END", <<>>, "SuspendEnd", <<W("ret")>>)
StubSetScreenPowerForAll == Case("SET_SCREEN_POWER_FOR_ALL", <<W("state"), W("reason")>>,
    "SetScreenPowerForAll", <<W("ret")>>)
StubGetScreenPower == Case("GET_SCREEN_POWER", <<D("screenId")>>, "GetScreenPower", <<W("state")>>)
StubSetDisplayState == Case("SET_DISPLAY_STATE", <<W("state")>>, "SetDisplayState", <<W("ret")>>)
StubGetDisplayState == Case("GET_DISPLAY_STATE", <<D("displayId")>>, "GetDisplayState", <<W("state")>>)
StubNotifyDisplayEvent == Case("NOTIFY_DISPLAY_EVENT", <<W("event")>>, "NotifyDisplayEvent", <<>>)
StubSetFreeze == Case("SET_FREEZE_EVENT", <<V("displayIds"), W("isFreeze")>>, "SetFreeze", <<>>)
StubMakeMirror == Case("SCREEN_MAKE_MIRROR", <<D("mainScreenId"), V("mirrorScreenId")>>, "MakeMirror",
    <<D("screenGroup")>>)
StubGetScreenInfoById == Case("GET_SCREEN_INFO_BY_ID", <<D("screenId")>>, "GetScreenInfoById", <<P("info")>>)
StubGetScreenGroupInfoById == Case("GET_SCREEN_GROUP_INFO_BY_ID", <<D("screenId")>>, "GetScreenGroupInfoById",
    <<P("info")>>)
StubGetAllScreenInfos == Case("GET_ALL_SCREEN_INFOS", <<>>, "GetAllScreenInfos", <<V("screenInfos")>>)
StubGetAllDisplayIds == Case("GET_ALL_DISPLAYIDS", <<>>, "GetAllDisplayIds", <<V("displayIds")>>)
StubMakeExpand == Case("SCREEN_MAKE_EXPAND", <<V("screenId"), V("startPoint")>>, "MakeExpand", <<D("screenGroup")>>)
StubRemoveVirtualScreenFromGroup == Case("REMOVE_VIRTUAL_SCREEN_FROM_SCREEN_GROUP", <<V("screens")>>,
    "RemoveVirtualScreenFromGroup", <<>>)
StubSetScreenActiveMode == Case("SET_SCREEN_ACTIVE_MODE", <<D("screenId"), W("modeId")>>, "SetScreenActiveMode",
    <<W("ret")>>)
StubSetVirtualPixelRatio == Case("SET_VIRTUAL_PIXEL_RATIO", <<D("screenId"), W("virtualPixelRatio")>>,
    "SetVirtualPixelRatio", <<W("ret")>>)
StubGetScreenSupportedColorGamuts == Case("SCREEN_GET_SUPPORTED_COLOR_GAMUTS", <<D("screenId")>>,
    "GetScreenSupportedColorGamuts", <<W("ret"), IfOk(V("colorGamuts"))>>)
StubGetScreenColorGamut == Case("SCREEN_GET_COLOR_GAMUT", <<D("screenId")>>, "GetScreenColorGamut",
    <<W("ret"), IfOk(W("colorGamut"))>>)
StubSetScreenColorGamut == Case("SCREEN_SET_COLOR_GAMUT", <<D("screenId"), W("colorGamutIdx")>>,
    "SetScreenColorGamut", <<W("ret")>>)
StubGetScreenGamutMap == Case("SCREEN_GET_GAMUT_MAP", <<D("screenId")>>, "GetScreenGamutMap",
    <<W("ret"), IfOk(W("gamutMap"))>>)
StubSetScreenGamutMap == Case("SCREEN_SET_GAMUT_MAP", <<D("screenId"), W("gamutMap")>>, "SetScreenGamutMap",
    <<W("ret")>>)
StubSetScreenColorTransform == Case("SCREEN_SET_COLOR_TRANSFORM", <<D("screenId")>>, "SetScreenColorTransform",
    <<W("ret")>>)
StubIsScreenRotationLocked == Case("IS_SCREEN_ROTATION_LOCKED", <<>>, "IsScreenRotationLocked", <<W("isLocked")>>)
StubSetScreenRotationLocked == Case("SET_SCREEN_ROTATION_LOCKED", <<W("isLocked")>>, "SetScreenRotationLocked", <<>>)
StubHasPrivateWindow == Case("HAS_PRIVATE_WINDOW", <<D("displayId")>>, "HasPrivateWindow",
    <<W("ret"), W("hasPrivateWindow")>>)
StubGetCutoutInfo == Case("GET_CUTOUT_INFO", <<D("displayId")>>, "GetCutoutInfo", <<P("info")>>)

(* DisplayManagerAgentProxy *)
ProxyNotifyDisplayPowerEvent == Post("NotifyDisplayPowerEvent", "NOTIFY_DISPLAY_POWER_EVENT",
    <<W("event"), W("status")>>)
ProxyNotifyDisplayStateChanged == Post("NotifyDisplayStateChanged", "NOTIFY_DISPLAY_STATE_CHANGED",
    <<W("state"), D("id")>>)
ProxyOnScreenConnect == Post("OnScreenConnect", "ON_SCREEN_CONNECT", <<P("screenInfo")>>)
ProxyOnScreenDisconnect == Post("OnScreenDisconnect", "ON_SCREEN_DISCONNECT", <<D("screenId")>>)
ProxyOnScreenChange == Post("OnScreenChange", "ON_SCREEN_CHANGED", <<P("screenInfo"), W("event")>>)
ProxyOnScreenGroupChange == Post("OnScreenGroupChange", "ON_SCREENGROUP_CHANGED", <<V("screenInfos"), W("event")>>)
ProxyOnDisplayCreate == Post("OnDisplayCreate", "ON_DISPLAY_CONNECT", <<P("displayInfo")>>)
ProxyOnDisplayDestroy == Post("OnDisplayDestroy", "ON_DISPLAY_DISCONNECT", <<D("displayId")>>)
ProxyOnDisplayChange == Post("OnDisplayChange", "ON_DISPLAY_CHANGED", <<P("displayInfo"), W("event")>>)

(* DisplayManagerAgentStub *)
StubNotifyDisplayPowerEvent == Case("NOTIFY_DISPLAY_POWER_EVENT", <<W("event"), W("status")>>,
    "NotifyDisplayPowerEvent", <<>>)
StubNotifyDisplayStateChanged == Case("NOTIFY_DISPLAY_STATE_CHANGED", <<W("state"), D("id")>>,
    "NotifyDisplayStateChanged", <<>>)
StubOnScreenConnect == Case("ON_SCREEN_CONNECT", <<P("screenInfo")>>, "OnScreenConnect", <<>>)
StubOnScreenDisconnect == Case("ON_SCREEN_DISCONNECT", <<D("screenId")>>, "OnScreenDisconnect", <<>>)
StubOnScreenChange == Case("ON_SCREEN_CHANGED", <<P("screenInfo"), W("event")>>, "OnScreenChange", <<>>)
StubOnScreenGroupChange == Case("ON_SCREENGROUP_CHANGED", <<V("screenInfos"), W("event")>>,
    "OnScreenGroupChange", <<>>)
StubOnDisplayCreate == Case("ON_DISPLAY_CONNECT", <<P("displayInfo")>>, "OnDisplayCreate", <<>>)
StubOnDisplayDestroy == Case("ON_DISPLAY_DISCONNECT", <<D("displayId")>>, "OnDisplayDestroy", <<>>)
StubOnDisplayChange == Case("ON_DISPLAY_CHANGED", <<P("displayInfo"), W("event")>>, "OnDisplayChange", <<>>)
=============================================================================
