------------------------------- MODULE IpcChannel -------------------------------
(* A call between two processes. The proxy writes the arguments, the driver
   carries the parcel to the process of the stub, OnRemoteRequest reads them,
   calls the method and writes the reply, which the proxy reads. A call that waits
   blocks its thread; one that does not goes to a queue of the other process, and
   its caller goes on at once. Writing may fail, and the other process may die and
   be started again at any moment. One thread of the caller is modelled, and the
   posts of it the other process has not yet taken.                            *)
EXTENDS WindowMessages, DisplayMessages, Parcelables

VARIABLES ipcPc,      \* where the calling thread is
          ipcCall,    \* what it calls: [iface, proxy, given]
          ipcReply,   \* the parcel of the reply
          ipcResult,  \* how the call ended: [how, got]
          ipcPosted,  \* calls that were posted and not run
          ipcRuns,    \* how often the present call was run
          ipcRan,     \* the last run: [iface, code, want, method, got, given]
          ipcPeer     \* the process of the stub: "up" or "down"
ipcVars == <<ipcPc, ipcCall, ipcReply, ipcResult, ipcPosted, ipcRuns, ipcRan, ipcPeer>>

CONSTANTS IpcPostedMax   \* bound on the posts that wait
ASSUME IpcBoundAssumption == IpcPostedMax \in Nat

(* the proxy functions and the cases of the stub of each interface *)
ProxiesOf == [
    IWindowManager |->
       {ProxyCreateWindow, ProxyAddWindow, ProxyRemoveWindow, ProxyDestroyWindow,
        ProxyRequestFocus, ProxyGetAvoidAreaByType, ProxyRegisterWindowManagerAgent,
        ProxyUnregisterWindowManagerAgent, ProxySetWindowAnimationController,
        ProxyNotifyServerReadyToMoveOrDrag, ProxyProcessPointDown, ProxyProcessPointUp,
        ProxyMinimizeAllAppWindows, ProxyToggleShownState, ProxySetWindowLayoutMode,
        ProxyUpdateProperty, ProxyGetTopWindowId, ProxyGetAccessibilityWindowInfo,
        ProxyGetSystemConfig, ProxyNotifyWindowTransition, ProxyGetModeChangeHotZones,
        ProxyMinimizeWindowsByLauncher, ProxyUpdateAvoidAreaListener, ProxyUpdateRsTree,
        ProxyBindDialogTarget},
    IWindow |->
       {ProxyUpdateWindowRect, ProxyUpdateWindowMode, ProxyUpdateWindowModeSupportInfo,
        ProxyUpdateFocusStatus, ProxyUpdateAvoidArea, ProxyUpdateWindowState,
        ProxyUpdateWindowDragInfo, ProxyUpdateDisplayId, ProxyUpdateOccupiedAreaChangeInfo,
        ProxyUpdateActiveStatus, ProxyGetWindowProperty, ProxyNotifyTouchOutside,
        ProxyNotifyScreenshot, ProxyDumpInfo, ProxyNotifyDestroy, ProxyNotifyWindowClientPointUp},
    IWindowManagerAgent |->
       {ProxyUpdateFocusChangeInfo, ProxyUpdateSystemBarRegionTints,
        ProxyNotifyAccessibilityWindowInfo, ProxyUpdateWindowVisibilityInfo,
        ProxyUpdateCameraFloatWindowStatus},
    IWindowExtension |->
       {ProxySetBounds, ProxyHideExtension, ProxyShowExtension, ProxyGetExtensionWindow},
    IWindowExtensionClient |->
       {ProxyOnWindowReady, ProxyOnBackPress, ProxyOnKeyEvent, ProxyOnPointerEvent},
    IDisplayManager |->
       {ProxyGetDefaultDisplayInfo, ProxyGetDisplayInfoById, ProxyGetDisplayInfoByScreen,
        ProxyCreateVirtualScreen, ProxyDestroyVirtualScreen, ProxySetVirtualScreenSurface,
        ProxySetOrientation, ProxyGetDisplaySnapshot, ProxyGetScreenSupportedColorGamuts,
        ProxyGetScreenColorGamut, ProxySetScreenColorGamut, ProxyGetScreenGamutMap,
        ProxySetScreenGamutMap, ProxySetScreenColorTransform, ProxyRegisterDisplayManagerAgent,
        ProxyUnregisterDisplayManagerAgent, ProxyWakeUpBegin, ProxyWakeUpEnd, ProxySuspendBegin,
        ProxySuspendEnd, ProxySetScreenPowerForAll, ProxyGetScreenPower, ProxySetDisplayState,
        ProxyGetDisplayState, ProxyGetAllDisplayIds, ProxyGetCutoutInfo, ProxyHasPrivateWindow,
        ProxyNotifyDisplayEvent, ProxySetFreeze, ProxyMakeMirror, ProxyGetScreenInfoById,
        ProxyGetScreenGroupInfoById, ProxyGetAllScreenInfos, ProxyMakeExpand,
        ProxyRemoveVirtualScreenFromGroup, ProxySetScreenActiveMode, ProxySetVirtualPixelRatio,
        ProxyIsScreenRotationLocked, ProxySetScreenRotationLocked},
    IDisplayManagerAgent |->
       {ProxyNotifyDisplayPowerEvent, ProxyNotifyDisplayStateChanged, ProxyOnScreenConnect,
        ProxyOnScreenDisconnect, ProxyOnScreenChange, ProxyOnScreenGroupChange,
        ProxyOnDisplayCreate, ProxyOnDisplayDestroy, ProxyOnDisplayChange},
    Parcelable |->
       {WriteWindowVisibilityInfo, WriteWindowInfo, WriteAccessibilityWindowInfo,
        WriteFocusChangeInfo, WriteOccupiedAreaChangeInfo, WriteDisplayInfo, WriteScreenInfo,
        WriteScreenGroupInfo, WriteCutoutInfo, WriteWindowTransitionInfo, WriteSystemConfig,
        WriteMoveDragProperty, WriteAvoidArea, WriteWindowProperty} \cup WriteOfAction]
StubsOf == [
    IWindowManager |->
       {StubCreateWindow, StubAddWindow, StubRemoveWindow, StubDestroyWindow, StubRequestFocus,
        StubGetAvoidAreaByType, StubRegisterWindowManagerAgent,
        StubUnregisterWindowManagerAgent, StubNotifyServerReadyToMoveOrDrag,
        StubProcessPointDown, StubProcessPointUp, StubGetTopWindowId, StubMinimizeAllAppWindows,
        StubToggleShownState, StubSetWindowLayoutMode, StubUpdateProperty,
        StubGetAccessibilityWindowInfo, StubSetWindowAnimationController, StubGetSystemConfig,
        StubNotifyWindowTransition, StubGetModeChangeHotZones, StubMinimizeWindowsByLauncher,
        StubUpdateAvoidAreaListener, StubUpdateRsTree, StubBindDialogTarget},
    IWindow |->
       {StubUpdateWindowRect, StubUpdateWindowMode, StubUpdateWindowModeSupportInfo,
        StubUpdateFocusStatus, StubUpdateAvoidArea, StubUpdateWindowState,
        StubUpdateWindowDragInfo, StubUpdateDisplayId, StubUpdateOccupiedAreaChangeInfo,
        StubUpdateActiveStatus, StubGetWindowProperty, StubNotifyTouchOutside,
        StubNotifyScreenshot, StubNotifyDestroy, StubDumpInfo, StubNotifyWindowClientPointUp},
    IWindowManagerAgent |->
       {StubUpdateFocusChangeInfo, StubUpdateSystemBarRegionTints,
        StubNotifyAccessibilityWindowInfo, StubUpdateWindowVisibilityInfo,
        StubUpdateCameraFloatWindowStatus},
    IWindowExtension |->
       {StubSetBounds, StubHideExtension, StubShowExtension, StubRequestFocusExtension,
        StubGetExtensionWindow},
    IWindowExtensionClient |->
       {StubOnWindowReady, StubOnBackPress, StubOnKeyEvent, StubOnPointerEvent},
    IDisplayManager |->
       {StubGetDefaultDisplayInfo, StubGetDisplayInfoById, StubGetDisplayInfoByScreen,
        StubCreateVirtualScreen, StubDestroyVirtualScreen, StubSetVirtualScreenSurface,
        StubSetOrientation, StubGetDisplaySnapshot, StubRegisterDisplayManagerAgent,
        StubUnregisterDisplayManagerAgent, StubWakeUpBegin, StubWakeUpEnd, StubSuspendBegin,
        StubSuspendEnd, StubSetScreenPowerForAll, StubGetScreenPower, StubSetDisplayState,
        StubGetDisplayState, StubNotifyDisplayEvent, StubSetFreeze, StubMakeMirror,
        StubGetScreenInfoById, StubGetScreenGroupInfoById, StubGetAllScreenInfos,
        StubGetAllDisplayIds, StubMakeExpand, StubRemoveVirtualScreenFromGroup,
        StubSetScreenActiveMode, StubSetVirtualPixelRatio, StubGetScreenSupportedColorGamuts,
        StubGetScreenColorGamut, StubSetScreenColorGamut, StubGetScreenGamutMap,
        StubSetScreenGamutMap, StubSetScreenColorTransform, StubIsScreenRotationLocked,
        StubSetScreenRotationLocked, StubHasPrivateWindow, StubGetCutoutInfo},
    IDisplayManagerAgent |->
       {StubNotifyDisplayPowerEvent, StubNotifyDisplayStateChanged, StubOnScreenConnect,
        StubOnScreenDisconnect, StubOnScreenChange, StubOnScreenGroupChange,
        StubOnDisplayCreate, StubOnDisplayDestroy, StubOnDisplayChange},
    Parcelable |->
       {ReadWindowVisibilityInfo, ReadWindowInfo, ReadAccessibilityWindowInfo,
        ReadFocusChangeInfo, ReadOccupiedAreaChangeInfo, ReadDisplayInfo, ReadScreenInfo,
        ReadScreenGroupInfo, ReadCutoutInfo, ReadWindowTransitionInfo, ReadSystemConfig,
        ReadMoveDragProperty, ReadAvoidArea, ReadWindowProperty} \cup ReadOfAction]

IpcNoCall == [iface |-> "none"]
IpcNoRun  == [iface |-> "none"]
IpcNoResult == [how |-> "none", got |-> <<>>]
IpcOptional(proxy) == {proxy.args[i].name : i \in {j \in 1 .. Len(proxy.args) : proxy.args[j].when = "given"}}

IpcInit == /\ ipcPc = "idle" /\ ipcPeer = "up" /\ ipcPosted = <<>>
           /\ ipcCall = IpcNoCall /\ ipcReply = <<>> /\ ipcResult = IpcNoResult
           /\ ipcRuns = 0 /\ ipcRan = IpcNoRun

(* a thread calls a function of a proxy, with or without the optional objects; the
   posts that wait are for the same object                                     *)
IpcBegin == /\ ipcPc = "idle"
            /\ \E iface \in DOMAIN ProxiesOf : \E p \in ProxiesOf[iface] : \E given \in SUBSET IpcOptional(p) :
                 /\ ipcPosted # <<>> => iface = Head(ipcPosted).iface
                 /\ ipcCall' = [iface |-> iface, proxy |-> p, given |-> given]
            /\ ipcPc' = "writing"
            /\ UNCHANGED <<ipcReply, ipcResult, ipcPosted, ipcRuns, ipcRan, ipcPeer>>

IpcEnds(result) == ipcPc' = "back" /\ ipcResult' = result /\ ipcCall' = ipcCall
(* the caller has its result; what the call left is forgotten *)
IpcDone == /\ ipcPc = "back" /\ ipcPc' = "idle"
           /\ ipcCall' = IpcNoCall /\ ipcReply' = <<>> /\ ipcResult' = IpcNoResult
           /\ ipcRuns' = 0 /\ ipcRan' = IpcNoRun
           /\ UNCHANGED <<ipcPosted, ipcPeer>>

(* a field cannot be written: the function returns an error and sends nothing *)
IpcWriteFails == /\ ipcPc = "writing"
                 /\ IpcEnds([how |-> "error", got |-> <<>>])
                 /\ UNCHANGED <<ipcReply, ipcPosted, ipcRuns, ipcRan, ipcPeer>>

(* the request goes out: to a dead process it fails. Posted, it waits in the
   queue, and a result is read from the empty reply all the same (0 is WM_OK)  *)
IpcSend ==
    /\ ipcPc = "writing"
    /\ UNCHANGED <<ipcReply, ipcRuns, ipcRan, ipcPeer>>
    /\ \/ ipcPeer = "down" /\ IpcEnds([how |-> "error", got |-> <<>>]) /\ UNCHANGED ipcPosted
       \/ ipcPeer = "up" /\ ipcCall.proxy.waits /\ ipcPc' = "sent" /\ UNCHANGED <<ipcCall, ipcResult, ipcPosted>>
       \/ /\ ipcPeer = "up" /\ ~ ipcCall.proxy.waits /\ Len(ipcPosted) < IpcPostedMax
          /\ ipcPosted' = Append(ipcPosted, ipcCall)
          /\ IpcEnds([how |-> IF ipcCall.proxy.tells THEN "ok" ELSE "told", got |-> <<>>])

(* OnRemoteRequest: the case of the code reads the arguments and calls the method;
   every code a proxy sends has its case                                       *)
IpcCaseOf(call) == CHOOSE c \in StubsOf[call.iface] : c.code = call.proxy.code
IpcRun(call) == LET c == IpcCaseOf(call) IN
    [iface |-> call.iface, code |-> c.code, want |-> call.proxy.method, method |-> c.method,
     given |-> call.given,
     got |-> ReadParcel(Present(call.proxy.args, call.given, TRUE), Present(c.args, call.given, TRUE))]

IpcDispatch == /\ ipcPc = "sent"
               /\ ipcRan' = IpcRun(ipcCall) /\ ipcRuns' = ipcRuns + 1
               /\ \E ok \in BOOLEAN : /\ ipcReply' = Present(IpcCaseOf(ipcCall).results, ipcCall.given, ok)
                                      /\ ipcResult' = [how |-> IF ok THEN "ok" ELSE "refused", got |-> <<>>]
               /\ ipcPc' = "replied"
               /\ UNCHANGED <<ipcCall, ipcPosted, ipcPeer>>

(* the proxy reads the reply, the outputs only when the method succeeded *)
IpcReturn == /\ ipcPc = "replied"
             /\ IpcEnds([how |-> IF ipcCall.proxy.tells THEN ipcResult.how ELSE "told",
                      got |-> ReadParcel(ipcReply,
                                  Present(ipcCall.proxy.results, ipcCall.given, ipcResult.how = "ok"))])
             /\ UNCHANGED <<ipcReply, ipcPosted, ipcRuns, ipcRan, ipcPeer>>

(* the other process takes the oldest post *)
IpcRunPosted == /\ ipcPosted # <<>>
                /\ ipcPosted' = Tail(ipcPosted)
                /\ ipcRan' = IpcRun(Head(ipcPosted))
                /\ UNCHANGED <<ipcPc, ipcCall, ipcReply, ipcResult, ipcRuns, ipcPeer>>

(* the other process dies: a call in it ends with an error, whether or not its
   method was run, and posts are lost; nothing is sent again after a restart    *)
IpcPeerDies == /\ ipcPeer = "up" /\ ipcPeer' = "down" /\ ipcPosted' = <<>>
               /\ IF ipcPc \in {"sent", "replied"} THEN IpcEnds([how |-> "error", got |-> <<>>])
                  ELSE UNCHANGED <<ipcPc, ipcResult, ipcCall>>
               /\ UNCHANGED <<ipcReply, ipcRuns, ipcRan>>
IpcPeerRestarts == /\ ipcPeer = "down" /\ ipcPeer' = "up"
                   /\ UNCHANGED <<ipcPc, ipcCall, ipcReply, ipcResult, ipcPosted, ipcRuns, ipcRan>>

IpcNext == \/ IpcBegin \/ IpcWriteFails \/ IpcSend \/ IpcDispatch \/ IpcReturn \/ IpcDone
           \/ IpcRunPosted \/ IpcPeerDies \/ IpcPeerRestarts
IpcSpec == IpcInit /\ [][IpcNext]_ipcVars

IpcArgsAgree == \/ ipcRan.iface = "none" \/ ipcRan.code = "SETBOUNDS"
                \/ ipcRan.method = ipcRan.want /\ RightValues(ipcRan.got, ipcRan.given)
IpcResultsAgree ==
    /\ ipcRuns <= 1
    /\ ipcPc = "writing" => ipcRuns = 0
    /\ (ipcPc = "back" /\ ipcResult.how \in {"ok", "refused"} /\ ipcCall.proxy.waits)
          => ipcRuns = 1 /\ RightValues(ipcResult.got, ipcCall.given)
(* Every message that is read reaches the method its caller meant, and each
   parameter of it gets the value written for it, or null for an object that was
   not given: the proxy and the stub of each function, and Marshalling and
   Unmarshalling of each class, go through the same fields in the same order. The
   bounds of a window extension are left out: they are swapped (see StubSetBounds).
   A caller that waited and reads a result reads each output from its own field
   and the method was run once for it; a call that could not be written was never
   run; and no call is run twice, whenever the other process dies or restarts.  *)
IpcAgrees == IpcArgsAgree /\ IpcResultsAgree
=============================================================================
