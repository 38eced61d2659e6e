------------------------------- MODULE ServiceOps -------------------------------
(* What each call of the window and the display manager service does with the
   threads and locks: whether the window service does it in its thread while the
   caller waits, later, or at once on the caller's thread; whether the display
   service takes its lock, posts to the window service, or waits for it. The answers
   and what is done to windows and screens are in other modules.                  *)

Row == [at     |-> "dms",    \* the service
        post   |-> "here",   \* wms: "sync", "async", or "here", on the caller's thread
        lock   |-> FALSE,    \* dms: takes the lock
        tells  |-> FALSE,    \* dms: posts a task to the window service
        asks   |-> FALSE,    \* dms: waits for a task of the window service
        may    |-> "all",    \* who is served
        checks |-> FALSE,    \* some arguments are refused at once
        does   |-> "none"]   \* creates or destroys what its caller owns
Sync  == [Row EXCEPT !.at = "wms", !.post = "sync"]
Async == [Row EXCEPT !.at = "wms", !.post = "async"]
Here  == [Row EXCEPT !.at = "wms"]
Free  == Row
Locks == [Row EXCEPT !.lock = TRUE]
Checked(r) == [r EXCEPT !.checks = TRUE]
System(r)  == [r EXCEPT !.may = "system"]
Telling(r) == [r EXCEPT !.tells = TRUE]
Asking(r)  == [r EXCEPT !.asks = TRUE]

(* WindowManagerService *)
CreateWindow  == [Checked(Sync) EXCEPT !.does = "create"]
DestroyWindow == [Sync EXCEPT !.does = "destroy"]
AddWindow     == Sync
RemoveWindow  == Sync
RequestFocus  == Sync
GetAvoidAreaByType          == Sync
RegisterWindowManagerAgent  == Checked(Sync)
UnregisterWindowManagerAgent == Checked(Sync)
SetWindowAnimationController == Checked(Sync)
GetFocusWindowInfo          == Sync
TransitionFromAbility       == Async
TransitionFromClient        == Sync
StartingWindow              == Checked(Async)
CancelStartingWindow        == Checked(Async)
NotifyServerReadyToMoveOrDrag == Checked(Async)
ProcessPointDown            == Async
ProcessPointUp              == Async
NotifyWindowClientPointUp   == Async
MinimizeAllAppWindows       == Async
ToggleShownStateForAllAppWindows == Async
GetTopWindowId              == Sync
SetWindowLayoutMode         == Sync
UpdateProperty(transform)   == Checked(IF transform THEN Async ELSE Sync)
GetAccessibilityWindowInfo  == Checked(Sync)
GetSystemConfig             == Here
GetModeChangeHotZones       == Here
MinimizeWindowsByLauncher   == Sync
GetWindowPreferredOrientation == Sync
UpdateAvoidAreaListener     == Sync
UpdateRsTree                == Sync
BindDialogTarget            == Sync
OnScreenshot                == Async
OnAccountSwitched           == Async
WindowVisibilityChanged     == Sync

(* DisplayManagerService *)
GetDefaultDisplayInfo   == Locks
GetDisplayInfoById      == Locks
GetDisplayInfoByScreen  == Locks
HasPrivateWindow        == Asking(Checked(Locks))
CreateVirtualScreen     == [Checked(Telling(Locks)) EXCEPT !.does = "create"]
DestroyVirtualScreen    == [Telling(Locks) EXCEPT !.does = "destroy"]
SetVirtualScreenSurface == Checked(Locks)
SetOrientation          == Telling(Locks)
GetDisplaySnapshot      == [Telling(Locks) EXCEPT !.may = "capture"]
GetRSScreenId           == Locks
GetScreenSupportedColorGamuts == Checked(Locks)
GetScreenColorGamut     == Checked(Locks)
SetScreenColorGamut     == Checked(Locks)
GetScreenGamutMap       == Checked(Locks)
SetScreenGamutMap       == Checked(Locks)
SetScreenColorTransform == Checked(Locks)
RegisterDisplayManagerAgent   == Checked(Free)
UnregisterDisplayManagerAgent == Checked(Free)
WakeUpBegin             == System(Free)
WakeUpEnd               == System(Free)
SuspendBegin            == System(Telling(Locks))
SuspendEnd              == System(Free)
SetScreenPowerForAll    == System(Locks)
GetScreenPower          == Locks
SetDisplayState         == System(Telling(Locks))
GetScreenIdByDisplayId  == Locks
GetDisplayState         == Locks
NotifyDisplayEvent      == Telling(Locks)
SetFreeze               == Asking(Locks)
GetRSDisplayNodeByDisplayId == Locks
MakeMirror              == Checked(Telling(Locks))
MakeExpand              == Checked(Telling(Locks))
RemoveVirtualScreenFromGroup == Telling(Locks)
UpdateRSTree            == Locks
GetScreenInfoById       == Locks
GetScreenGroupInfoById  == Locks
GetScreenGroupIdByScreenId == Locks
GetAllDisplayIds        == Locks
GetAllScreenInfos       == Locks
SetScreenActiveMode     == Telling(Locks)
SetVirtualPixelRatio    == Telling(Locks)
IsScreenRotationLocked  == Free
SetScreenRotationLocked == Locks
SetGravitySensorSubscriptionEnabled == Locks
GetCutoutInfo           == Locks
SetOrientationFromWindow == Telling(Locks)
SetRotationFromWindow   == Telling(Locks)

(* WindowAdapter, DisplayManagerAdapter and ScreenManagerAdapter pass these on *)
WindowAdapter ==
  {CreateWindow, AddWindow, RemoveWindow, DestroyWindow, RequestFocus, RegisterWindowManagerAgent,
   UnregisterWindowManagerAgent, GetAccessibilityWindowInfo, SetWindowAnimationController, GetAvoidAreaByType,
   NotifyServerReadyToMoveOrDrag, ProcessPointDown, ProcessPointUp, MinimizeAllAppWindows,
   ToggleShownStateForAllAppWindows, GetSystemConfig, GetModeChangeHotZones, GetTopWindowId, SetWindowLayoutMode,
   UpdateProperty(TRUE), UpdateProperty(FALSE), TransitionFromClient, MinimizeWindowsByLauncher,
   UpdateAvoidAreaListener, UpdateRsTree, BindDialogTarget}
DisplayManagerAdapter ==
  {GetDefaultDisplayInfo, GetDisplayInfoByScreen, GetDisplaySnapshot, RegisterDisplayManagerAgent,
   UnregisterDisplayManagerAgent, WakeUpBegin, WakeUpEnd, SuspendBegin, SuspendEnd, SetDisplayState,
   GetDisplayState, NotifyDisplayEvent, SetFreeze, GetAllDisplayIds, HasPrivateWindow, GetDisplayInfoById,
   GetCutoutInfo}
ScreenManagerAdapter ==
  {GetScreenSupportedColorGamuts, GetScreenColorGamut, SetScreenColorGamut, GetScreenGamutMap, SetScreenGamutMap,
   SetScreenColorTransform, CreateVirtualScreen, DestroyVirtualScreen, SetVirtualScreenSurface, SetOrientation,
   SetScreenRotationLocked, IsScreenRotationLocked, SetScreenPowerForAll, GetScreenPower, MakeMirror,
   GetScreenInfoById, GetScreenGroupInfoById, GetAllScreenInfos, MakeExpand, RemoveVirtualScreenFromGroup,
   SetScreenActiveMode, SetVirtualPixelRatio}
(* what the ability manager, the input service and the renderer call *)
SystemCalls == {TransitionFromAbility, GetFocusWindowInfo, StartingWindow, CancelStartingWindow,
                NotifyWindowClientPointUp, OnScreenshot, OnAccountSwitched, WindowVisibilityChanged}
(* what a task of the window service asks of the display service, and nothing *)
InnerCalls == {GetDefaultDisplayInfo, GetDisplayInfoById, GetAllDisplayIds, UpdateRSTree, GetRSScreenId,
               GetScreenInfoById, GetScreenGroupIdByScreenId, SetOrientationFromWindow, SetRotationFromWindow,
               SetGravitySensorSubscriptionEnabled, Here}
=============================================================================
