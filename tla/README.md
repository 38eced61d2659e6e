# Verification of the OpenHarmony window manager

This directory holds TLA+ models of the window manager in this repository
(`wmserver`, `dmserver`, the client libraries `wm` and `dm`, the interfaces between
them and the JavaScript bindings above them), the TLC configurations that check them on small instances, and proofs checked by TLAPS.
`PROJECT.json` is the index: components, runs, the source lines of every
definition, the hazards of the code and the properties that cover them.

## The system

Two system services and their clients:

* **Window manager service** (`wmserver`). Every request of a client is posted to
  the service's own event handler, which runs one request to completion before the
  next (`WindowManagerService::PostVoidSyncTask`, `PostAsyncTask`). State: the
  windows by id (`WindowRoot::windowNodeMap_`), the tree of each display group
  (`WindowNodeContainer`), the split-screen pair of each display (`WindowPair`),
  the list of applications to minimize (`MinimizeApp`).
* **Display manager service** (`dmserver`): screens, displays, power, rotation. Its
  requests run on binder threads under one recursive lock, the plug events of the
  render service and the notifications on the handler thread of
  `AbstractScreenController`. `MakeMirror` and `MakeExpand` take the lock several
  times.
* **Inner window thread** (`WindowInnerManager`): creates and destroys the
  placeholder and the divider of the split screen, tells the ability manager to
  minimize applications, follows the pointer while a window is dragged.
* **Outside**: the UI service that shows the divider, the ability manager, the
  render service, the processes that own windows. They answer late, or die.
* **Client** (`wm`, `dm`): `WindowImpl` keeps the state of its window and turns
  calls into requests; `DisplayManager`, `ScreenManager` cache and listen.

| Part | State it keeps | Operations | What makes it correct |
|---|---|---|---|
| WindowPair | two sides, divider, status | insert, mode change, switch, remove, clear | status and sides agree, both sides go together, members are in the tree |
| Placeholder, divider | one window, one dialog id | create, destroy, touch, late show, late close, crash | none arrives in a state it does not fit |
| MinimizeApp | nodes by reason | add, clear, execute | nothing half-decided is executed |
| WindowNodeContainer | children, parents, priorities, lock state | add, remove, raise, keyguard re-order, toggle | sound tree, sorted siblings, locked screen covered |
| WindowRoot | nodes by id, focus, active | add, remove, destroy, starting windows, client death | what is drawn exists, focus and active window are shown |
| Screens, groups, displays | ids of screens in two maps, groups and their source, displays, agents | plug, unplug, virtual screens, mirror, expand, client death | the maps agree, every screen in a group is shown somewhere, clients know what there is |
| Layout of a display | rectangles of windows, what bars and dock leave, the halves and the divider, size limits | show, hide, move, resize, drag, mode change, rotation, pixel ratio, re-order | halves and divider make up the display, nobody is laid under a bar or the other half, a title bar can be reached |
| Tiles of a display | the queue of tiles, the minimize list | show, hide, mode change, bars, rotation, to and from tiles | whoever is shown has a tile or is to be minimized |
| Power | state, keyguard flag, the one callback of the client | set, suspend, keyguard, tell | callbacks are kept, listeners heard the state last, windows are thawed |
| Rotation | rotation and orientation of the screen, the lock, what the sensor last said | sensor event, orientation of a window, request of a user, lock | the display is turned as the orientation in force says |
| WindowImpl | maps of windows and of their children, properties | create, show, hide, destroy, sixteen setters, what the service sends back | the maps name valid windows, the service has the same value |
| Listener lists | listeners, agent, callbacks of scripts | register, unregister, tell | the service tells exactly when somebody listens, the last change arrives |
| Interfaces (zidl) | a parcel | one proxy function and one case of a stub for each message | both sides go through the same fields, a call is run once |
| Service calls | thread and queue of `wms`, lock of `dms`, tokens | every function of both services | every call is answered, tokens belong to owners |
| JavaScript bindings | the object of a window, promises and their tasks | every function of a window, a stage and the managers | a promise is settled once and tells the truth |

What is hard: the task thread is sequential, but the handlers leave work to other
threads and processes and read the answer into a state that has moved on; several
maps describe the same window and each handler edits them on its own; clients die
between any two requests and the death of each of their windows is told separately.
The hazards in `PROJECT.json` name the lines.

## Modules

| Module | What it is |
|---|---|
| `MinimizeApp` | the minimize lists, as operators (`minimize_app.cpp`) |
| `WindowPair` | every method of `WindowPair` as an operator from a state record to the next (`window_pair.cpp`, the mode rules of `window_property.cpp`) |
| `SplitSides` | abstract: what the two sides of a split screen promise |
| `SplitScreen` | the task thread, the inner thread, the UI service and the users around `WindowPair`; refines `SplitSides` |
| `SplitScreenProofs` | lemmas about each `WindowPair` operator; the theorems about `SplitScreen` |
| `WindowTree` | the tree of one display: z order, insertion, removal, raising, the keyguard (`window_node_container.cpp`) |
| `WindowRoot` | the life of windows over `WindowTree`: the handlers of `WindowRoot` and `WindowController`, the clients and their deaths |
| `WindowRootProofs` | lemmas about sequences, about each operator of `WindowTree` and `WindowRoot`; the theorems about `WindowRoot` |
| `LayoutRects` | the arithmetic of the layout policies on rectangles, halves, ratios and size limits (`window_layout_policy.cpp`) |
| `WindowLayout` | the windows of one display laid out by `WindowLayoutPolicyCascade`, and the calls that lay them out |
| `WindowTile` | the queue of `WindowLayoutPolicyTile` with the minimize list beside it |
| `ScreenIds` | the two maps of screen ids (`ScreenIdManager`) |
| `ScreenGroups` | screens, groups of screens and displays: what is done under the lock (`abstract_screen_controller.cpp`, `abstract_screen.cpp`, `abstract_display_controller.cpp`) |
| `DisplayService` | the threads around it: render service events, the handler thread, the calls of clients, their deaths, the notifications |
| `WindowClient` | the windows of one application: the calls of `WindowImpl`, the service that refuses, dies and speaks up |
| `ListenerKinds` | how each of the lists of listeners is registered with, told and left, as rows of a table |
| `ListenerRegistry` | such a list, its service, its thread and the callbacks of JavaScript above it |
| `DisplayPower` | `DisplayPowerController`, the callback of `DisplayManager::SetDisplayState`, the windows that are frozen and thawed |
| `ScreenRotation` | `ScreenRotationController` with the sensor, the window in front and the user on three threads |
| `IpcFields` | the fields of a parcel, and what reading one finds |
| `WindowMessages`, `DisplayMessages` | every proxy function and every case of a stub of the seven interfaces, as the fields they write and read |
| `Parcelables` | `Marshalling` and `Unmarshalling` of every class that is sent |
| `IpcChannel` | a call from proxy to stub and back, with failures to write and a peer that dies |
| `ServiceOps` | what every function of the two services does with threads, locks and tokens, as rows of a table |
| `ServiceCalls` | those calls under way: the thread of `wms`, the lock of `dms`, the deaths of applications and of the services |
| `JsFunctions` | every function a script can call, as rows of a table |
| `JsWindow` | the window object of a script over `WindowClient`: calls, tasks, promises, the garbage collector |
| `WindowClientProofs` | the theorems about `WindowClient` and `JsWindow` |
| `DisplayStateProofs` | the theorems about `DisplayPower`, `ScreenRotation`, `WindowLayout` and `WindowTile` |
| `ListenerRegistryProofs`, `ServiceCallsProofs`, `DisplayServiceProofs`, `IpcChannelProofs` | theorems about the module of that name |
| `MCSplitScreen`, `MCWindowRoot`, `MCDisplayService`, `MCDisplays`, `MCClient`, `MCScripts`, `MCServices` | instances for TLC |

A method of the code that other methods call is an operator `Method(s, ...)` on a
record `s` of what they read and write; a handler of the task thread is one action
that composes them in the order of the code. So an action is the whole handler,
with its early returns as the cases of the operators.

Correspondence, where the names are not the code's:

* `pair.inner` is the event queue of the inner thread; `Running(op)` takes its head.
  `pair.asked` is the set of applications that `WindowInnerManager::MinimizeAbility`
  was called for and that have not hidden their window yet.
* `shown` in `SplitScreen` stands for the tree (`parent_ != nullptr`); `WindowRoot`
  has the tree itself and no window there is split.
* `dialog[d]` is the UI service's view of a divider dialog: `requested` between
  `ShowDialog` and the `AddWindow` of its window, `closing` between `CancelDialog`
  and the `RemoveWindow`. This is external code, modelled from its two uses.
* `root.requested`, `root.visible` are `requestedVisibility_`, `currentVisibility_`.
  `client` is `WindowImpl::state_`, `dead` the processes that died: the death of each
  of their tokens is an action of its own (`OnRemoteDied`), in any order.
* `RestoreAllAppWindows` is the one handler whose steps are separate actions: the order of
  its loop matters and is taken nondeterministically. While it runs nothing else
  does (`Idle`), because the code runs it in one task.
* `dms` is the state of the display manager's controllers. A critical section is one
  action; where it goes over a list of screens, it is one action per screen while
  `work` holds the lock, so that only what takes no lock (`OnRsScreenConnectionChange`,
  the render service itself) comes between. `call` is the client call between two of
  its critical sections. The list is taken in ascending order of ids.
* In `ScreenGroups`, `WithDefault` and `DefaultScreen` are the two things
  `GetDefaultAbstractScreenId` does, its effect and its result: asking for the default
  screen may connect it. `node` is what a screen shows: its own node, the node of the
  screen it mirrors, or a node that is gone.
* Where many functions of the code have one shape (a proxy function, a listener list,
  a function of a script, a call of a service), the module has one action for the shape,
  and the row of a function is what distinguishes it: which checks it makes, in which
  order, which it leaves out. A row is translated from its function like any other definition.
* In `WindowClient` a call of the main thread is `wcCall`, cut where it waits for the
  service; messages of the service wait in an inbox and run while it waits, because the
  IPC thread and the main thread share the window without a lock. `wcServer` is the
  service's state of each window, `wcServerValue` its copy of the field that is set.
* In `ListenerRegistry` a change is a number; `lrDue` is who was registered when the last
  one happened. `lrExcused` is a history variable: the list is known to have gone wrong,
  for one of the reasons in "Known deviations".
* In `DisplayPower` a call of `SetDisplayState` is cut at the two places where the
  controller holds its lock and at the telling between and after them. `dpOverlap`,
  `dpForeign`, `dpAwake`, `dpReflagged` record the four excuses its properties name.
* In `ScreenRotation` a rotation is a quarter of a turn; each thread reads in one step
  and turns or stores in the next. `srRaced` records that one did so between the two
  steps of another, `srStale` that the switch was skipped.
* In `ServiceCalls` a call takes the steps its row says: refused, waiting for the lock
  of `dms`, in the queue of `wms`, waiting for its task. Tokens and owners are kept per
  window and per virtual screen. When the task of `CreateWindow` fails, `windowId` is what the
  stub left in the variable, any id or one nobody has, and the caller's token is stored under it all the
  same; `std::map::insert` keeps a token that is there. `scStray` is a history variable: the ids that got their
  first token in that way.
* In `JsWindow` a function runs at once and leaves a task. `jsObject` is the object the script was given last,
  in `g_jsWindowMap` or out of it, `jsToken` the window it holds, `jsOlder` an earlier object that holds
  a window and awaits the collector; a task is the `own` one of the object or of an earlier object. `jsLeft` is a history variable: the service
  destroyed the window of the object in the map, which no listener is told of. `jsFaults` collects
  what would be a crash of the application; it ends the process, and no property is about it.
* In `WindowLayout` a window has what it asked for (`req`), what it was laid out as (`rect`), its mode and
  whether the service decorates it; `limit`, `primary`, `secondary`, `divider` are `limitRect_` and the rectangles of
  the halves and the divider of the display, `cascade` the first rectangle of a new window. A bar or the divider lays out the whole
  tree (`LayoutWindowTree`), any other window itself and its sub windows (`LayoutWindowNode`). A ratio is a quotient of naturals,
  a pixel ratio is in tenths, and a size the code's unsigned arithmetic would wrap is negative. `skipped` is a history variable:
  recents, shown full screen, ended the last layout before it came to the applications.
* In `WindowTile`, `tree` are the main windows shown, in the order they came in; `queue` is `foregroundNodesMap_`, `list` the
  minimize list of the tiles, in which a destroyed window leaves a null reference. `preset` is the size and limit by which the
  tiles were made last. `asked` and `kept` are history: told to minimize, and taken back from the list without a tile.
* `torn` is a history variable. It records that between two critical sections of a
  `MakeMirror` or `MakeExpand` a screen came or left, or the default screen changed, after
  which the groups may be broken (the run `display_fault`; and `MakeExpand`, which reads the
  default screen twice, may put on the list of screens that leave a group the very screen
  the group is kept for); the invariants about groups and displays are stated for the
  other states.

## Runs

| Run | Instance | Shows |
|---|---|---|
| `split_screen` | two applications, one of which can only be split, placeholder, two dialogs, two pending tasks, fair (241,048 states) | `PairConsistent`, `MembersShown`, `NoStrandedSplit`, refinement of `SplitSides`, `PairingEnds` |
| `window_root` | desktop, keyguard, a show-when-locked main window with a sub window whose process may die, a main window with a starting window (76,000 states) | `TreeSound`, `NoGhost`, `KeyguardCovers`, `ActiveVisible`, `OnlyActiveRises` |
| `window_layers` | one main window with a media window below and a dialog above, input method, keyguard, desktop (87,459 states) | `SiblingsSorted`, `ShownWhenLocked` |
| `focus_fault` | as `window_root` | the fault that `FocusFaultDetection` reports can happen |
| `keyguard_drop` | as `window_root` | destroying the keyguard does not drop the windows raised over it |
| `app_limit` | three floating main windows, a limit of one | the limit on applications is exceeded |
| `displays` | three parts. The displays: a built-in screen, one that is plugged or unplugged once, the virtual screens of one client, one expansion. The layout of a display: four scenes of three or four windows, four calls. The tiles: four main windows, two bars, five calls (492,770 states) | `IdsSound`, `GroupsSound`, `AgentsSound`, `DisplaysPlaced`, `GroupsShown`, `ClientsAgree`; `WlHalvesTile`, `WlKeepsClear`; `WtPlaced` |
| `display_hot_plug` | the same screens without virtual ones, two plug events, fair (5,067 states) | `HotPlugSettles` |
| `display_fault` | as the displays of `displays` | a null group is dereferenced in `MakeMirror` |
| `client` | four parts of an application: windows (one main window and a child of each kind, or one window and one of sixteen setters), each kind of listener list, two threads and the system setting the power state, a call of every message (503,006 states) | `WcMapsSound`, `WcServerKnows`, `WcCallsEnd`; `LrAgreed`, `LrToldLast`; `DpCallbackKept`, `DpHeardLast`, `DpThawed`; `IpcAgrees` |
| `scripts` | one window, hide and destroy of a script with two promises under way, native code that creates, shows and destroys, a service that destroys, hides, refuses, dies and comes back (3,011,281 states) | `JsNamesFresh`, `JsDone` |
| `scripts_and_services` | scripts with each function of the bindings beside `destroy`; two applications, of which the system trusts one, in the services; two devices, six orientations, sensor, windows and user (189,991 states) | `JsSettlesOnce`, `JsSettlesAll`; `ScOwned`, `ScAnswered`; `SrObeyed`, `SrLockHolds` |

`focus_fault`, `keyguard_drop`, `app_limit` and `display_fault` expect a violation; `PROJECT.json` quotes the line of the repository
that says otherwise.

Bounds. Two applications are enough for every interplay of the pair (two sides, the
one replaced and the one that replaces it, with the placeholder as a third window);
a second dialog is needed for a divider that is asked for while the previous one is
still closing. `MaxTasks` bounds the tasks pending when a *new request* arrives;
the handlers themselves never drop a task. `Room` also keeps a free dialog for each
pending request. `Mortal`, `Launched` bound which processes die and which windows
have a starting window. A window is created once by its client, as its id is in the code.
On the display side, `MaxPlugs` bounds the plug events after the start, which itself
finds the second screen plugged or not; `MaxIds` bounds the ids above which clients
create no more screens (two virtual screens can follow each other), `MaxDisplays` the
displays above which nobody expands. One screen in each role (default, hot-plugged,
virtual) is enough for a mirror group whose source is any of the physical ones and an
expand group beside it. A null dereference stops the service (`fault`).

The display that is laid out is 40 by 60 or 60 by 40, at a pixel ratio of 1 or 1.5, with windows of at least 12 by 16, so that
two are near their limits beside each other and one is too large for a half less a bar. Scenes (`MCScenes`) are
the windows that affect each other: the divider with a window and a bar, the divider with two windows, a main
window with its sub window, a bar and the dock, recents with two windows and a bar. What is asked for is nothing, so
that the service chooses, or a rectangle that is partly off the display; an edge is dragged off the display, to its middle and
near its end. Four calls (`WlCallsMax`) are a show, a mode change or a drag, a bar or a rotation, and one that meets
what they left. Of the tiles, one window needs a wide tile, one a high one, one cannot float; two fit beside each other on the
upright display, and five calls (`WtCallsMax`) fill the queue, push one out and take one back.

`displays`, `client` and `scripts_and_services` each check several modules that share no state. The
variable `part` chooses one in the beginning and the others stay as they are: the
states add up, and no interleaving is lost, because in the code the parts meet only
through what each module has of the others. They may stop (calls are bounded, a fault ends the application), as `scripts` may, so
deadlock is not checked there. Further bounds of the last two: one message of the service waiting
(`WcInboxMax`) and one post of a proxy (`IpcPostedMax`), because what waits is taken one
at a time and a second one meets the state the first one leaves; two changes
(`LrEventsMax`), so that a stale one can arrive last; two threads and three calls of
`SetDisplayState` (`DpCallers`, `DpCallsMax`), so that a third meets a callback two others left;
one promise at a time in `scripts_and_services` (`JsTasksMax`), where each function meets a window that comes and goes and
the service is silent and lives, and two in `scripts`, so that a hide and a destroy, or two of the same, are under
way while the service speaks up; two calls and one death among two
applications, one window and one virtual screen, so that one may try what is the
other's (`ScCallsMax`, `ScFaultsMax`); three events or requests (`SrCallsMax`) out of degrees in,
at the edge of and outside the sectors, on a telephone mounted a quarter turned and a
tablet. The names of orientations that are not in the instance behave as one that is:
the theorems about `ScreenRotation` are for all of them.

Fairness of `WindowClient` (`WcFair`): the main thread goes on with the call it is in, and
the service answers it, `WcStep`; nothing makes an application call or the service speak up.
Of `JsWindow` (`JsFair`): the same, and the event loop runs each task that is posted,
strongly, because the garbage collector and other tasks come between. Of `ServiceCalls`
(`ScFair`): each calling thread goes on when it can, and so does the thread of `wms`; the
lock of `dms` needs no more, since whoever holds it goes on.

Fairness of `DisplayService`. The handler thread and the calls that have begun are
strongly fair: a thread that waits for the lock gets it in the end although clients keep
calling. `HotPlugSettles` asks that the clients' knowledge is right from some moment on,
and that each plugged screen is in a group again and again only, because a client may
move it about for ever. No client has to call anything.

Fairness of `SplitScreen` (`LiveSpec`). The inner thread runs what is posted to it, the loop of
`RestoreAllAppWindows` goes on, the UI service shows a dialog it was asked for and
closes one it was told to cancel, and an application asked to minimize hides its
window: the code has no other way to go on if one of them does not. No fairness is
assumed for users and applications.

## Proofs

`SplitScreenProofs` proves for every set of applications, divider windows, support
masks that satisfy `PairAssumption`, and every bound on the queue:

* `SplitTypeCorrect`, `PairIsConsistent`, `MembersAreShown`, `NoStrandedSplitHolds`:
  `TypeOK`, `PairConsistent`, `MembersShown` and `NoStrandedSplit` are invariants;
* `PairImplementsSides`: `SplitScreen` implements `SplitSides`, with the members of
  the sides as the refinement mapping.

The argument. None of the invariants is inductive alone: that a side has its
window's mode needs that no window is on both sides and that a divider is never on
a side; that members are shown needs that a placeholder in the pair is the current
one; that nobody is stranded needs both, and that whoever leaves the pair in a split
mode was told to minimize. `IInv` is `Good` (the parts `ModesOK`, `PlacesOK`,
`SidesOK`, `Told`, together with the membership in `shown`
and the placeholder) and the types of the other variables. The first part proves,
for each operator of `WindowPair`, that it keeps `PairOK` (or re-establishes it from `SidesOKBut`,
the weaker state in the middle of a handler), which members it can add and remove
(`KeepsWith`, `Keeps`), and what it does to the two sides (`SidesStep`: place,
switch, dissolve or nothing). The second part has one step per action, each
composed of those lemmas in the order of the handler; the refinement
follows from `SidesStep`. The same `IInv` was checked with TLC before it was proved.

`WindowRootProofs` proves for every finite set of windows, every assignment of types,
callers, processes, flags and modes that satisfies `TreeAssumption` and
`RootAssumption`, and every maximum of applications:

* `TypesHold`, `TreeStaysSound`, `SiblingsStaySorted`, `NoGhostIsDrawn` and
  `KeyguardStaysOnTop` (`TypeOK`, `TreeSound`, `SiblingsSorted`, `NoGhost`,
  `KeyguardCovers`), without another assumption;
* `ShownOverKeyguard` (`ShownWhenLocked`) where at most one window is a keyguard: when one of two
  goes, the screen counts as unlocked and what shows when locked goes down, below the other;
* `ActiveStaysVisible` (`ActiveVisible`) where `Plain` holds: no dialogs, one desktop, and its
  process does not die. Each is needed: after a dialog the search for the next active window
  can return the dialog that goes, and without the desktop it can find nothing.

The argument. `Good` is the invariant of the tree: the lists of children and the
parents agree and the lists are sorted (`Linked`, `Ordered`); a window is below its caller,
its own root or, if it shows when locked, the root over the keyguard (`Placed`), with one of the priorities
its type can have (`Ranked`); a window with a parent is seen and alive, and so is its
parent (`Seen`, `Living`); a visible window without a caller has a parent (`Shown`); tokens and starting
windows are alive (`Counted`). `NoGhost` needs `Living`, and `KeyguardCovers` needs to know which priorities may stand
above the keyguard's. In the middle of a handler a window is out of its list:
`TreeOK(s, {w})`. `Locks` says where the windows are that show when locked: on a locked screen over the keyguard,
with the priority above its own; on an unlocked one not there, but only while the keyguard may
come back (`Usable`), because a destroyed keyguard leaves them where they are (the run
`KeyguardDrop`). `Active` says that the desktop and the active window are in the tree; it needs
that a visible sub window without a parent belongs to a process that died (`Loose`), so that nobody touches it.
`TakeOut` and `PutIn` are the two changes of a list; `ZOrderOK` says what stands before what in `BottomToTop`
(lower root, lower sibling, or sign of the priority around a main window), from which `NextBelowOK`
and `HeirOK` say that the search for the next active window finds one that stays. `Keeps` is what nearly
every handler keeps, `TakenAway` what those keep that remove a window. `Good`, `Locks` and `Active` were
checked with TLC on the instances of `WindowRoot`, `WindowLayers` and `AppLimit` before they were proved
(`Active` not on the second, which has a dialog).

The folds over a list of children are recursive functions. What they compute is proved by induction said of sets
(`UpTo`: a set with 0 and with the successor of each of its members has all up to N), which no operator
parameter is needed for: `Recursion` says that the function is there, `OnlyOK`, `FlattenOK` and `LeakOK` what it gives.

`WindowClientProofs` proves `MapsAreSound` (`WcMapsSound`) and `ServerKnowsValue` (`WcServerKnows`) for any
windows of an application, any number of messages that wait for it and any number of calls, and `PromisesSettleOnce` (`JsSettlesOnce`),
`NamesLeadToLivingWindows` (`JsNamesFresh`) and `ResolvedIsDone` (`JsDone`) for every row of `JsFunctions` and any number of promises. `WcInv` is the strengthening. What the maps say in the middle of
a call depends on where the call is: `WcMapped` leaves out the window being destroyed,
`WcUnder` says which children are still listed while it is, `WcWaiting` what a call that waits for the service
relies on when the answer comes. What the service knows (`WcAgree`) is the value the call had before, until it answered; and a
`NotifyDestroy` on its way means that the service has nothing left (`WcHeld`). `JsInv` says the same of a
script's function: which row it is, what its task holds, and how often it has settled.

`JsNamesFresh` is not inductive: the window may go while its name is in the map, when the call that destroys it took the name out before
(`JsNameGoes`: while the name leads somewhere, the only destroy there can be is one of a window replaced before, which finds nothing to do); and a
script gets a window under its name after a task of an earlier object began, so `JsOwn` says whose window a task
holds. `JsDone` needs to know what a call that waits will find. `JsHidden` says that a window the service shows while the client takes it to be
hidden is one whose `Show` is being answered, so that a hide that asks nothing has nothing to ask; the service hiding a
window on its own is no matter. `JsGone` says the same of the end of `Destroy`; `JsLinked` ties the call to the one promise it settles.
`JsScriptInv` is all of these with `JsInv` and `WcInv`.
`WcInv` was checked with TLC with two messages waiting, and `JsScriptInv` under `JsNext`, before they were proved.

`ListenerRegistryProofs` proves `ListAgreesWithService` (`LrAgreed`) and `ListenersToldLast`
(`LrToldLast`) for every kind of list in `ListenerKinds` and any number of changes.
Neither is inductive. What the service knows depends, in the middle of a call, on what
the thread that has left the lock is about to send (`LrSizes`), what JavaScript has mapped
on what it is about to map (`LrMapped`); and for the last change the invariant
(`LrOnItsWay`) says where it is: the last message, or with no message the last task, or
with no task the last task of JavaScript, and that it is addressed to everybody who is
owed it. `KindOK` is what the argument needs of a kind, proved for each row of the table.

`DisplayStateProofs` proves, of `DisplayPower`, `CallbackIsKept`, `ListenersHeardState` and `WindowsAreThawed` for any threads
and number of calls. `DpKept` says why a callback that waits will be called: there is a call,
a message or an answer for it, in that order; `DpInTurn`, that without overlap one call is
past its change at a time and what it has yet to tell is the state; `DpWillThaw`, that
what the tasks will leave of the window fits the state.

Of `ScreenRotation` it proves `DisplayObeysOrientation` and `RotationLockHolds` for any
devices, orientations and degrees. `SrAlone` is the strengthening: what a thread that is
between its two steps has read is still so. The conversions between sensor, device and
display are lemmas about all rotations and offsets (`OnDisplayOK`, `DeviceRotationOK`).

Of `WindowLayout` it proves `HalvesTile` (`WlHalvesTile`): the halves of the split screen and the gap
make up the display, for any windows, sizes, densities and limits. It has a hypothesis, `WlRoom`: a
side of the display has place for two bars and the divider, and so has what lies behind each point
the divider snaps to; the least window is smaller than the largest; and the displays differ in width. The code checks none of
this, it relies on displays of hundreds of pixels, bars of tens and a divider of 8 vp; TLC evaluates `WlRoom` on its instance (`MCRoom`).
The property is about the halves only, but they are cut out of the place of the divider, and that comes from
everywhere: from what the bars leave, from a drag, from the nearest snap point, from the
rectangle kept when the windows were backed up, and from a size the dialog is told later, when the display may have turned
again. So `WlInv` says of each of these what it relies on. Whatever the divider is or will be asked to be, also
for a size of display that is over, is thin one way and long the other (`Slim`, `ThinSizes`), so the limits on sizes that the policy
gets by products and quotients of window sizes and aspect ratios leave it as it is (`FixedWidth`, `Quotients`);
what a bar asked for was right for some size of the display (`BarAsks`), and as displays differ in width, a bar that
takes place from this display was asked for it; the limit rectangle then still holds a divider (`LimitOK`), and so every snap
point is a place for one (`PlaceOK`). The nearest snap point is a `CHOOSE` over a
finite set of numbers: that there is a least distance is `WlLeast`, from the library's theorem that `<` is well-founded on `Nat`.

`KeepsClear` (`WlFixedClear`, the part of `WlKeepsClear` about windows that do not float) has the same hypothesis and the same invariant, of which the part `Clear` is for it.
The hazard is a window laid out alone, by limits of an earlier call: so `Clear` says that limits are never stale. The limits of the two
halves are the halves cut to the limit rectangle (`HalvesCut`, `Cut`), each bar that is shown across the display is
outside the limit rectangle (`KeptOut`), and each main window that is shown, is not floating and avoids the bars has the area of
its mode (`InArea`). A change of a window disturbs this for that window alone (`ClearBut`), a
change of a bar or the divider for all; then `UpdateWindowNode` lays out the tree (`TreeClear`) or that window (`NodeClear`).
While recents has ended the layout before the applications (`skipped`), nothing is said of the windows, but the limits are still fresh. That windows
in those areas are apart from the bars and the other half is `AreaIsClear`.

Of `WindowTile` it proves `TilesPlaced` (`WtPlaced`), for any windows, limits and sizes of the display. Its hypothesis
`WtRoom` says that a bar leaves some of the display and one window of the least width fits between the edges; TLC evaluates it
too (`MCTileRoom`). Without it the most tiles there can be are none, and then `ForegroundNodeQueuePushBack` takes
windows off an empty queue for ever. `WtInv` adds to the property that the most tiles there can be were computed from a display
and limits as they once were (`WtFits`), that what a bar asked for was right for some size (`WtBarsOK`), and that a window
is shown once (`Once`). That tiles do not overlap is arithmetic (`WtBeside`): no more than the most there can be have together
at least the least width, so each is as far to the right of the one before as it is wide, with the gap. What takes several
windows in turn is a recursive function; `Recursion` says that there is one, and `WtUpTo`, induction said of sets, that what each step
keeps holds in the end. While tiles are given (`WtRun`) the windows passed so far that are still in the queue are those that a tile suits
(`WtTiled`: all tiles of a row are of one size), they have different tiles, and nobody is lost: who leaves the queue is
on the list, who leaves the list comes back into the queue. Who was taken back has the rectangle it had, so `kept` is exempt.

`ServiceCallsProofs` proves `TokensMatchOwners` (`ScOwned`) for any applications, windows, virtual
screens, calls and deaths. It rests on `RowsOK`: a function that creates or destroys does so
under the lock or in a task its caller waits for. The invariant `ScInv` says what a call
and its task may still do to the thing it is about (`CallHolds`), so that a second call and a death
find it either there with its token or gone without. A creation that failed is not about the id in its unset variable
(`ScAbout`): of a thing that has a token `Insert` changes nothing, and one that has none is a stray from then on, of which
the theorem says nothing.

`DisplayServiceProofs` proves `ServiceTyped` (`TypeOK`), `ScreenIdsSound` (`IdsSound`),
`VirtualScreensOwned` (`AgentsSound`), `ScreensHeeded` (`ClientsAgree`) and `GroupsAgree`
(`GroupsSound`) for any finite set of physical screens, any clients and any bounds. Each operator of
`ScreenGroups` takes a state to a state and has a lemma for what it keeps. Nearly all of them only add:
`Keeps` says which ids, screens and groups a step from `s` to `t` preserves and that a new screen is a
physical one with a new id. The rest takes a screen away: `Loose` is the set of ids whose screen is
gone and whose pair in the maps is not.

* `DsInv` says that the only loose id is the one the handler at hand is dropping, that the group it is
  changing is still in the maps, and that the clients share out the virtual screens among
  them (`AgentsBut`, which inside a handler leaves out the screen being destroyed). For
  the clients, `Heeded` says of each id what the last notification still queued for it says: it
  is a screen if that is a connection, none if that is a disconnection, and what the
  clients believe if nothing is queued.
* `GrpInv` says, until a call is torn or the service fails, that the groups are `Sound` after every step
  inside the handlers too: each group has a child, each child knows its group, no screen is in two.
  No group runs empty because a handler that makes screens leave (`Framed`) has one that it
  leaves in, and a `MakeMirror` or `MakeExpand` between its critical sections (`Called`) has a
  physical screen in the group which is not on its list. That is a fact about what others do
  meanwhile: a screen that is not torn out of the groups can only have joined (`Grows`), left by
  `Shrinks`, or been a virtual screen taken off by its client (`Moved`). For `MakeExpand` the fact holds
  because the default screen is not on the list, and so fails if it changes: the attempt to
  prove it showed that, and `torn` records it.

* `DisplaysInTheirGroup` (`DisplaysPlaced`) and `GroupsHaveDisplays` (`GroupsShown`) have a hypothesis of
  their own, that the device has a built-in screen (`BuiltIn # {}`). They fail without it: TLC finds, when
  every screen can be unplugged, that the display of the only screen stays when that screen is gone. Nor is it enough to
  look at the displays. `ShowInv` starts with a service that has not heard of the default screen
  (`Lone`): it has no group and no display, and the connection of that screen is the next thing
  it handles. From then on (`Show`) the displays are all of the one group there is, each
  on a child of it or on the default screen and no two on another screen; a physical screen of an expanded group has one, and so has
  each child with content of its own, and in a mirrored group a physical child has one. That each change keeps this depends on what it was
  begun for, so the work and the call under way say which screens they may move (`AimsWork`, `AimsCall`): never the source of the mirror,
  never the default screen of an expansion, and when a mirrored group becomes an expanded one every other physical screen.

`IpcChannelProofs` proves `MessagesAgree` (`IpcAgrees`) for all 132 messages and classes and any bound on the
posts that wait. `Aligned` says when a list of fields that is read fits the list that was written: the
same kinds and names in the same order, under the same conditions, but for two
differences the code has and that do no harm. An optional object may be read always, if what follows is
always there and is no object (`UPDATE_FOCUS`, `BIND_DIALOG_TARGET`, `CREATE_VIRTUAL_SCREEN`): the reader finds no
object and leaves the rest alone. And results may always be written and read on
success only, if nothing is read after them (the hot zones). `AlignedRead` says that a reader of
aligned fields gets for each what was written, or null for what was not given. It is an induction over the fields: `Present` and
`ReadParcel` are recursive functions, and the induction is said of sets, as in `WindowRootProofs`.
Then each proxy function is paired with the case of its code (`Pair`), and each
interface has one case for each code its proxies send (`EachAnswered`). `IpcInv` says how often the
method of the call under way was run, not at all until it was dispatched and once when it has replied, and
whose results the reply holds. `SETBOUNDS` is exempt, as in the property.

The type invariants of `SplitScreen` and `DisplayService` are proved and not checked again by a run.

The inductive invariants were checked with TLC before they were proved, except those of
`DisplayServiceProofs`, which range over functions on `Nat`: of these TLC checked the properties they imply. The
assumptions of all proofs are the named `ASSUME`s of the modules and the hypotheses that the theorems state,
no more.

Only checked by TLC: the liveness properties (`PairingEnds`, `HotPlugSettles`, `WcCallsEnd`,
`JsSettlesAll`, `ScAnswered`), because TLAPS does not prove liveness under fairness; the action property
`OnlyActiveRises` of `WindowRoot`, which compares two z orders pair by pair; and of
`WlKeepsClear` the part `WlHeld`, about floating windows, which does not hold for every value of the constants. While a window of a fixed aspect ratio is
dragged, `FixWindowSizeByRatioIfDragBeyondLimitRegion` rounds its size down, and with windows of two by three
pixels and a title of one TLC finds one whose width becomes zero. With sizes as the code has them
a title is many pixels, and the run shows `WlHeld` on such an instance.

## Known deviations

Behaviour of the code that the properties exempt by name, because it contradicts no
document of the repository but a reader should know of it.

* Bindings. `setSystemBarProperties` rejects a property and goes on; `getDefaultDisplay` and
  `getAllDisplay` settle again after bad arguments were rejected; `setPreferredOrientation`,
  `setPrivacyMode` and `getAvoidArea` ignore a result; of the two system bars only the second
  result counts; the storage of `loadContent` is held by a weak reference to a temporary;
  the stage reads arguments behind too few; the tasks of `destroy`, `createWindow` and
  `getTopWindow` and those of display and screen listeners hold bare pointers. The finalizer of an object erases its window's
  name from the map, also when a newer object has the name; `Destroy` takes the object out of the map before the service
  refuses; a window that the service destroys leaves its object in the map, and a script that asks for the next
  window of the name is given that one (`jsLeft`, exempt from `JsNamesFresh`). `show` may resolve although the service
  hides the window, when a message sent before the hide arrives after it (`JsDone` is about hide and destroy).
* `WindowImpl`. A setter that skips equal values keeps a value whose update failed; a change
  made while a window is frozen or hidden is sent by no later call; the answer to `Show`
  or `Hide` overwrites what `NotifyDestroy` set; `DestroyFloatingWindow` does not end when the service
  dies under it.
* Messages. `UpdateRsTree` does not wait and reads a reply; `SetBounds` of an extension writes
  height before width; `RequestFocus` of an extension sends nothing; `SetFreeze` answers
  true without reading its reply.
* Services. The token of a window is stored after its task even when the task failed, and then under the id in a
  variable nobody set. An id that has a token keeps it; one that has none is given a wrong one, which no call removes but the caller's own
  `DestroyWindow` of that id, so that the application that is given the id later cannot destroy its window (`scStray`, exempt from
  `ScOwned`). The tokens of a process that died stay.
* Listeners. After a restart of a service nothing is registered again; unregistering the
  last listener of screen groups takes the agent from those of screens; two threads in
  the list of avoid areas send a stale size; two threads that both find no callback
  thread make two, and tasks of the first are dropped.
* Power. Listeners are told outside the lock, so that two calls tell in any order; a
  window that takes to showing when locked while frozen is not thawed; a suspend that
  is not followed by OFF leaves ON refused as the state already set.
* Layout. A window is laid out alone with limits an earlier call left, and recents shown full screen end the layout of the tree
  before the applications; a bar that comes after the divider was let go moves the halves and not the divider's own window, and one that comes over
  a divider at its end leaves the limit of a half (`UpdateSplitLimitRect`) a size below zero (`GapInside` leaves this out); `LimitWindowToBottomRightCorner` moves windows into the display as
  it was before it turned; while a window is dragged the dock's edge is taken for the limit, and its left bound is off by one;
  `FixWindowSizeByRatioIfDragBeyondLimitRegion` tests the horizontal place twice; sizes that follow from a ratio are truncated.
* Tiles. What a rotation or a removal puts on the minimize list is executed by whichever call executes it next; a window
  taken back from that list may stand in the queue a second time, be hidden, or have no tile of its own; a bar that goes does
  not renew the tiles.
* Rotation. Threads read and turn without a lock; the switch is skipped when the
  controller last saw the same orientation, whatever the user asked since.

## What is not modelled

One display; no animation controller; no picture-in-picture. Geometry is modelled in `WindowLayout` and `WindowTile` only,
which do not share a state with `WindowRoot` and `SplitScreen`: who covers whom and who is where are checked apart. Of the
layout, avoid areas, stretchable windows, hot zones, shadows and several displays are left out, and the order
of the main windows is any (`CascadeRects`, `Reorder`). Two
windows of the same kind of system window, and brightness, orientation, avoid areas
and system bars as consequences of the active window, are left out. Undefined
behaviour that the code can reach (a null `parent_` when a sub window of a hidden
main window is raised) is excluded by a guard with a name (`RaiseFaults`).
`ActiveVisible` is checked without a dialog: with one, `GetNextActiveWindow` can
return the very dialog that goes. `PROJECT.json` lists every component, with those
not modelled and why.

Of the display side: modes, sizes, the interval between sensor events, shot screens (their map of nodes stays empty, because no id outside the map of
screens has a render service id). The render service is assumed to report the default
screen first, to have a built-in screen that is the default one as long as it is there,
and to raise no event for a virtual screen. The callbacks of the display controller are
registered from the start: the events that come before are replayed by
`ScreenConnectionInDisplayInit`, which is not modelled. `RemoveVirtualScreenFromGroup`
takes no lock in the code; here it has its turn. Clients pass ids of screens they have
been told of, none of groups.

With every physical screen hot-pluggable the code does more that a model of it shows and
no document of the repository rules out: the display of the last screen stays
(`dummyDisplay_` is never set), and a default screen that is first asked for by a method
stays out of the groups. The instances therefore have a built-in screen.

Of the client: input and its channel, vsync, drawing, decoration, moving and dragging, and
what `WindowScene` and the ability do around the windows. `WindowClient` has one window with one
setter or one main window with one child; two applications meet in `WindowRoot` and `ServiceCalls`.
The conversion of values between JavaScript and C++ is not modelled: arguments are too
few, of the wrong type, or good. Of the services: configuration and start, the dumps,
the threads that register with other services again and again until they succeed.

Components without a module: remote animations, most of `DisplayGroupController` and several displays,
avoid areas, drag controllers, freezing of windows by the
accessibility service, the input monitor, the agent controllers of the services, dumpers,
parsers, utilities, tools and tests. They are in `PROJECT.json` with their reasons.

Hazards of modelled files that no property covers, and that have no entry in `PROJECT.json`:

* `window_pair.cpp:217`: `Clear` destroys the divider only when it is a member already;
  `inner_window.cpp:149`: a divider created before the last one was cancelled overwrites its
  dialog id; `inner_window.cpp:131`: the placeholder is set by one thread and cleared by another.
* `window_controller.cpp:47`: a cold start that is to be stopped leaves a saved node without
  token; `window_root.cpp:429`: a sub window without parent is refused after it was put in the tree.
* `window_node_container.cpp:1202`: raising follows a null parent of a hidden main window;
  `:1259`: the next active window may be a dialog; `:488`: `Destroy` erases from what it walks over;
  `:1619`: without a window pair the order of windows shown when locked is left half done.
* Mode support under the keyguard, the size of the window an input method calls for, the unlock in a
  finish callback, late vsync requests, the removal of agents that died, and the two
  functions of the display side that take no lock (`RemoveVirtualScreenFromGroup`, `ProcessNormalScreenDisconnected`).

## Plan

Done: the core of both services, the client, its listeners, interfaces, bindings, power and
rotation. What would come next:

1. The locked screen and the split screen together (`WindowRoot` over `WindowPair`),
   toggling all windows, `GetOrderedPair` and raising a pair.
2. `RemoteAnimation`: minimize and unlock deferred to a finish callback that may never come.
3. Several displays in the window manager (`DisplayGroupController`), and the display events
   as it sees them.
4. `VsyncStation`, `DragController`, avoid areas, the calling window of the input method.
5. Proofs: that raising a window raises no other (`OnlyActiveRises`); from which sizes on the title bar of a floating window can be taken hold of (`WlHeld`).
