--------------------------- MODULE ServiceCallsProofs ---------------------------
(* For any applications, windows and virtual screens, and however many calls and
   deaths: an application that lives holds the token of exactly what it owns.      *)
EXTENDS ServiceCalls, TLAPS

(* The rows of the calls: what creates and destroys is done under the lock of the
   display service, or in a task the caller waits for.                             *)
RowType == [at : {"wms", "dms"}, post : {"sync", "async", "here"}, lock : BOOLEAN, tells : BOOLEAN,
            asks : BOOLEAN, may : {"all", "system", "capture"}, checks : BOOLEAN, does : {"none", "create", "destroy"}]
PlainRows == {r \in RowType : r.does = "none" /\ (r.lock => r.post = "here")}
OwningRows == {r \in RowType : /\ r.does # "none" /\ ~r.asks
                               /\ \/ r.lock /\ r.post = "here"
                                  \/ ~r.lock /\ r.post = "sync"}

LEMMA RowsClosed ==
    /\ Op!Sync \in PlainRows /\ Op!Async \in PlainRows /\ Op!Here \in PlainRows
    /\ Op!Free \in PlainRows /\ Op!Locks \in PlainRows
    /\ \A r \in PlainRows : /\ Op!Checked(r) \in PlainRows /\ Op!System(r) \in PlainRows
                            /\ Op!Telling(r) \in PlainRows /\ Op!Asking(r) \in PlainRows
                            /\ [r EXCEPT !.may = "capture"] \in PlainRows
<1>1. Op!Row \in PlainRows /\ ~Op!Row.lock /\ Op!Row.post = "here"
  BY DEF Op!Row, PlainRows, RowType
<1>2. Op!Sync \in PlainRows /\ Op!Async \in PlainRows
  BY <1>1 DEF Op!Sync, Op!Async, PlainRows, RowType
<1>3. Op!Here \in PlainRows /\ Op!Free \in PlainRows /\ Op!Locks \in PlainRows
  BY <1>1 DEF Op!Here, Op!Free, Op!Locks, PlainRows, RowType
<1>4. ASSUME NEW r \in PlainRows
      PROVE  /\ Op!Checked(r) \in PlainRows /\ Op!System(r) \in PlainRows
             /\ Op!Telling(r) \in PlainRows /\ Op!Asking(r) \in PlainRows
             /\ [r EXCEPT !.may = "capture"] \in PlainRows
  BY <1>4 DEF Op!Checked, Op!System, Op!Telling, Op!Asking, PlainRows, RowType
<1> QED BY <1>2, <1>3, <1>4

LEMMA OwningRowsOK ==
    /\ Op!CreateWindow \in OwningRows /\ Op!DestroyWindow \in OwningRows
    /\ Op!CreateVirtualScreen \in OwningRows /\ Op!DestroyVirtualScreen \in OwningRows
<1>1. Op!Sync \in RowType /\ ~Op!Sync.lock /\ ~Op!Sync.asks /\ Op!Sync.post = "sync"
  BY DEF Op!Sync, Op!Row, RowType
<1>2. Op!Locks \in RowType /\ Op!Locks.lock /\ ~Op!Locks.asks /\ Op!Locks.post = "here"
  BY DEF Op!Locks, Op!Row, RowType
<1>3. Op!CreateWindow \in OwningRows /\ Op!DestroyWindow \in OwningRows
  BY <1>1 DEF Op!CreateWindow, Op!DestroyWindow, Op!Checked, OwningRows, RowType
<1>4. Op!CreateVirtualScreen \in OwningRows /\ Op!DestroyVirtualScreen \in OwningRows
  BY <1>2 DEF Op!CreateVirtualScreen, Op!DestroyVirtualScreen, Op!Checked, Op!Telling, OwningRows, RowType
<1> QED BY <1>3, <1>4

LEMMA RowsOK == ScRows \subseteq PlainRows \cup OwningRows
<1>1. Op!WindowAdapter \subseteq PlainRows \cup OwningRows
  BY RowsClosed, OwningRowsOK
  DEF Op!WindowAdapter, Op!AddWindow, Op!RemoveWindow, Op!RequestFocus, Op!RegisterWindowManagerAgent,
      Op!UnregisterWindowManagerAgent, Op!GetAccessibilityWindowInfo, Op!SetWindowAnimationController,
      Op!GetAvoidAreaByType, Op!NotifyServerReadyToMoveOrDrag, Op!ProcessPointDown, Op!ProcessPointUp,
      Op!MinimizeAllAppWindows, Op!ToggleShownStateForAllAppWindows, Op!GetSystemConfig, Op!GetModeChangeHotZones,
      Op!GetTopWindowId, Op!SetWindowLayoutMode, Op!UpdateProperty, Op!TransitionFromClient,
      Op!MinimizeWindowsByLauncher, Op!UpdateAvoidAreaListener, Op!UpdateRsTree, Op!BindDialogTarget
<1>2. Op!DisplayManagerAdapter \subseteq PlainRows \cup OwningRows
  BY RowsClosed
  DEF Op!DisplayManagerAdapter, Op!GetDefaultDisplayInfo, Op!GetDisplayInfoByScreen, Op!GetDisplaySnapshot,
      Op!RegisterDisplayManagerAgent, Op!UnregisterDisplayManagerAgent, Op!WakeUpBegin, Op!WakeUpEnd,
      Op!SuspendBegin, Op!SuspendEnd, Op!SetDisplayState, Op!GetDisplayState, Op!NotifyDisplayEvent, Op!SetFreeze,
      Op!GetAllDisplayIds, Op!HasPrivateWindow, Op!GetDisplayInfoById, Op!GetCutoutInfo
<1>3. Op!ScreenManagerAdapter \subseteq PlainRows \cup OwningRows
  BY RowsClosed, OwningRowsOK
  DEF Op!ScreenManagerAdapter, Op!GetScreenSupportedColorGamuts, Op!GetScreenColorGamut, Op!SetScreenColorGamut,
      Op!GetScreenGamutMap, Op!SetScreenGamutMap, Op!SetScreenColorTransform, Op!SetVirtualScreenSurface,
      Op!SetOrientation, Op!SetScreenRotationLocked, Op!IsScreenRotationLocked, Op!SetScreenPowerForAll,
      Op!GetScreenPower, Op!MakeMirror, Op!GetScreenInfoById, Op!GetScreenGroupInfoById, Op!GetAllScreenInfos,
      Op!MakeExpand, Op!RemoveVirtualScreenFromGroup, Op!SetScreenActiveMode, Op!SetVirtualPixelRatio
<1>4. Op!SystemCalls \subseteq PlainRows \cup OwningRows
  BY RowsClosed
  DEF Op!SystemCalls, Op!TransitionFromAbility, Op!GetFocusWindowInfo, Op!StartingWindow, Op!CancelStartingWindow,
      Op!NotifyWindowClientPointUp, Op!OnScreenshot, Op!OnAccountSwitched, Op!WindowVisibilityChanged
<1> QED BY <1>1, <1>2, <1>3, <1>4 DEF ScRows

-----------------------------------------------------------------------------
(* A call and a task. A call that owns goes to the end without a second stop. *)
CallType == [pc : {"idle", "lock", "locked", "wait", "answer"}, tells : BOOLEAN, asks : BOOLEAN,
             does : {"none", "create", "destroy", "failed"}, thing : ScThings \cup {"none"}]
TaskType == [pc : {"idle", "lock", "do"}, from : ScApps \cup {"none"},
             does : {"none", "create", "destroy", "mourn"}, thing : ScThings \cup ScApps \cup {"none"}]
CallFits(c) == /\ c.does = "none" \/ c.pc = "idle" => c.thing = "none"
               /\ c.does = "failed" => c.pc = "answer"
               /\ c.does # "none" => ~c.asks /\ (c.pc # "answer" => c.thing # "none")
ScCallsOK == scCall \in [ScApps -> CallType] /\ \A a \in ScApps : CallFits(scCall[a])

(* A task done for a caller does what its call says, while the caller waits; the others
   change nothing but what a dead application had.                                   *)
TaskFits(task, calls, dead) ==
  /\ task.from # "none" => /\ calls[task.from].pc = "wait" /\ task.does = calls[task.from].does
                           /\ task.thing = calls[task.from].thing
  /\ task.from = "none" => task.does = "none" \/ (task.does = "mourn" /\ task.thing \in dead)
TasksFit(queue, task, calls, dead) ==
  /\ queue \in Seq(TaskType) /\ task \in TaskType
  /\ TaskFits(task, calls, dead) /\ \A i \in 1..Len(queue) : TaskFits(queue[i], calls, dead)
  /\ \A i \in 1..Len(queue) : queue[i].from # "none" =>
       task.from # queue[i].from /\ \A j \in 1..Len(queue) : j # i => queue[j].from # queue[i].from

(* What a call is about is nobody else's, and exists only as far as the call has come;
   everything else is held by whom it belongs to. Nothing is said of an id with a stray
   token, and a creation that failed is about nothing: it only finds tokens to keep.  *)
CallHolds(a, t) ==
  /\ scTokens[t] = "none" /\ \A b \in ScApps \ {a} : ~ScAbout(b, t)
  /\ scCall[a].does = "create" /\ scCall[a].pc # "answer" => scThere[t] = "none"
  /\ scCall[a].does = "create" /\ scCall[a].pc = "answer" =>
       scThere[t] \in {a, "none"} /\ (a \notin scDead => scThere[t] = a)
  /\ scCall[a].does = "destroy" /\ scCall[a].pc = "answer" => scThere[t] = "none"
ScThingOK(t) == t \notin scStray =>
  /\ \A a \in ScApps : ScAbout(a, t) => CallHolds(a, t)
  /\ (\A a \in ScApps : ~ScAbout(a, t)) => \A a \in ScApps \ scDead : scTokens[t] = a <=> scThere[t] = a

ScTypeOK == /\ scDead \subseteq ScApps
            /\ scThere \in [ScThings -> ScApps \cup {"none"}] /\ scTokens \in [ScThings -> ScApps \cup {"none"}]
ScInv == /\ ScTypeOK /\ ScCallsOK /\ TasksFit(scQueue, scTask, scCall, scDead)
         /\ \A t \in ScThings : ScThingOK(t)

-----------------------------------------------------------------------------
LEMMA ScInitOK == ScInit => ScInv
<1> SUFFICES ASSUME ScInit PROVE ScInv
  OBVIOUS
<1>1. ScTypeOK
  BY DEF ScInit, ScTypeOK
<1>2. ScCallsOK
  <2>1. NoScCall \in CallType /\ CallFits(NoScCall)
    BY DEF NoScCall, CallType, CallFits
  <2> QED BY <2>1 DEF ScInit, ScCallsOK
<1>3. TasksFit(scQueue, scTask, scCall, scDead)
  <2>1. scTask \in TaskType /\ scTask.from = "none" /\ scTask.does = "none"
    BY DEF ScInit, NoScTask, TaskType
  <2>2. scQueue \in Seq(TaskType) /\ Len(scQueue) = 0
    BY DEF ScInit
  <2> QED BY <2>1, <2>2 DEF TasksFit, TaskFits
<1>4. ASSUME NEW t \in ScThings PROVE ScThingOK(t)
  <2>1. \A a \in ScApps : scCall[a].thing = "none"
    BY DEF ScInit, NoScCall
  <2> QED BY <2>1, ScAssumption DEF ScInit, ScThingOK, ScAbout
<1> QED BY <1>1, <1>2, <1>3, <1>4 DEF ScInv

(* The tasks go on fitting when only calls that do not wait change, when one is
   appended, and when the first one is taken.                                      *)
LEMMA FitsCalls ==
    ASSUME NEW q, NEW task, NEW calls, NEW dead, TasksFit(q, task, calls, dead),
           NEW others, NEW gone, dead \subseteq gone,
           \A a \in ScApps : calls[a].pc = "wait" =>
             others[a].pc = "wait" /\ others[a].does = calls[a].does /\ others[a].thing = calls[a].thing
    PROVE  TasksFit(q, task, others, gone)
<1>1. ASSUME NEW x \in TaskType, TaskFits(x, calls, dead) PROVE TaskFits(x, others, gone)
  BY <1>1 DEF TaskFits, TaskType
<1>2. \A i \in 1..Len(q) : q[i] \in TaskType
  BY DEF TasksFit
<1> QED BY <1>1, <1>2 DEF TasksFit

LEMMA FitsAppend ==
    ASSUME NEW q, NEW task, NEW calls, NEW dead, TasksFit(q, task, calls, dead),
           NEW x \in TaskType, TaskFits(x, calls, dead),
           x.from # "none" => task.from # x.from /\ \A i \in 1..Len(q) : q[i].from # x.from
    PROVE  TasksFit(Append(q, x), task, calls, dead)
<1> DEFINE r == Append(q, x)
<1>1. q \in Seq(TaskType) /\ task \in TaskType
  BY DEF TasksFit
<1>2. r \in Seq(TaskType) /\ Len(r) = Len(q) + 1 /\ r[Len(q) + 1] = x
      /\ \A i \in 1..Len(q) : r[i] = q[i]
  BY <1>1
<1>3. \A i \in 1..Len(r) : i \in 1..Len(q) \/ i = Len(q) + 1
  BY <1>1, <1>2
<1> HIDE DEF r
<1>4. \A i \in 1..Len(r) : TaskFits(r[i], calls, dead)
  BY <1>2, <1>3 DEF TasksFit
<1>5. \A i \in 1..Len(r) : r[i].from # "none" =>
        task.from # r[i].from /\ \A j \in 1..Len(r) : j # i => r[j].from # r[i].from
  BY <1>1, <1>2, <1>3 DEF TasksFit
<1>6. TasksFit(r, task, calls, dead)
  BY <1>1, <1>2, <1>4, <1>5 DEF TasksFit
<1> QED BY <1>6 DEF r

LEMMA FitsTail ==
    ASSUME NEW q, NEW calls, NEW dead, TasksFit(q, NoScTask, calls, dead), q # <<>>, NEW x \in TaskType,
           x.from = Head(q).from, x.does = Head(q).does, x.thing = Head(q).thing
    PROVE  TasksFit(Tail(q), x, calls, dead)
<1> DEFINE r == Tail(q)
<1>1. q \in Seq(TaskType) /\ Head(q) = q[1] /\ 1 \in 1..Len(q)
  BY DEF TasksFit
<1>2. r \in Seq(TaskType) /\ Len(r) = Len(q) - 1 /\ \A i \in 1..Len(r) : r[i] = q[i + 1] /\ i + 1 \in 1..Len(q)
  BY <1>1
<1> HIDE DEF r
<1>3. TaskFits(x, calls, dead)
  BY <1>1 DEF TasksFit, TaskFits
<1>4. \A i \in 1..Len(r) : TaskFits(r[i], calls, dead)
  BY <1>2 DEF TasksFit
<1>5. ASSUME NEW i \in 1..Len(r), r[i].from # "none"
      PROVE  x.from # r[i].from /\ \A j \in 1..Len(r) : j # i => r[j].from # r[i].from
  <2>1. i + 1 # 1 /\ q[i + 1].from # "none" /\ r[i] = q[i + 1]
    BY <1>2, <1>5
  <2>2. \A j \in 1..Len(q) : j # i + 1 => q[j].from # q[i + 1].from
    BY <1>2, <2>1 DEF TasksFit
  <2>3. x.from # r[i].from
    BY <1>1, <2>1, <2>2
  <2>4. \A j \in 1..Len(r) : j # i => j + 1 # i + 1
    BY <1>1, <1>2
  <2> QED BY <1>2, <2>1, <2>2, <2>3, <2>4
<1>6. TasksFit(r, x, calls, dead)
  BY <1>2, <1>3, <1>4, <1>5 DEF TasksFit
<1> QED BY <1>6 DEF r

(* A caller that does not wait has no task. *)
LEMMA NoTaskOf ==
    ASSUME NEW q, NEW task, NEW calls, NEW dead, TasksFit(q, task, calls, dead),
           NEW a \in ScApps, calls[a].pc # "wait"
    PROVE  task.from # a /\ \A i \in 1..Len(q) : q[i].from # a
BY ScAssumption DEF TasksFit, TaskFits

-----------------------------------------------------------------------------
(* Nothing changes hands while the calls go on without coming to their answer. *)
LEMMA ThingsStay ==
    ASSUME NEW t \in ScThings, ScThingOK(t), UNCHANGED <<scThere, scTokens, scStray>>, scDead \subseteq scDead',
           \A a \in ScApps : scCall'[a].thing = scCall[a].thing,
           \A a \in ScApps : scCall[a].thing # "none" =>
             scCall'[a].does = scCall[a].does /\ (scCall'[a].pc = "answer" <=> scCall[a].pc = "answer")
    PROVE  ScThingOK(t)'
<1>1. t # "none"
  BY ScAssumption
<1>2. \A a \in ScApps : ScAbout(a, t)' <=> ScAbout(a, t)
  BY <1>1 DEF ScAbout
<1>3. ASSUME t \notin scStray, NEW a \in ScApps, ScAbout(a, t)' PROVE CallHolds(a, t)'
  <2>1. CallHolds(a, t) /\ scCall[a].thing = t
    BY <1>2, <1>3 DEF ScThingOK, ScAbout
  <2> QED BY <1>1, <1>2, <2>1 DEF CallHolds
<1>4. ASSUME t \notin scStray, \A a \in ScApps : ~ScAbout(a, t)'
      PROVE  \A a \in ScApps \ scDead' : scTokens'[t] = a <=> scThere'[t] = a
  BY <1>2, <1>4 DEF ScThingOK
<1> QED BY <1>3, <1>4 DEF ScThingOK

(* One call changes its place only. *)
LEMMA ScPlaceOK ==
    ASSUME ScCallsOK, NEW a \in ScApps, NEW pc \in {"lock", "locked", "wait", "answer"},
           scCall' = [scCall EXCEPT ![a].pc = pc],
           scCall[a].pc \in {"idle", "answer"} => pc = "answer"
    PROVE  /\ ScCallsOK' /\ scCall'[a].pc = pc /\ \A b \in ScApps \ {a} : scCall'[b] = scCall[b]
           /\ \A b \in ScApps : scCall'[b].thing = scCall[b].thing /\ scCall'[b].does = scCall[b].does
                                /\ scCall'[b].asks = scCall[b].asks /\ scCall'[b].tells = scCall[b].tells
<1>1. scCall \in [ScApps -> CallType] /\ CallFits(scCall[a])
  BY DEF ScCallsOK
<1>2. /\ scCall' \in [ScApps -> CallType] /\ scCall'[a].pc = pc /\ \A b \in ScApps \ {a} : scCall'[b] = scCall[b]
      /\ scCall'[a].thing = scCall[a].thing /\ scCall'[a].does = scCall[a].does
      /\ scCall'[a].asks = scCall[a].asks /\ scCall'[a].tells = scCall[a].tells
  BY <1>1 DEF CallType
<1> QED BY <1>1, <1>2 DEF ScCallsOK, CallFits

(* The tasks stay as they are, and so do the calls that wait for them. *)
LEMMA FitsStay ==
    ASSUME TasksFit(scQueue, scTask, scCall, scDead), UNCHANGED <<scQueue, scTask>>, scDead \subseteq scDead',
           \A a \in ScApps : scCall[a].pc = "wait" =>
             scCall'[a].pc = "wait" /\ scCall'[a].does = scCall[a].does /\ scCall'[a].thing = scCall[a].thing
    PROVE  TasksFit(scQueue, scTask, scCall, scDead)'
<1>1. TasksFit(scQueue, scTask, scCall', scDead')
  BY FitsCalls
<1> QED BY <1>1

LEMMA ScFailsOK ==
    ASSUME ScInv, NEW a \in ScApps, NEW row, NEW t, ScFails(a, row, t)
    PROVE  ScInv'
<1>1. /\ scCall[a].pc = "idle" /\ scCall' = [scCall EXCEPT ![a].pc = "answer"]
      /\ UNCHANGED <<scDead, scQueue, scTask, scThere, scTokens, scStray>>
  BY DEF ScFails, ScMayCall, scOwned
<1>2. /\ ScCallsOK' /\ scCall'[a].pc = "answer" /\ (\A b \in ScApps \ {a} : scCall'[b] = scCall[b])
      /\ \A b \in ScApps : scCall'[b].thing = scCall[b].thing /\ scCall'[b].does = scCall[b].does
  BY <1>1, ScPlaceOK DEF ScInv
<1>3. scCall[a].thing = "none"
  BY <1>1 DEF ScInv, ScCallsOK, CallFits
<1>4. TasksFit(scQueue, scTask, scCall, scDead)'
  BY <1>1, <1>2, FitsStay DEF ScInv
<1>5. \A x \in ScThings : ScThingOK(x)'
  BY <1>1, <1>2, <1>3, ThingsStay DEF ScInv
<1> QED BY <1>1, <1>2, <1>4, <1>5 DEF ScInv, ScTypeOK

LEMMA ScEntersOK ==
    ASSUME ScInv, NEW a \in ScApps, NEW row \in ScRows, NEW t \in ScThingsOf(row), ScEnters(a, row, t)
    PROVE  ScInv'
<1> DEFINE waits == row.post = "sync"
           c == [pc |-> IF row.lock THEN "lock" ELSE IF waits THEN "wait" ELSE "answer",
                 tells |-> row.tells, asks |-> row.asks, does |-> row.does, thing |-> t]
           x == ScTaskOf(IF waits THEN a ELSE "none", row.does, t)
<1>1. /\ row \in RowType /\ (row.lock => row.post = "here")
      /\ row.does # "none" => ~row.asks /\ (row.lock \/ row.post = "sync")
  BY RowsOK DEF PlainRows, OwningRows
<1>2. (row.does = "none" => t = "none") /\ (row.does # "none" => t \in ScThings /\ t # "none")
  BY ScAssumption DEF ScThingsOf, ScThings
<1>3. /\ scCall[a].pc = "idle" /\ scCall' = [scCall EXCEPT ![a] = c]
      /\ scQueue' = IF row.post = "here" THEN scQueue ELSE Append(scQueue, x)
      /\ UNCHANGED <<scDead, scTask, scThere, scStray>>
      /\ scTokens' = IF row.does = "destroy" THEN [scTokens EXCEPT ![t] = "none"] ELSE scTokens
      /\ row.does = "create" => ScNew(t)
      /\ row.does = "destroy" => scTokens[t] = a
  BY DEF ScEnters, ScMayCall, ScRefused, IsExistAndRemove
<1>4. c \in CallType /\ CallFits(c)
  BY <1>1, <1>2 DEF CallType, CallFits, RowType
<1>5. /\ c.thing = t /\ c.does = row.does /\ c.does # "failed"
      /\ (row.does # "none" => c.pc # "answer") /\ (row.post = "sync" => c.pc = "wait")
  BY <1>1 DEF RowType
<1> HIDE DEF c
<1>6. /\ ScCallsOK' /\ scCall'[a] = c /\ \A b \in ScApps \ {a} : scCall'[b] = scCall[b]
  BY <1>3, <1>4 DEF ScInv, ScCallsOK
<1>7. scCall[a].thing = "none"
  BY <1>3 DEF ScInv, ScCallsOK, CallFits
<1>8. TasksFit(scQueue, scTask, scCall, scDead)'
  <2>1. TasksFit(scQueue, scTask, scCall', scDead)
    BY <1>3, <1>6, FitsCalls DEF ScInv
  <2>2. CASE row.post = "here"
    BY <1>3, <2>1, <2>2
  <2>3. CASE row.post # "here"
    <3>1. x \in TaskType /\ x.from = (IF waits THEN a ELSE "none") /\ x.does = row.does /\ x.thing = t
      BY <1>1, <1>2 DEF ScTaskOf, NoScTask, TaskType, RowType
    <3> HIDE DEF x
    <3>2. TaskFits(x, scCall', scDead)
      BY <1>1, <1>5, <1>6, <2>3, <3>1, ScAssumption DEF TaskFits
    <3>3. scTask.from # a /\ \A i \in 1..Len(scQueue) : scQueue[i].from # a
      BY <1>3, NoTaskOf DEF ScInv
    <3>4. TasksFit(Append(scQueue, x), scTask, scCall', scDead)
      BY <2>1, <3>1, <3>2, <3>3, FitsAppend
    <3> QED BY <1>3, <2>3, <3>4
  <2> QED BY <2>2, <2>3
<1>9. ASSUME NEW y \in ScThings PROVE ScThingOK(y)'
  <2>1. ScThingOK(y) /\ y # "none"
    BY ScAssumption DEF ScInv
  <2>2. CASE y # t
    <3>1. scTokens'[y] = scTokens[y] /\ scThere'[y] = scThere[y] /\ scDead' = scDead
      BY <1>2, <1>3, <2>2 DEF ScInv, ScTypeOK
    <3>2. \A b \in ScApps : ScAbout(b, y)' <=> ScAbout(b, y)
      BY <1>5, <1>6, <1>7, <2>1, <2>2 DEF ScAbout
    <3>3. \A b \in ScApps : ScAbout(b, y) => scCall'[b] = scCall[b]
      BY <1>6, <1>7, <2>1 DEF ScAbout
    <3> QED BY <1>3, <2>1, <3>1, <3>2, <3>3 DEF ScThingOK, CallHolds, ScAbout
  <2>3. CASE y = t /\ t \notin scStray
    <3>1. \A b \in ScApps : ~ScAbout(b, t)
      <4>1. CASE row.does = "create"
        BY <1>3, <2>3, <4>1 DEF ScNew
      <4>2. CASE row.does = "destroy"
        BY <1>3, <2>1, <2>3, <4>2, ScAssumption DEF ScThingOK, CallHolds, ScAbout
      <4> QED BY <1>1, <1>2, <2>1, <2>3, <4>1, <4>2 DEF RowType
    <3>2. scTokens'[t] = "none" /\ (row.does = "create" => scThere'[t] = "none") /\ row.does \in {"create", "destroy"}
      BY <1>1, <1>2, <1>3, <2>1, <2>3 DEF ScNew, ScInv, ScTypeOK, RowType
    <3>3. ScAbout(a, t)' /\ \A b \in ScApps \ {a} : ~ScAbout(b, t)'
      BY <1>5, <1>6, <3>1 DEF ScAbout
    <3>4. \A b \in ScApps : ScAbout(b, t)' => CallHolds(b, t)'
      BY <1>5, <1>6, <2>3, <3>2, <3>3 DEF CallHolds
    <3> QED BY <2>3, <3>3, <3>4 DEF ScThingOK
  <2>4. CASE y = t /\ t \in scStray
    BY <1>3, <2>4 DEF ScThingOK
  <2> QED BY <2>2, <2>3, <2>4
<1>10. ScTypeOK'
  BY <1>3 DEF ScInv, ScTypeOK
<1> QED BY <1>6, <1>8, <1>9, <1>10 DEF ScInv

-----------------------------------------------------------------------------
(* What is done for a caller, or for an application that died. *)
LEMMA ScDoesOK ==
    ASSUME ScTypeOK, NEW does, NEW a \in ScApps \cup {"none"}, NEW thing, NEW done \in BOOLEAN, ScDoes(does, a, thing, done)
    PROVE  /\ does = "none" \/ (does = "create" /\ ~done) => scThere' = scThere
           /\ does = "create" /\ done => scThere' = [scThere EXCEPT ![thing] = a]
           /\ does = "destroy" => scThere' = [scThere EXCEPT ![thing] = "none"]
           /\ does = "mourn" => scThere' = [t \in ScThings |-> IF t \in ScWindows /\ scThere[t] = thing THEN "none" ELSE scThere[t]]
           /\ does \in {"none", "create", "destroy", "mourn"} => scThere' \in [ScThings -> ScApps \cup {"none"}]
<1>1. /\ does = "none" \/ (does = "create" /\ ~done) => scThere' = scThere
      /\ does = "create" /\ done => scThere' = [scThere EXCEPT ![thing] = a]
      /\ does = "destroy" => scThere' = [scThere EXCEPT ![thing] = "none"]
      /\ does = "mourn" => scThere' = [t \in ScThings |-> IF t \in ScWindows /\ scThere[t] = thing THEN "none" ELSE scThere[t]]
  BY DEF ScDoes
<1> QED BY <1>1 DEF ScTypeOK

(* A call that owns is done, by its own thread or in the task it waits for. *)
LEMMA OwningDone ==
    ASSUME ScInv, NEW a \in ScApps, scCall[a].does # "none", scCall[a].pc \notin {"idle", "answer"},
           NEW done \in ScMayFail(scCall[a].does), ScDoes(scCall[a].does, a, scCall[a].thing, done),
           scCall' \in [ScApps -> CallType], \A b \in ScApps \ {a} : scCall'[b] = scCall[b],
           scCall'[a].pc = "answer", scCall'[a].asks = scCall[a].asks,
           done => scCall'[a].does = scCall[a].does /\ scCall'[a].thing = scCall[a].thing,
           ~done => scCall'[a].does = "failed" \/ (scCall'[a].does = scCall[a].does /\ scCall'[a].thing = "none"),
           UNCHANGED <<scTokens, scDead, scStray>>
    PROVE  ScTypeOK' /\ ScCallsOK' /\ \A t \in ScThings : ScThingOK(t)'
<1> DEFINE thing == scCall[a].thing
           does  == scCall[a].does
<1>1. /\ does \in {"create", "destroy"} /\ thing \in ScThings /\ thing # "none" /\ done \in BOOLEAN
      /\ ~scCall[a].asks /\ (does = "destroy" => done) /\ ScAbout(a, thing)
  <2>1. scCall[a] \in CallType /\ CallFits(scCall[a])
    BY DEF ScInv, ScCallsOK
  <2> QED BY <2>1 DEF CallType, CallFits, ScMayFail, ScAbout
<1>2. ScTypeOK'
  <2>1. scThere' \in [ScThings -> ScApps \cup {"none"}]
    <3>1. ScTypeOK /\ does \in {"none", "create", "destroy", "mourn"} /\ ScDoes(does, a, thing, done)
      BY <1>1 DEF ScInv
    <3> HIDE DEF does, thing
    <3> QED BY <1>1, <3>1, ScDoesOK
  <2> QED BY <2>1 DEF ScInv, ScTypeOK
<1>3. ScCallsOK'
  BY <1>1 DEF ScInv, ScCallsOK, CallFits
<1>4. thing \notin scStray => CallHolds(a, thing)
  BY <1>1 DEF ScInv, ScThingOK
<1>5. \A y \in ScThings : y # thing => scThere'[y] = scThere[y]
  BY <1>1, ScDoesOK DEF ScInv, ScTypeOK
<1>6. /\ does = "destroy" => scThere'[thing] = "none"
      /\ does = "create" /\ thing \notin scStray => scThere'[thing] = IF done THEN a ELSE "none"
  BY <1>1, <1>4, ScDoesOK DEF ScInv, ScTypeOK, CallHolds
<1>7. ASSUME NEW y \in ScThings PROVE ScThingOK(y)'
  <2>1. ScThingOK(y) /\ y # "none"
    BY ScAssumption DEF ScInv
  <2>2. CASE y # thing
    <3>1. ~ScAbout(a, y)' /\ ~ScAbout(a, y)
      BY <1>1, <2>1, <2>2 DEF ScAbout
    <3>2. \A b \in ScApps \ {a} : scCall'[b] = scCall[b] /\ (ScAbout(b, y)' <=> ScAbout(b, y))
      BY DEF ScAbout
    <3>3. scThere'[y] = scThere[y]
      BY <1>5, <2>2
    <3> QED BY <2>1, <3>1, <3>2, <3>3 DEF ScThingOK, CallHolds, ScAbout
  <2>3. CASE y = thing /\ y \notin scStray
    <3>1. scTokens'[y] = "none" /\ \A b \in ScApps \ {a} : ~ScAbout(b, y)'
      BY <1>4, <2>3 DEF CallHolds, ScAbout
    <3>2. CASE done
      <4>1. ScAbout(a, y)'
        BY <1>1, <2>3, <3>2 DEF ScAbout
      <4>2. CallHolds(a, y)'
        BY <1>1, <1>6, <2>3, <3>1, <3>2 DEF CallHolds
      <4> QED BY <3>1, <4>1, <4>2 DEF ScThingOK
    <3>3. CASE ~done
      <4>1. scThere'[y] = "none" /\ ~ScAbout(a, y)'
        BY <1>1, <1>6, <2>1, <2>3, <3>3 DEF ScAbout
      <4> QED BY <3>1, <4>1, ScAssumption DEF ScThingOK
    <3> QED BY <1>1, <3>2, <3>3
  <2>4. CASE y = thing /\ y \in scStray
    BY <2>4 DEF ScThingOK
  <2> QED BY <2>2, <2>3, <2>4
<1> QED BY <1>2, <1>3, <1>7

LEMMA ConcatOne ==
    ASSUME NEW S, NEW q \in Seq(S), NEW x \in S
    PROVE  q \o <<x>> = Append(q, x) /\ Append(q, x) \in Seq(S) /\ q \o <<>> = q
OBVIOUS

LEMMA ScUnlocksOK == ASSUME ScInv, NEW a \in ScApps, ScUnlocks(a) PROVE ScInv'
<1>1. PICK done \in ScMayFail(scCall[a].does) :
        /\ ScDoes(scCall[a].does, a, scCall[a].thing, done)
        /\ scCall' = [scCall EXCEPT ![a].pc = IF scCall[a].asks THEN "wait" ELSE "answer",
                                    ![a].thing = IF done THEN @ ELSE "none"]
  BY DEF ScUnlocks
<1>2. /\ scCall[a].pc = "locked" /\ UNCHANGED <<scDead, scTask, scTokens, scStray>>
      /\ scQueue' = scQueue \o (IF scCall[a].tells THEN <<ScTaskOf("none", "none", "none")>> ELSE <<>>)
                            \o (IF scCall[a].asks THEN <<ScTaskOf(a, "none", "none")>> ELSE <<>>)
  BY DEF ScUnlocks, scClient
<1>3. scCall \in [ScApps -> CallType] /\ CallFits(scCall[a]) /\ ScTypeOK
  BY DEF ScInv, ScCallsOK
<1>4. /\ scCall' \in [ScApps -> CallType] /\ \A b \in ScApps \ {a} : scCall'[b] = scCall[b]
      /\ scCall'[a].pc = IF scCall[a].asks THEN "wait" ELSE "answer"
      /\ scCall'[a].does = scCall[a].does /\ scCall'[a].asks = scCall[a].asks
      /\ scCall'[a].thing = IF done THEN scCall[a].thing ELSE "none"
  <2>1. PICK pc \in {"wait", "answer"} : pc = IF scCall[a].asks THEN "wait" ELSE "answer"
    OBVIOUS
  <2>2. scCall' = [scCall EXCEPT ![a].pc = pc, ![a].thing = IF done THEN @ ELSE "none"]
    BY <1>1, <2>1
  <2>3. /\ scCall' \in [ScApps -> CallType] /\ \A b \in ScApps \ {a} : scCall'[b] = scCall[b]
        /\ scCall'[a].pc = pc
        /\ scCall'[a].does = scCall[a].does /\ scCall'[a].asks = scCall[a].asks
        /\ scCall'[a].thing = IF done THEN scCall[a].thing ELSE "none"
    <3>1. scCall[a] \in CallType
      BY <1>3
    <3>2. /\ \A b \in ScApps \ {a} : scCall'[b] = scCall[b]
          /\ scCall'[a].pc = pc
          /\ scCall'[a].does = scCall[a].does /\ scCall'[a].asks = scCall[a].asks
          /\ scCall'[a].thing = IF done THEN scCall[a].thing ELSE "none"
      BY <1>3, <2>2, <3>1 DEF CallType
    <3>3. scCall' \in [ScApps -> CallType]
      <4>1. done \in BOOLEAN
        BY <1>1 DEF ScMayFail
      <4>2. PICK v \in ScThings \cup {"none"} : v = IF done THEN scCall[a].thing ELSE "none"
        BY <3>1, <4>1 DEF CallType
      <4>3. scCall' = [scCall EXCEPT ![a].pc = pc, ![a].thing = v]
        BY <2>2, <4>2
      <4>4. PICK w : w = [scCall[a] EXCEPT !.pc = pc, !.thing = v]
        OBVIOUS
      <4>5. w \in CallType
        BY <3>1, <4>2, <4>4 DEF CallType
      <4>6. scCall' = [scCall EXCEPT ![a] = w]
        BY <4>3, <4>4
      <4> QED BY <1>3, <4>5, <4>6
    <3> QED BY <3>2, <3>3
  <2> QED BY <2>1, <2>3
<1>5. ScTypeOK' /\ ScCallsOK' /\ \A t \in ScThings : ScThingOK(t)'
  <2>1. CASE scCall[a].does # "none"
    <3>1. ~scCall[a].asks
      BY <1>3, <2>1 DEF CallFits
    <3> QED BY <1>1, <1>2, <1>4, <2>1, <3>1, OwningDone
  <2>2. CASE scCall[a].does = "none"
    <3>1. scCall[a].thing = "none" /\ scCall'[a].thing = "none"
      BY <1>3, <1>4, <2>2 DEF CallFits
    <3>2. scThere' = scThere
      BY <1>1, <2>2 DEF ScDoes
    <3>3. ScTypeOK'
      BY <1>2, <1>3, <3>2 DEF ScTypeOK
    <3>4. ScCallsOK'
      BY <1>4, <2>2, <3>1 DEF ScInv, ScCallsOK, CallFits
    <3>5. \A t \in ScThings : ScThingOK(t)'
      BY <1>2, <1>4, <3>1, <3>2, ThingsStay DEF ScInv
    <3> QED BY <3>3, <3>4, <3>5
  <2> QED BY <2>1, <2>2
<1>6. TasksFit(scQueue, scTask, scCall, scDead)'
  <2> DEFINE x == ScTaskOf("none", "none", "none")
             y == ScTaskOf(a, "none", "none")
             q == IF scCall[a].tells THEN Append(scQueue, x) ELSE scQueue
  <2>1. /\ x \in TaskType /\ x.from = "none" /\ x.does = "none"
        /\ y \in TaskType /\ y.from = a /\ y.does = "none" /\ y.thing = "none"
    BY DEF ScTaskOf, NoScTask, TaskType
  <2> HIDE DEF x, y
  <2>2. TasksFit(scQueue, scTask, scCall', scDead)
    BY <1>2, <1>4, FitsCalls DEF ScInv
  <2>3. scQueue \in Seq(TaskType)
    BY DEF ScInv, TasksFit
  <2>4. scQueue' = IF scCall[a].asks THEN Append(q, y) ELSE q
    <3>1. scQueue \o (IF scCall[a].tells THEN <<x>> ELSE <<>>) = q /\ q \in Seq(TaskType)
      BY <2>1, <2>3, ConcatOne
    <3>2. q \o (IF scCall[a].asks THEN <<y>> ELSE <<>>) = IF scCall[a].asks THEN Append(q, y) ELSE q
      BY <2>1, <3>1, ConcatOne
    <3> QED BY <1>2, <3>1, <3>2 DEF x, y
  <2>5. TaskFits(x, scCall', scDead)
    BY <2>1 DEF TaskFits
  <2>6. TasksFit(q, scTask, scCall', scDead)
    BY <2>1, <2>2, <2>5, FitsAppend
  <2>7. scTask.from # a /\ \A i \in 1..Len(q) : q[i].from # a
    <3>1. scTask.from # a /\ \A i \in 1..Len(scQueue) : scQueue[i].from # a
      BY <1>2, NoTaskOf DEF ScInv
    <3> QED BY <2>1, <2>3, <3>1, ScAssumption
  <2>8. scCall[a].asks => TaskFits(y, scCall', scDead)
    BY <1>3, <1>4, <2>1, ScAssumption DEF TaskFits, CallFits
  <2> HIDE DEF q
  <2>9. scCall[a].asks => TasksFit(Append(q, y), scTask, scCall', scDead)
    BY <2>1, <2>6, <2>7, <2>8, FitsAppend
  <2> QED BY <1>2, <2>4, <2>6, <2>9
<1> QED BY <1>5, <1>6 DEF ScInv

LEMMA ScRunDoOK == ASSUME ScInv, ScRunDo PROVE ScInv'
<1>1. PICK done \in ScMayFail(scTask.does), id \in ScThings \cup {"none"} :
        /\ ScDoes(scTask.does, scTask.from, scTask.thing, done)
        /\ scCall' = IF scTask.from = "none" THEN scCall
                     ELSE [scCall EXCEPT ![scTask.from].pc = "answer",
                                         ![scTask.from].does = IF done THEN @ ELSE "failed",
                                         ![scTask.from].thing = IF done THEN @ ELSE id]
  BY DEF ScRunDo, ScUnsetIds, ScThings
<1>2. scTask' = NoScTask /\ UNCHANGED <<scDead, scTokens, scStray, scQueue>>
  BY DEF ScRunDo, scClient
<1>3. ScTypeOK /\ scCall \in [ScApps -> CallType] /\ TaskFits(scTask, scCall, scDead) /\ scTask \in TaskType
      /\ (\A b \in ScApps : CallFits(scCall[b])) /\ done \in BOOLEAN
  BY DEF ScInv, ScCallsOK, TasksFit, ScMayFail
<1>4. NoScTask \in TaskType /\ NoScTask.from = "none" /\ NoScTask.does = "none"
  BY DEF NoScTask, TaskType
<1>5. CASE scTask.from = "none"
  <2>1. scCall' = scCall /\ (scTask.does = "none" \/ (scTask.does = "mourn" /\ scTask.thing \in scDead))
    BY <1>1, <1>3, <1>5 DEF TaskFits
  <2>2. ScTypeOK' /\ \A t \in ScThings : scThere'[t] = scThere[t] \/ (scThere[t] \in scDead /\ scThere'[t] = "none")
    <3>1. scThere' \in [ScThings -> ScApps \cup {"none"}]
          /\ \A t \in ScThings : scThere'[t] = scThere[t] \/ (scThere[t] \in scDead /\ scThere'[t] = "none")
      <4>1. CASE scTask.does = "none"
        <5>1. scThere' = scThere
          BY <1>1, <4>1 DEF ScDoes
        <5> QED BY <1>3, <5>1 DEF ScTypeOK
      <4>2. CASE scTask.does = "mourn" /\ scTask.thing \in scDead
        <5>1. scThere' = [t \in ScThings |-> IF t \in ScWindows /\ scThere[t] = scTask.thing THEN "none" ELSE scThere[t]]
          BY <1>1, <4>2 DEF ScDoes
        <5> QED BY <1>3, <4>2, <5>1 DEF ScTypeOK
      <4> QED BY <2>1, <4>1, <4>2
    <3> QED BY <1>2, <1>3, <3>1 DEF ScTypeOK
  <2>3. TasksFit(scQueue, scTask, scCall, scDead)'
    BY <1>2, <1>4, <2>1 DEF ScInv, TasksFit, TaskFits
  <2>4. ASSUME NEW t \in ScThings PROVE ScThingOK(t)'
    <3>1. ScThingOK(t) /\ "none" \notin ScApps /\ scDead \subseteq ScApps
      BY <1>3, ScAssumption DEF ScInv, ScTypeOK
    <3>2. scThere'[t] = scThere[t] \/ (scThere[t] \in scDead /\ scThere'[t] = "none")
      BY <2>2
    <3> QED BY <1>2, <2>1, <3>1, <3>2 DEF ScThingOK, CallHolds, ScAbout
  <2> QED BY <2>1, <2>2, <2>3, <2>4 DEF ScInv, ScCallsOK
<1>6. CASE scTask.from # "none"
  <2>1. PICK a \in ScApps : a = scTask.from
    BY <1>3, <1>6 DEF TaskType
  <2>2. scCall[a].pc = "wait" /\ scTask.does = scCall[a].does /\ scTask.thing = scCall[a].thing
    BY <1>3, <1>6, <2>1 DEF TaskFits
  <2>3. /\ scCall' \in [ScApps -> CallType] /\ \A b \in ScApps \ {a} : scCall'[b] = scCall[b]
        /\ scCall'[a].pc = "answer" /\ scCall'[a].asks = scCall[a].asks
        /\ scCall'[a].does = (IF done THEN scCall[a].does ELSE "failed")
        /\ scCall'[a].thing = IF done THEN scCall[a].thing ELSE id
    <3>1. scCall' = [scCall EXCEPT ![a].pc = "answer", ![a].does = IF done THEN @ ELSE "failed",
                                   ![a].thing = IF done THEN @ ELSE id]
      BY <1>1, <1>6, <2>1
    <3> DEFINE answered == [scCall[a] EXCEPT !.pc = "answer", !.does = IF done THEN @ ELSE "failed",
                                             !.thing = IF done THEN @ ELSE id]
    <3>2. scCall \in [ScApps -> CallType] /\ scCall[a] \in CallType
      BY <1>3
    <3>3. /\ answered \in CallType /\ answered.pc = "answer" /\ answered.asks = scCall[a].asks
          /\ answered.does = (IF done THEN scCall[a].does ELSE "failed")
          /\ answered.thing = IF done THEN scCall[a].thing ELSE id
      BY <1>3, <3>2 DEF CallType
    <3>4. scCall' = [scCall EXCEPT ![a] = answered]
      BY <3>1, <3>2
    <3> HIDE DEF answered
    <3>5. scCall' \in [ScApps -> CallType] /\ scCall'[a] = answered /\ \A b \in ScApps \ {a} : scCall'[b] = scCall[b]
      BY <3>2, <3>3, <3>4
    <3> QED BY <3>3, <3>5
  <2>4. ScTypeOK' /\ ScCallsOK' /\ \A t \in ScThings : ScThingOK(t)'
    <3>1. CASE scCall[a].does # "none"
      <4>1. done \in ScMayFail(scCall[a].does) /\ ScDoes(scCall[a].does, a, scCall[a].thing, done)
        BY <1>1, <2>1, <2>2
      <4>2. scCall[a].pc \notin {"idle", "answer"}
        BY <2>2
      <4>3. /\ done => scCall'[a].does = scCall[a].does /\ scCall'[a].thing = scCall[a].thing
            /\ ~done => scCall'[a].does = "failed"
        BY <2>3
      <4>4. UNCHANGED <<scTokens, scDead, scStray>>
        BY <1>2
      <4> QED BY <2>3, <3>1, <4>1, <4>2, <4>3, <4>4, OwningDone
    <3>2. CASE scCall[a].does = "none"
      <4>0. done
        BY <2>2, <3>2 DEF ScMayFail
      <4>1. scCall[a].thing = "none" /\ scCall'[a].thing = "none" /\ scCall'[a].does = "none"
        BY <1>3, <2>3, <3>2, <4>0 DEF CallFits
      <4>2. scThere' = scThere
        BY <1>1, <2>2, <3>2 DEF ScDoes
      <4>3. ScTypeOK' /\ ScCallsOK'
        BY <1>2, <1>3, <2>3, <3>2, <4>1, <4>2 DEF ScTypeOK, ScCallsOK, CallFits
      <4>4. \A t \in ScThings : ScThingOK(t)'
        BY <1>2, <2>3, <4>1, <4>2, ThingsStay DEF ScInv
      <4> QED BY <4>3, <4>4
    <3> QED BY <3>1, <3>2
  <2>5. TasksFit(scQueue, scTask, scCall, scDead)'
    <3>1. \A i \in 1..Len(scQueue) : scQueue[i].from # a /\ scQueue[i] \in TaskType
      BY <1>6, <2>1 DEF ScInv, TasksFit
    <3>2. \A i \in 1..Len(scQueue) : TaskFits(scQueue[i], scCall', scDead)
      BY <2>3, <3>1 DEF ScInv, TasksFit, TaskFits, TaskType
    <3> QED BY <1>2, <1>4, <3>2 DEF ScInv, TasksFit, TaskFits
  <2> QED BY <2>4, <2>5 DEF ScInv
<1> QED BY <1>5, <1>6

-----------------------------------------------------------------------------
(* The answer: what was created gets its token, what was destroyed is forgotten. *)
LEMMA ScAnswerOK == ASSUME ScInv, NEW a \in ScApps, ScAnswer(a) PROVE ScInv'
<1> DEFINE c == scCall[a]
           stores == c.does \in {"create", "failed"} /\ c.thing # "none"
<1>1. /\ c.pc = "answer" /\ scCall' = [scCall EXCEPT ![a] = NoScCall]
      /\ scTokens' = (IF stores THEN Insert(c.thing, a) ELSE scTokens)
      /\ scStray' = (IF stores /\ c.does = "failed" /\ scTokens[c.thing] = "none" THEN scStray \cup {c.thing} ELSE scStray)
      /\ UNCHANGED <<scDead, scThere, scQueue, scTask>>
  BY DEF ScAnswer, scClient
<1>2. NoScCall \in CallType /\ CallFits(NoScCall) /\ NoScCall.thing = "none"
  BY DEF NoScCall, CallType, CallFits
<1>3. scCall \in [ScApps -> CallType] /\ CallFits(c) /\ ScTypeOK
  BY DEF ScInv, ScCallsOK
<1>4. ScCallsOK' /\ scCall'[a].thing = "none" /\ \A b \in ScApps \ {a} : scCall'[b] = scCall[b]
  BY <1>1, <1>2, <1>3 DEF ScInv, ScCallsOK
<1>5. ScTypeOK'
  BY <1>1, <1>3 DEF ScTypeOK, Insert
<1>6. TasksFit(scQueue, scTask, scCall, scDead)'
  BY <1>1, <1>4, FitsStay DEF ScInv
<1>7. ASSUME NEW t \in ScThings, t \notin scStray' PROVE ScThingOK(t)'
  <2>1. ScThingOK(t) /\ t # "none" /\ "none" \notin ScApps /\ t \notin scStray
    BY <1>1, <1>7, ScAssumption DEF ScInv
  <2>2. ~ScAbout(a, t)' /\ \A b \in ScApps \ {a} : ScAbout(b, t)' <=> ScAbout(b, t)
    BY <1>4, <2>1 DEF ScAbout
  <2>3. CASE ~ScAbout(a, t)
    <3>1. scTokens'[t] = scTokens[t]
      <4>1. CASE c.thing # t
        BY <1>1, <1>3, <4>1 DEF ScTypeOK, Insert
      <4>2. CASE c.thing = t
        <5>1. c.does = "failed" /\ scTokens[t] # "none"
          BY <1>1, <1>7, <2>1, <2>3, <4>2 DEF ScAbout
        <5> QED BY <1>1, <4>2, <5>1 DEF Insert
      <4> QED BY <4>1, <4>2
    <3>2. \A b \in ScApps : ScAbout(b, t)' <=> ScAbout(b, t)
      BY <2>2, <2>3
    <3>3. \A b \in ScApps : ScAbout(b, t) => scCall'[b] = scCall[b]
      BY <1>4, <2>3
    <3> QED BY <1>1, <2>1, <3>1, <3>2, <3>3 DEF ScThingOK, CallHolds, ScAbout
  <2>4. CASE ScAbout(a, t)
    <3>1. CallHolds(a, t) /\ c.thing = t /\ c.does \in {"create", "destroy"}
      BY <1>3, <2>1, <2>4 DEF ScThingOK, CallFits, CallType, ScAbout
    <3>2. \A b \in ScApps : ~ScAbout(b, t)'
      BY <2>2, <3>1 DEF CallHolds
    <3>3. CASE c.does = "create"
      <4>1. scTokens'[t] = a
        BY <1>1, <1>3, <2>1, <3>1, <3>3 DEF ScTypeOK, Insert, CallHolds
      <4>2. scThere[t] \in {a, "none"} /\ (a \notin scDead => scThere[t] = a)
        BY <1>1, <3>1, <3>3 DEF CallHolds
      <4> QED BY <1>1, <2>1, <3>2, <4>1, <4>2 DEF ScThingOK
    <3>4. CASE c.does = "destroy"
      <4>1. scTokens'[t] = "none" /\ scThere[t] = "none"
        BY <1>1, <3>1, <3>4 DEF CallHolds
      <4> QED BY <1>1, <2>1, <3>2, <4>1 DEF ScThingOK
    <3> QED BY <3>1, <3>3, <3>4
  <2> QED BY <2>3, <2>4
<1>8. \A t \in ScThings : ScThingOK(t)'
  BY <1>7 DEF ScThingOK
<1> QED BY <1>4, <1>5, <1>6, <1>8 DEF ScInv

LEMMA ScTakeLockOK == ASSUME ScInv, NEW a \in ScApps, ScTakeLock(a) PROVE ScInv'
<1>1. /\ scCall[a].pc = "lock" /\ scCall' = [scCall EXCEPT ![a].pc = "locked"]
      /\ UNCHANGED <<scDead, scQueue, scTask, scThere, scTokens, scStray>>
  BY DEF ScTakeLock, ScAt, scClient, scOwned
<1>2. /\ ScCallsOK' /\ scCall'[a].pc = "locked" /\ (\A b \in ScApps \ {a} : scCall'[b] = scCall[b])
      /\ \A b \in ScApps : scCall'[b].thing = scCall[b].thing /\ scCall'[b].does = scCall[b].does
  BY <1>1, ScPlaceOK DEF ScInv
<1>3. TasksFit(scQueue, scTask, scCall, scDead)'
  BY <1>1, <1>2, FitsStay DEF ScInv
<1>4. \A t \in ScThings : ScThingOK(t)'
  BY <1>1, <1>2, ThingsStay DEF ScInv
<1> QED BY <1>1, <1>2, <1>3, <1>4 DEF ScInv, ScTypeOK

(* The thread of the window service takes its next task. *)
LEMMA ScRunOK == ASSUME ScInv, NEW inner, ScRun(inner) \/ ScRunLock PROVE ScInv'
<1>1. UNCHANGED <<scCall, scDead, scThere, scTokens, scStray>>
  BY DEF ScRun, ScRunLock, scClient, scOwned
<1>2. ScTypeOK' /\ ScCallsOK' /\ \A t \in ScThings : ScThingOK(t)'
  BY <1>1 DEF ScInv, ScTypeOK, ScCallsOK, ScThingOK, CallHolds, ScAbout
<1>3. CASE ScRun(inner)
  <2>1. /\ scTask.pc = "idle" /\ scQueue # <<>> /\ scQueue' = Tail(scQueue) /\ scQueue \in Seq(TaskType)
        /\ scTask' = [Head(scQueue) EXCEPT !.pc = IF inner.lock THEN "lock" ELSE "do"]
    BY <1>3 DEF ScRun, ScInv, TasksFit
  <2>2. Head(scQueue) \in TaskType
    BY <2>1
  <2>3. PICK pc \in {"lock", "do"} : scTask' = [Head(scQueue) EXCEPT !.pc = pc]
    BY <2>1
  <2>4. /\ scTask' \in TaskType /\ scTask'.from = Head(scQueue).from /\ scTask'.does = Head(scQueue).does
        /\ scTask'.thing = Head(scQueue).thing
    BY <2>2, <2>3 DEF TaskType
  <2>5. TasksFit(scQueue, NoScTask, scCall, scDead)
    <3>1. NoScTask \in TaskType /\ NoScTask.from = "none" /\ NoScTask.does = "none"
      BY DEF NoScTask, TaskType
    <3> QED BY <3>1 DEF ScInv, TasksFit, TaskFits
  <2>6. TasksFit(Tail(scQueue), scTask', scCall, scDead)
    BY <2>1, <2>4, <2>5, FitsTail
  <2> QED BY <1>1, <1>2, <2>1, <2>6 DEF ScInv
<1>4. CASE ScRunLock
  <2>1. scTask' = [scTask EXCEPT !.pc = "do"] /\ UNCHANGED scQueue /\ scTask \in TaskType
    BY <1>4 DEF ScRunLock, ScInv, TasksFit
  <2>2. /\ scTask' \in TaskType /\ scTask'.from = scTask.from /\ scTask'.does = scTask.does
        /\ scTask'.thing = scTask.thing
    BY <2>1 DEF TaskType
  <2>3. TasksFit(scQueue, scTask', scCall, scDead)
    BY <2>2 DEF ScInv, TasksFit, TaskFits
  <2> QED BY <1>1, <1>2, <2>1, <2>3 DEF ScInv
<1> QED BY <1>3, <1>4

(* Deaths. *)
LEMMA ScDiesOK == ASSUME ScInv, NEW a \in ScApps, ScDies(a) PROVE ScInv'
<1>1. /\ scDead' = scDead \cup {a} /\ UNCHANGED <<scCall, scTask, scThere, scTokens, scStray>>
      /\ scQueue' = IF scUp = "gone" THEN scQueue ELSE Append(scQueue, ScTaskOf("none", "mourn", a))
  BY DEF ScDies, scOwned
<1>2. ScTypeOK' /\ ScCallsOK'
  BY <1>1 DEF ScInv, ScTypeOK, ScCallsOK
<1>3. \A t \in ScThings : ScThingOK(t)'
  BY <1>1, ThingsStay DEF ScInv
<1>4. TasksFit(scQueue, scTask, scCall, scDead')
  BY <1>1, FitsCalls DEF ScInv
<1>5. TasksFit(scQueue, scTask, scCall, scDead)'
  <2> DEFINE x == ScTaskOf("none", "mourn", a)
  <2>1. x \in TaskType /\ x.from = "none" /\ x.does = "mourn" /\ x.thing = a
    BY DEF ScTaskOf, NoScTask, TaskType
  <2> HIDE DEF x
  <2>2. TaskFits(x, scCall, scDead')
    BY <1>1, <2>1 DEF TaskFits
  <2>3. TasksFit(Append(scQueue, x), scTask, scCall, scDead')
    BY <1>4, <2>1, <2>2, FitsAppend
  <2> QED BY <1>1, <1>4, <2>3 DEF x
<1> QED BY <1>2, <1>3, <1>5 DEF ScInv

LEMMA ScMournsOK == ASSUME ScInv, NEW a \in ScApps, ScMourns(a) PROVE ScInv'
<1>1. /\ a \in scDead /\ UNCHANGED <<scCall, scDead, scQueue, scTask, scTokens, scStray>>
      /\ scThere' = [t \in ScThings |-> IF t \in ScScreens /\ scThere[t] = a THEN "none" ELSE scThere[t]]
  BY DEF ScMourns
<1>2. ScTypeOK'
  BY <1>1 DEF ScInv, ScTypeOK
<1>3. ScCallsOK' /\ TasksFit(scQueue, scTask, scCall, scDead)'
  BY <1>1 DEF ScInv, ScCallsOK
<1>4. ASSUME NEW t \in ScThings PROVE ScThingOK(t)'
  <2>1. ScThingOK(t) /\ "none" \notin ScApps /\ scDead \subseteq ScApps
    BY ScAssumption DEF ScInv, ScTypeOK
  <2>2. scThere'[t] = scThere[t] \/ (scThere[t] \in scDead /\ scThere'[t] = "none")
    BY <1>1
  <2> QED BY <1>1, <2>1, <2>2 DEF ScThingOK, CallHolds, ScAbout
<1> QED BY <1>2, <1>3, <1>4 DEF ScInv

LEMMA ScServicesDieOK == ASSUME ScInv, ScServicesDie PROVE ScInv'
<1>1. /\ scCall' = [a \in ScApps |-> IF scCall[a].pc = "idle" THEN NoScCall ELSE [NoScCall EXCEPT !.pc = "answer"]]
      /\ scQueue' = <<>> /\ scTask' = NoScTask /\ UNCHANGED scDead
      /\ scThere' = [t \in ScThings |-> "none"] /\ scTokens' = [t \in ScThings |-> "none"]
  BY DEF ScServicesDie
<1>2. /\ NoScCall \in CallType /\ CallFits(NoScCall) /\ NoScCall.thing = "none"
      /\ [NoScCall EXCEPT !.pc = "answer"] \in CallType /\ CallFits([NoScCall EXCEPT !.pc = "answer"])
      /\ [NoScCall EXCEPT !.pc = "answer"].thing = "none"
  BY DEF NoScCall, CallType, CallFits
<1>3. ScCallsOK' /\ \A a \in ScApps : scCall'[a].thing = "none"
  BY <1>1, <1>2 DEF ScCallsOK
<1>4. ScTypeOK'
  BY <1>1 DEF ScInv, ScTypeOK
<1>5. TasksFit(scQueue, scTask, scCall, scDead)'
  <2>1. NoScTask \in TaskType /\ NoScTask.from = "none" /\ NoScTask.does = "none"
    BY DEF NoScTask, TaskType
  <2>2. scQueue' \in Seq(TaskType) /\ Len(scQueue') = 0
    BY <1>1
  <2> QED BY <1>1, <2>1, <2>2 DEF TasksFit, TaskFits
<1>6. \A t \in ScThings : ScThingOK(t)'
  BY <1>1, <1>3, ScAssumption DEF ScThingOK, ScAbout
<1> QED BY <1>3, <1>4, <1>5, <1>6 DEF ScInv

-----------------------------------------------------------------------------
LEMMA ScStepOK == ScInv /\ [ScNext]_scVars => ScInv'
<1> SUFFICES ASSUME ScInv, [ScNext]_scVars PROVE ScInv'
  OBVIOUS
<1>1. CASE UNCHANGED scVars \/ ScServicesBack \/ \E a \in ScApps : ScProxyCleared(a)
  <2>1. UNCHANGED <<scCall, scDead, scQueue, scTask, scThere, scTokens, scStray>>
    BY <1>1 DEF scVars, ScServicesBack, ScProxyCleared, scClient, scOwned
  <2> QED BY <2>1 DEF ScInv, ScTypeOK, ScCallsOK, ScThingOK, CallHolds, ScAbout
<1>2. ASSUME NEW a \in ScApps, ScThread(a) PROVE ScInv'
  BY <1>2, ScTakeLockOK, ScUnlocksOK, ScAnswerOK DEF ScThread
<1>3. CASE ScRunner
  BY <1>3, ScRunOK, ScRunDoOK DEF ScRunner
<1> QED BY <1>1, <1>2, <1>3, ScFailsOK, ScEntersOK, ScDiesOK, ScMournsOK, ScServicesDieOK DEF ScNext

LEMMA ScInvImplies == ScInv => ScOwned
<1> SUFFICES ASSUME ScInv, \A a \in ScApps : scCall[a].pc = "idle",
                    NEW t \in ScThings \ scStray, NEW a \in ScApps \ scDead
             PROVE  scTokens[t] = a <=> scThere[t] = a
  BY DEF ScOwned
<1>1. \A b \in ScApps : ~ScAbout(b, t)
  BY ScAssumption DEF ScInv, ScCallsOK, CallFits, ScAbout
<1> QED BY <1>1 DEF ScInv, ScThingOK

(* Whatever dies, whatever creation fails and in whatever order the service gets to the
   calls, an application that lives holds the token of exactly the windows and screens
   it owns, but for an id a failed creation was the first to store a token under: what
   it created it can destroy, once, and nobody else can.                            *)
THEOREM TokensMatchOwners == ScSpec => []ScOwned
<1>1. ScSpec => []ScInv
  BY ScInitOK, ScStepOK, PTL DEF ScSpec
<1> QED BY <1>1, ScInvImplies, PTL
=============================================================================
