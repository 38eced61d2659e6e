----------------------------- MODULE WindowRoot -----------------------------
(***************************************************************************)
(* The window manager's life of windows on one display: WindowController   *)
(* and WindowRoot handlers for creating, showing, hiding, touching and     *)
(* destroying windows and starting windows, over the tree of WindowTree.   *)
(*                                                                         *)
(* The clients are the processes that own the windows.  A client asks, the *)
(* task thread runs the whole handler and answers: one action.  A process  *)
(* may die; the death of each of its window tokens is notified later, one  *)
(* at a time and in any order.                                             *)
(*                                                                         *)
(* s also has: alive (the keys of windowNodeMap_), token (the node has a   *)
(* client's token), starting (startingWindowShown_), and the list and      *)
(* asked of MinimizeApp.  No remote animation controller is registered.    *)
(***************************************************************************)
EXTENDS WindowTree, FiniteSetsExt, MinimizeApp

CONSTANTS Floating,            \* the windows in floating mode
          maxAppWindowNumber,
          Process,             \* Process[w] is the process that owns w
          First,               \* the desktop, shown at boot and never hidden
          Mortal,              \* bound: the processes that may die
          Launched             \* bound: the windows that have a starting window

ASSUME RootAssumption ==
    /\ Floating \subseteq Windows
    /\ maxAppWindowNumber \in Nat \ {0}
    /\ DOMAIN Process = Windows
    /\ First \in Windows /\ Type[First] = "DESKTOP" /\ First \in Focusable
    /\ Launched \subseteq {w \in Windows : IsMainWindow(w)}
    /\ Mortal \subseteq {Process[w] : w \in Windows}
    /\ \A w \in Windows : IsSubWindow(w) => Process[w] = Process[Caller[w]]

Processes == {Process[w] : w \in Windows}

VARIABLES root,     \* the state s of the handlers
          client,   \* what the window's client holds: state_ of WindowImpl
          dead      \* the processes that died

vars == <<root, client, dead>>

Mains(s) == {w \in Windows : IsMainWindow(w) /\ s.parent[w] \in Roots}

ClientStates == {"NONE", "CREATED", "SHOWN", "HIDDEN", "DESTROYED"}

TypeOK ==
    /\ root.kids \in [Roots \cup Windows -> Seq(Windows)]
    /\ root.parent \in [Windows -> Roots \cup Windows \cup {Null}]
    /\ root.prio \in [Windows -> -1 .. PriorityMap.KEYGUARD + 2]
    /\ root.requested \in [Windows -> BOOLEAN]
    /\ root.visible \in [Windows -> BOOLEAN]
    /\ {root.focus, root.active} \subseteq Windows \cup {Null}
    /\ root.locked \in BOOLEAN
    /\ root.alive \subseteq Windows
    /\ root.token \subseteq root.alive
    /\ root.starting \subseteq root.alive
    /\ root.list \subseteq Windows \X Reasons
    /\ root.asked \subseteq Windows
    /\ client \in [Windows -> ClientStates]
    /\ dead \subseteq Processes

Init ==
    /\ root = [kids |-> [p \in Roots \cup Windows |-> IF p = "BELOW" THEN <<First>> ELSE <<>>],
               parent |-> [w \in Windows |-> IF w = First THEN "BELOW" ELSE Null],
               prio |-> [w \in Windows |-> IF w = First THEN PriorityMap.DESKTOP ELSE 0],
               requested |-> [w \in Windows |-> w = First],
               visible |-> [w \in Windows |-> w = First],
               focus |-> First, active |-> First, locked |-> FALSE,
               alive |-> {First}, token |-> {First}, starting |-> {},
               list |-> {}, asked |-> {}]
    /\ client = [w \in Windows |-> IF w = First THEN "SHOWN" ELSE "NONE"]
    /\ dead = {}

-----------------------------------------------------------------------------
(* Removing a window.                                                      *)

(* A main window passes focus on for its children too; the search for the  *)
(* next window then starts below its lowest child.                         *)
Loses(s, w, holder) ==
    w = holder \/ (IsMainWindow(w) /\ holder \in ToSet(s.kids[w]))

SearchFrom(s, w) ==
    IF IsMainWindow(w) /\ s.kids[w] # <<>> /\ s.prio[Head(s.kids[w])] < 0
      THEN Head(s.kids[w]) ELSE w

UpdateFocusWindowWithWindowRemoved(s, w) ==
    LET next == GetNextFocusableWindow(s, SearchFrom(s, w))
    IN  IF Loses(s, w, s.focus) /\ next # Null THEN [s EXCEPT !.focus = next] ELSE s

UpdateActiveWindowWithWindowRemoved(s, w) ==
    LET next == GetNextActiveWindow(s, SearchFrom(s, w))
    IN  IF Loses(s, w, s.active) /\ next # Null THEN [s EXCEPT !.active = next] ELSE s

PassOnFocusOnly(s, w) == UpdateFocusWindowWithWindowRemoved(s, w)
PassOn(s, w) ==
    UpdateActiveWindowWithWindowRemoved(UpdateFocusWindowWithWindowRemoved(s, w), w)

DropShowWhenLockedWindowIfNeeded(s, w) ==
    IF Type[w] = "KEYGUARD" THEN ReZOrderShowWhenLockedWindows(s, FALSE) ELSE s

RemoveWindowNode(s, w) ==
    RemoveFromContainer(PassOn(DropShowWhenLockedWindowIfNeeded(s, w), w), w)

(* The nodes leave windowNodeMap_; what they held is gone with them.       *)
DestroyButStarting(s, ws) ==
    [s EXCEPT !.alive = @ \ ws, !.token = @ \ ws,
              !.requested = [w \in Windows |-> @[w] /\ w \notin ws],
              !.visible   = [w \in Windows |-> @[w] /\ w \notin ws]]
DestroyWindowInner(s, ws) ==
    [s EXCEPT !.alive = @ \ ws, !.token = @ \ ws, !.starting = @ \ ws,
              !.requested = [w \in Windows |-> @[w] /\ w \notin ws],
              !.visible   = [w \in Windows |-> @[w] /\ w \notin ws]]

(* The children lose their parent.  With onlySelf they stay in             *)
(* windowNodeMap_, otherwise they are destroyed too.                       *)
DestroyWindow(s, w, onlySelf) ==
    LET kids == ToSet(s.kids[w])
        t == RemoveFromContainer(PassOn(s, w), w)
        u == [t EXCEPT !.kids[w] = <<>>,
                       !.parent = [x \in Windows |-> IF x \in kids THEN Null ELSE @[x]]]
    IN  IF w \notin s.alive THEN s
        ELSE DestroyWindowInner(u, IF onlySelf THEN {w} ELSE {w} \cup kids)

(* Starting windows that no client took over go when an application's own  *)
(* window comes (the order among several is left open).                    *)
DestroyLeakStartingWindow(s) ==
    LET destroyIds == SetToSeq(s.starting \ s.token)
        after[n \in 0 .. Len(destroyIds)] ==
          IF n = 0 THEN s ELSE DestroyWindow(after[n - 1], destroyIds[n], FALSE)
    IN  after[Len(destroyIds)]

-----------------------------------------------------------------------------
(* Adding a window.                                                        *)
ExecuteMinimizeAll(s) ==
    [s EXCEPT !.asked = @ \cup NeedMinimizeAppNodes(s.list), !.list = {}]

Minimize(s, ws, reason) ==
    [s EXCEPT !.list = AddNeedMinimizeApp(@, ws, reason, TRUE)]

MinimizeStructuredAppWindowsExceptSelf(s, w) ==
    IF w \in Floating \/ ~IsAppWindow(w) THEN s
    ELSE Minimize(s, {x \in ToSet(s.kids["APP"]) \ ({w} \cup Floating) : IsMainWindow(x)},
                  "OTHER_WINDOW")

(* The oldest is the lowest in the application root, else over the         *)
(* keyguard.                                                               *)
MinimizeOldestAppWindow(s) ==
    LET mains == Only(s.kids["APP"] \o s.kids["ABOVE"], {w \in Windows : IsMainWindow(w)})
    IN  IF mains = <<>> THEN s ELSE Minimize(s, {Head(mains)}, "MAX_APP_COUNT")

LimitAppWindows(s, w) ==
    IF IsMainWindow(w) /\ Cardinality(Mains(s) \ s.starting) >= maxAppWindowNumber
      THEN MinimizeOldestAppWindow(s) ELSE s

(* GetWindowNode(parentId) or FindDialogCallerNode.                        *)
CallerNode(s, w) == IF HasCaller(w) /\ Caller[w] \in s.alive THEN Caller[w] ELSE Null

(* WindowNodeContainer::AddWindowNode of an admissible window.             *)
AddToContainer(s, w, p) ==
    LET t == IF w \notin s.starting THEN AddWindowNodeOnWindowTree(s, w, p)
             ELSE LET u == [s EXCEPT !.starting = @ \ {w}]
                  IN  IF Flagged(w) /\ s.locked
                        THEN ReZOrderShowWhenLockedWindows(u, TRUE) ELSE u
    IN  [t EXCEPT !.locked = @ \/ Type[w] = "KEYGUARD"]

PostProcessAddWindowNode(s, w, p) ==
    LET t == IF IsSubWindow(w) THEN RaiseZOrderForAppWindow(s, p, Null) ELSE s
    IN  [t EXCEPT !.focus = IF w \in Focusable THEN w ELSE @, !.active = w]

(* What WindowController::AddWindowNode comes to: the state and the answer.*)
Answer(s, ok) == [state |-> s, ok |-> ok]

AnswerAdded(s, w, p, refused) ==
    IF refused \/ ~s.visible[w] \/ (IsSubWindow(w) /\ p = Null)
      THEN Answer([s EXCEPT !.list = ClearNodesWithReason(@, "OTHER_WINDOW")], FALSE)
      ELSE Answer(ExecuteMinimizeAll(PostProcessAddWindowNode(s, w, p)), TRUE)

AddWindowNode(s, w) ==
    LET p == CallerNode(s, w)
        a == LimitAppWindows(MinimizeStructuredAppWindowsExceptSelf(s, w), w)
        refused == w \notin s.starting /\ ~Admissible(a, w, p)
        b == IF refused THEN [a EXCEPT !.requested[w] = TRUE] ELSE AddToContainer(a, w, p)
    IN  IF s.visible[w] /\ w \notin s.starting THEN Answer(s, FALSE)
        ELSE AnswerAdded(IF IsAppWindow(w) THEN DestroyLeakStartingWindow(b) ELSE b, w, p, refused)

-----------------------------------------------------------------------------
(* The requests of clients.                                                *)
Runs(w) == Process[w] \notin dead

(* A window id is not used twice: the application of a starting window     *)
(* that went is not followed further.                                      *)
Forget(c) == [w \in Windows |-> IF c[w] = "NONE" /\ w \in root.alive \ root'.alive
                                  THEN "DESTROYED" ELSE c[w]]

(* A client creates its window; it takes over its starting window.  A sub  *)
(* window or a dialog needs its caller's window.                           *)
CreateWindow(w) ==
    /\ Runs(w)
    /\ client[w] = "NONE"
    /\ w \notin root.alive \/ w \in root.starting
    /\ HasCaller(w) => client[Caller[w]] \in {"CREATED", "SHOWN", "HIDDEN"}
    /\ root' = [root EXCEPT !.alive = @ \cup {w}, !.token = @ \cup {w}]
    /\ client' = [client EXCEPT ![w] = "CREATED"]
    /\ UNCHANGED dead

Show(w) ==
    /\ Runs(w)
    /\ client[w] \in {"CREATED", "HIDDEN"}
    /\ w \in root.alive
    /\ LET r == AddWindowNode(root, w)
       IN  /\ root' = r.state
           /\ client' = Forget(IF r.ok THEN [client EXCEPT ![w] = "SHOWN"] ELSE client)
    /\ UNCHANGED dead

(* The desktop is shown again: everything else is minimized.               *)
MinimizeAllAppWindows ==
    /\ Runs(First) /\ client[First] = "SHOWN"
    /\ root' = ExecuteMinimizeAll(
                 Minimize(root, {w \in ToSet(root.kids["APP"]) : IsMainWindow(w)}, "MINIMIZE_ALL"))
    /\ UNCHANGED <<client, dead>>

(* A touch, or a window that is shown again (ProcessPointDown).            *)
ProcessPointDown(w) ==
    /\ Runs(w)
    /\ client[w] = "SHOWN"
    /\ w \in root.alive /\ root.visible[w]
    /\ ~RaiseFaults(root, w, CallerNode(root, w))
    /\ LET t == RaiseZOrderForAppWindow(root, w, CallerNode(root, w))
       IN  root' = [t EXCEPT !.focus = IF w \in Focusable THEN w ELSE @, !.active = w]
    /\ UNCHANGED <<client, dead>>

RequestFocus(w) ==
    /\ Runs(w)
    /\ client[w] \in {"CREATED", "SHOWN", "HIDDEN"}
    /\ w \in root.alive /\ root.visible[w] /\ w \in Focusable
    /\ root' = [root EXCEPT !.focus = w]
    /\ UNCHANGED <<client, dead>>

(* An application that was asked to minimize hides its window too.         *)
Hide(w) ==
    /\ Runs(w)
    /\ w # First
    /\ client[w] = "SHOWN"
    /\ w \in root.alive
    /\ root' = [RemoveWindowNode(root, w) EXCEPT !.asked = @ \ {w}]
    /\ client' = [client EXCEPT ![w] = "HIDDEN"]
    /\ UNCHANGED dead

(* WindowImpl::Destroy destroys the client's sub windows and dialogs with  *)
(* it, without a request of their own.                                     *)
Destroy(w) ==
    /\ Runs(w)
    /\ w # First
    /\ client[w] \in {"CREATED", "SHOWN", "HIDDEN"}
    /\ root' = [DestroyWindow(root, w, FALSE) EXCEPT !.asked = @ \ {w}]
    /\ client' = [x \in Windows |->
                    IF x = w \/ (client[x] # "NONE" /\ Caller[x] = w /\ Process[x] = Process[w])
                      THEN "DESTROYED" ELSE client[x]]
    /\ UNCHANGED dead

-----------------------------------------------------------------------------
(* The ability manager shows a starting window before the application has  *)
(* its own (cold), or for a hidden one that comes back (hot), and cancels  *)
(* it.                                                                     *)
StartingWindow(w) ==
    /\ Runs(w) /\ w \in Launched
    /\ w \in root.alive \/ client[w] = "NONE"
    /\ LET s == MinimizeStructuredAppWindowsExceptSelf(root, w)
       IN  root' = IF root.visible[w]
                     THEN [s EXCEPT !.list = ClearNodesWithReason(@, "OTHER_WINDOW")]
                     ELSE [AddWindowNodeOnWindowTree(s, w, Null) EXCEPT
                             !.alive = @ \cup {w}, !.starting = @ \cup {w}]
    /\ UNCHANGED <<client, dead>>

CancelStartingWindow(w) ==
    /\ w \in root.starting
    /\ root' = DestroyWindow(root, w, FALSE)
    /\ client' = Forget(client)
    /\ UNCHANGED dead

ProcessDies(p) ==
    /\ p \notin dead
    /\ dead' = dead \cup {p}
    /\ UNCHANGED <<root, client>>

OnRemoteDied(w) ==
    /\ ~Runs(w)
    /\ w \in root.token
    /\ root' = [DestroyWindow(root, w, TRUE) EXCEPT !.asked = @ \ {w}]
    /\ client' = [client EXCEPT ![w] = "DESTROYED"]
    /\ UNCHANGED dead

Next == \/ \E w \in Windows :
             \/ CreateWindow(w) \/ Show(w) \/ ProcessPointDown(w) \/ RequestFocus(w)
             \/ Hide(w) \/ Destroy(w) \/ OnRemoteDied(w)
             \/ StartingWindow(w) \/ CancelStartingWindow(w)
        \/ MinimizeAllAppWindows
        \/ \E p \in Mortal : ProcessDies(p)

Spec == Init /\ [][Next]_vars

-----------------------------------------------------------------------------
(* children_ and parent_ agree: a window is among the children of its      *)
(* parent, once, and nowhere else, whichever of RemoveWindowNode,          *)
(* DestroyWindow and the re-ordering at the lock screen ran last.          *)
TreeSound ==
    \A p \in Roots \cup Windows :
        /\ IsInjective(root.kids[p])
        /\ ToSet(root.kids[p]) = {w \in Windows : root.parent[w] = p}

(* Siblings are ordered by priority_, which UpdateWindowTree, the traversals*)
(* and IsTopWindow rely on to stop at the first larger one.                *)
SiblingsSorted ==
    \A p \in Roots \cup Windows : \A i, j \in DOMAIN root.kids[p] :
        i < j => root.prio[root.kids[p][i]] <= root.prio[root.kids[p][j]]

(* What is drawn exists: a window in the tree is in windowNodeMap_ and both*)
(* its visibilities are set.                                               *)
NoGhost ==
    \A w \in ToSet(BottomToTop(root)) :
        w \in root.alive /\ root.requested[w] /\ root.visible[w]

(* A locked screen stays covered: what is above the keyguard shows when    *)
(* locked, belongs to such a window, or is the input method (or another    *)
(* keyguard).                                                              *)
Above(s, w, v) ==
    LET order == BottomToTop(s)
    IN  \E i, j \in DOMAIN order : i > j /\ order[i] = w /\ order[j] = v

KeyguardCovers ==
    \A w, k \in Windows :
        root.locked /\ Type[k] = "KEYGUARD" /\ Above(root, w, k) =>
          \/ Flagged(w) \/ Type[w] \in {"INPUT_METHOD_FLOAT", "KEYGUARD"}
          \/ HasCaller(w) /\ Flagged(Caller[w])

(* And what shows when locked is not left below the keyguard, whether it   *)
(* was there before the keyguard came or arrives later.                    *)
ShownWhenLocked ==
    \A w \in ShowWhenLocked, k \in Windows :
        root.locked /\ Type[k] = "KEYGUARD" => ~Above(root, k, w)

(* The active window, which sets the brightness and the orientation, is one*)
(* that is there, whatever was hidden, destroyed or died.                  *)
ActiveVisible == root.active \in root.alive /\ root.visible[root.active]

(* No window comes forward but the one that becomes active, its main       *)
(* window, and the other windows of that main window (while the keyguard   *)
(* neither comes nor goes).                                                *)
Group(s, w) == IF s.parent[w] \in Windows THEN s.parent[w] ELSE w
Overtakes(s, t) ==
    LET before == BottomToTop(s)
        after  == BottomToTop(t)
        rises(v, w) == \E k, l \in DOMAIN after : k > l /\ after[k] = v /\ after[l] = w
    IN  {<<before[x[1]], before[x[2]]>> : x \in
           {y \in (DOMAIN before) \X (DOMAIN before) : y[1] < y[2] /\ rises(before[y[1]], before[y[2]])}}

OnlyActiveRises ==
    [][root'.locked = root.locked /\ root'.kids # root.kids =>
         \A p \in Overtakes(root, root') :
            \/ p[1] = root'.active
            \/ /\ Group(root', p[1]) = Group(root', root'.active)
               /\ Group(root', p[2]) # Group(root', p[1])]_vars

-----------------------------------------------------------------------------
(* What the repository says and the code does not do.                      *)

(* WindowRoot::FocusFaultDetection reports a fault when the focus is on a  *)
(* window that does not exist or is not visible.                           *)
FocusNotFaulty == root.focus \in root.alive /\ root.visible[root.focus]

(* DropShowWhenLockedWindowIfNeeded: when the keyguard goes, the windows   *)
(* raised over it go back to the application windows.                      *)
KeyguardDrops == ~root.locked => \A w \in ShowWhenLocked : root.parent[w] # "ABOVE"

(* WindowRoot::AddWindowNode limits the number of main windows: those that *)
(* have not been told to minimize are no more than the maximum.            *)
AppLimit == Cardinality(Mains(root) \ (root.starting \cup root.asked)) <= maxAppWindowNumber
=============================================================================
