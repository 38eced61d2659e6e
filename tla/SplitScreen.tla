----------------------------- MODULE SplitScreen -----------------------------
(***************************************************************************)
(* Split screen on one display: the window manager's task thread, which    *)
(* runs the requests of applications to completion one at a time and calls *)
(* WindowPair; the inner window thread of WindowInnerManager, which        *)
(* creates and destroys the placeholder and the divider some time later;   *)
(* and the UI service that shows the divider later still.                  *)
(*                                                                         *)
(* Z order, layout and focus are not here: what is in the tree is the set  *)
(* shown.  Every window has a client token and stays on this display.      *)
(***************************************************************************)
EXTENDS WindowPair, FiniteSets, Naturals

CONSTANTS MaxTasks   \* bound on the tasks pending when a new request arrives
ASSUME MaxTasksAssumption == MaxTasks \in Nat

VARIABLES pair,      \* the WindowPair state, the modes and the minimize lists
          shown,     \* the windows in the window tree
          holder,    \* PlaceHolderWindow::window_ is not null
          dialog,    \* what the UI service does with each divider dialog
          dialogId,  \* DividerWindow::dialogId_
          backup,    \* backupWindowIds_ with backupWindowMode_
          toRestore  \* the windows the running RestoreAllAppWindows has left

vars == <<pair, shown, holder, dialog, dialogId, backup, toRestore>>

NotBackedUp == "NONE"
NoBackup    == [a \in Apps |-> NotBackedUp]

TypeOK ==
    /\ pair \in PairStates
    /\ shown \subseteq Nodes
    /\ holder \in BOOLEAN
    /\ dialog \in [Docks -> {"none", "requested", "shown", "closing"}]
    /\ dialogId \in Docks \cup {NoNode}
    /\ backup \in [Apps -> Modes \cup {NotBackedUp}]
    /\ toRestore \subseteq Apps

Init ==
    /\ pair = [primary |-> NoNode, secondary |-> NoNode, divider |-> NoNode,
               status |-> "EMPTY", restoring |-> FALSE,
               mode |-> [n \in Nodes |-> ModeFromSupportInfo(n)],
               lastMode |-> [n \in Nodes |-> "FULLSCREEN"],
               inner |-> <<>>, list |-> {}, asked |-> {}]
    /\ shown = {}
    /\ holder = FALSE
    /\ dialog = [d \in Docks |-> "none"]
    /\ dialogId = NoNode
    /\ backup = NoBackup
    /\ toRestore = {}

-----------------------------------------------------------------------------
(* The handlers of the task thread, as operators on the pair state.        *)

(* MinimizeStructuredAppWindowsExceptSelf: a full-screen application has   *)
(* every other one minimized that does not float.                          *)
MinimizeOthers(s, n, tree) ==
    IF s.mode[n] # "FULLSCREEN" \/ n \notin Apps THEN s
    ELSE [s EXCEPT !.list = AddNeedMinimizeApp(@,
             {b \in (tree \cap Apps) \ {n} : s.mode[b] # "FLOATING"}, "OTHER_WINDOW", TRUE)]

(* WindowController::AddWindowNode of a window not in the tree.            *)
AddWindowNode(s, n) ==
    ExecuteMinimizeAll(UpdateIfSplitRelated(MinimizeOthers(s, n, shown), n))

(* A mode the client asks for; asking for the current one changes nothing. *)
RequestMode(s, n, m) == IF m = s.mode[n] THEN s ELSE SetWindowMode(s, n, m)

Idle == toRestore = {}

(* Bounds of the model: a request arrives when the inner thread's queue is *)
(* short and a dialog of Docks is left for the divider it may ask for.     *)
Queue == Len(pair.inner) < MaxTasks
Room == /\ Queue
        /\ Cardinality({d \in Docks : dialog[d] = "none"})
             > Cardinality({i \in DOMAIN pair.inner : pair.inner[i] = CreateDivider})

(* An application shows its window, in the mode it wants.                  *)
Show(a) ==
    /\ Idle /\ Room
    /\ a \notin shown
    /\ \E m \in Supported[a] : pair' = AddWindowNode(RequestMode(pair, a, m), a)
    /\ shown' = shown \cup {a}
    /\ backup' = NoBackup
    /\ UNCHANGED <<holder, dialog, dialogId, toRestore>>

(* An application hides or destroys its window, or dies.  One that had     *)
(* been asked to minimize has done so.                                     *)
Hide(a) ==
    /\ Idle /\ Room
    /\ a \in shown
    /\ pair' = [HandleRemoveWindow(pair, a) EXCEPT !.asked = @ \ {a}]
    /\ shown' = shown \ {a}
    /\ UNCHANGED <<holder, dialog, dialogId, backup, toRestore>>

(* WindowController::SetWindowMode on a window that is shown.              *)
SetMode(a) ==
    /\ Idle /\ Room
    /\ a \in shown
    /\ \E m \in Supported[a] \ {pair.mode[a]} :
         LET s == UpdateIfSplitRelated(SetWindowMode(pair, a, m), a)
         IN  pair' = ExecuteMinimizeAll(MinimizeOthers(s, a, shown))
    /\ UNCHANGED <<shown, holder, dialog, dialogId, backup, toRestore>>

(* The divider is dropped in an exit area of the screen; which side is the *)
(* smaller one depends on where.                                           *)
ProcessPointUp ==
    /\ Idle /\ Room
    /\ shown \cap Docks # {}
    /\ IsPaired(pair)
    /\ \E n \in {pair.primary, pair.secondary} : pair' = ExitSplitMode(pair, n)
    /\ UNCHANGED <<shown, holder, dialog, dialogId, backup, toRestore>>

(* SetWindowLayoutMode: the pair is cleared, and a tile layout minimizes   *)
(* the applications it has no tile for.                                    *)
SetWindowLayoutMode ==
    /\ Idle /\ Room
    /\ \E out \in SUBSET (shown \cap Apps) :
         LET s == Clear(pair)
         IN  pair' = ExecuteMinimizeAll(
                       [s EXCEPT !.list = AddNeedMinimizeApp(@, out, "LAYOUT_TILE", TRUE)])
    /\ UNCHANGED <<shown, holder, dialog, dialogId, backup, toRestore>>

MinimizeAllAppWindows ==
    /\ Idle /\ Room
    /\ pair' = ExecuteMinimizeAll([pair EXCEPT
                 !.list = AddNeedMinimizeApp(@, shown \cap Apps, "MINIMIZE_ALL", TRUE)])
    /\ UNCHANGED <<shown, holder, dialog, dialogId, backup, toRestore>>

-----------------------------------------------------------------------------
(* ToggleShownStateForAllAppWindows.  The loop of RemoveWindow calls in    *)
(* BackUpAllAppWindows leaves this state, in whichever order it runs.      *)
HideAll(s, apps) ==
    LET t == IF Members(s) \cap apps # {} THEN Clear(s) ELSE s
    IN  [t EXCEPT !.mode = [n \in Nodes |->
                              IF n \in apps /\ @[n] \in SplitModes
                                THEN ResumeLastWindowMode(t, n).mode[n] ELSE @[n]],
                  !.asked = @ \ apps]

BackUpAllAppWindows ==
    /\ Idle /\ Room
    /\ shown \cap Apps # {}
    /\ backup = NoBackup
    /\ backup' = [a \in Apps |-> IF a \in shown THEN pair.mode[a] ELSE NotBackedUp]
    /\ pair' = HideAll(pair, shown \cap Apps)
    /\ shown' = shown \ Apps
    /\ UNCHANGED <<holder, dialog, dialogId, toRestore>>

(* RestoreAllAppWindows starts when no window is left in the application   *)
(* layer, and while it runs no placeholder is made if both sides come back.*)
RestoreAllAppWindows ==
    /\ Idle /\ Room
    /\ shown = {}
    /\ backup # NoBackup
    /\ toRestore' = {a \in Apps : backup[a] # NotBackedUp}
    /\ pair' = [pair EXCEPT !.restoring =
                  SplitModes \subseteq {backup[a] : a \in toRestore'}]
    /\ UNCHANGED <<shown, holder, dialog, dialogId, backup>>

(* One turn of its loop: the window is added in the mode it had if that    *)
(* was a split mode.  The last turn ends the handler.                      *)
RestoreOne(a) ==
    /\ a \in toRestore
    /\ toRestore' = toRestore \ {a}
    /\ LET s == AddWindowNode(IF backup[a] \in SplitModes
                                THEN RequestMode(pair, a, backup[a]) ELSE pair, a)
       IN  pair' = [s EXCEPT !.restoring = @ /\ toRestore' # {}]
    /\ shown' = shown \cup {a}
    /\ backup' = IF toRestore' = {} THEN NoBackup ELSE backup
    /\ UNCHANGED <<holder, dialog, dialogId>>

-----------------------------------------------------------------------------
(* The inner window thread runs the oldest task posted to it.              *)
Running(op) ==
    /\ Idle
    /\ pair.inner # <<>>
    /\ Head(pair.inner).op = op

Popped == [pair EXCEPT !.inner = Tail(@)]

(* PlaceHolderWindow::Create: nothing if there is one already.  The new    *)
(* window has the mode of the free side and is shown at once.              *)
CreatePlaceHolder ==
    /\ Running("CREATE_HOLDER")
    /\ IF holder
         THEN pair' = Popped /\ UNCHANGED shown
         ELSE /\ pair' = AddWindowNode(
                   [Popped EXCEPT !.mode[PlaceHolder] = Head(pair.inner).mode,
                                  !.lastMode[PlaceHolder] = "FULLSCREEN"], PlaceHolder)
              /\ shown' = shown \cup {PlaceHolder}
    /\ holder' = TRUE
    /\ UNCHANGED <<dialog, dialogId, backup, toRestore>>

RemovePlaceHolder(s) ==
    /\ pair' = IF holder THEN HandleRemoveWindow(s, PlaceHolder) ELSE s
    /\ shown' = shown \ {PlaceHolder}
    /\ holder' = FALSE
    /\ UNCHANGED <<dialog, dialogId, backup, toRestore>>

DestroyPlaceHolder == Running("DESTROY_HOLDER") /\ RemovePlaceHolder(Popped)

(* The user touches outside the placeholder, or on it: its own listener    *)
(* destroys it.                                                            *)
TouchPlaceHolder == Idle /\ Room /\ holder /\ RemovePlaceHolder(pair)

(* DividerWindow::Create overwrites the dialog id of a previous divider.   *)
CreateDividerDialog ==
    /\ Running("CREATE_DIVIDER")
    /\ \E d \in Docks : /\ dialog[d] = "none"
                        /\ dialog' = [dialog EXCEPT ![d] = "requested"]
                        /\ dialogId' = d
    /\ pair' = Popped
    /\ UNCHANGED <<shown, holder, backup, toRestore>>

DestroyDividerDialog ==
    /\ Running("DESTROY_DIVIDER")
    /\ pair' = Popped
    /\ dialog' = [d \in Docks |->
                    IF d # dialogId THEN dialog[d]
                    ELSE IF dialog[d] = "shown" THEN "closing"
                    ELSE IF dialog[d] = "requested" THEN "none" ELSE dialog[d]]
    /\ dialogId' = NoNode
    /\ UNCHANGED <<shown, holder, backup, toRestore>>

-----------------------------------------------------------------------------
(* The UI service, modelled from how the code uses it: ShowDialog returns  *)
(* before the dialog's window is shown, CancelDialog before it is gone.    *)
ShowDialog(d) ==
    /\ Idle
    /\ dialog[d] = "requested"
    /\ dialog' = [dialog EXCEPT ![d] = "shown"]
    /\ pair' = AddWindowNode([pair EXCEPT !.mode[d] = "FLOATING"], d)
    /\ shown' = shown \cup {d}
    /\ UNCHANGED <<holder, dialogId, backup, toRestore>>

CloseDialog(d) ==
    /\ Idle
    /\ dialog[d] = "closing"
    /\ dialog' = [dialog EXCEPT ![d] = "none"]
    /\ pair' = HandleRemoveWindow(pair, d)
    /\ shown' = shown \ {d}
    /\ UNCHANGED <<holder, dialogId, backup, toRestore>>

(* The UI service crashes with the divider on screen; the death of its     *)
(* window token removes the window.                                        *)
DialogDied(d) ==
    /\ Idle /\ Queue
    /\ dialog[d] \in {"shown", "closing"}
    /\ dialog' = [dialog EXCEPT ![d] = "none"]
    /\ pair' = HandleRemoveWindow(pair, d)
    /\ shown' = shown \ {d}
    /\ UNCHANGED <<holder, dialogId, backup, toRestore>>

-----------------------------------------------------------------------------
InnerThread == \/ CreatePlaceHolder \/ DestroyPlaceHolder
               \/ CreateDividerDialog \/ DestroyDividerDialog

UIService == \E d \in Docks : ShowDialog(d) \/ CloseDialog(d)

TaskThread == \/ \E a \in Apps : Show(a) \/ Hide(a) \/ SetMode(a)
              \/ ProcessPointUp \/ SetWindowLayoutMode \/ MinimizeAllAppWindows
              \/ BackUpAllAppWindows \/ RestoreAllAppWindows

Next == \/ TaskThread
        \/ \E a \in Apps : RestoreOne(a)
        \/ InnerThread \/ UIService
        \/ TouchPlaceHolder
        \/ \E d \in Docks : DialogDied(d)

(* The threads run what is posted to them, the UI service answers, and an  *)
(* application that is asked to minimize does.                             *)
Fairness == /\ WF_vars(InnerThread)
            /\ WF_vars(\E a \in Apps : RestoreOne(a))
            /\ \A d \in Docks : WF_vars(ShowDialog(d) \/ CloseDialog(d))
            /\ \A a \in Apps : WF_vars(a \in pair.asked /\ Hide(a))

Spec == Init /\ [][Next]_vars
LiveSpec == Spec /\ Fairness

-----------------------------------------------------------------------------
(* The status is the one its members define, the window on a side has that *)
(* side's mode, and no window is on both sides.                            *)
StatusMatches == pair.status = StatusOf(pair)
SidesMatch ==
    /\ pair.primary # NoNode => pair.mode[pair.primary] = "PRIMARY"
    /\ pair.secondary # NoNode => pair.mode[pair.secondary] = "SECONDARY"
    /\ {pair.primary, pair.secondary} \cap Docks = {}
    /\ pair.divider \in Docks \cup {NoNode}
PairConsistent == StatusMatches /\ SidesMatch

(* Every member of the pair is in the window tree: RaiseOrderedWindowToTop *)
(* puts the members back into their parents and reads parent_ to do so.    *)
MembersShown == Members(pair) \subseteq shown

(* No application is left on screen in a split mode without being on a     *)
(* side of the pair, unless it has been told to minimize.                  *)
NoStrandedSplit ==
    \A a \in shown \cap Apps :
        pair.mode[a] \in SplitModes => Find(pair, a) \/ a \in pair.asked

(* The pair refines the abstract two sides: once both are taken, they are  *)
(* given up together (UpdateWindowPairStatus calls Clear).                 *)
Abs == INSTANCE SplitSides WITH
         Windows <- Apps \cup {PlaceHolder}, None <- NoNode,
         side <- [m \in SplitModes |-> IF m = "PRIMARY" THEN pair.primary ELSE pair.secondary]
SidesSpec == Abs!Spec

(* A pair that waits for its divider gets it or is dissolved.              *)
PairingEnds == pair.status = "PAIRING" ~> pair.status # "PAIRING"
=============================================================================
