------------------------------ MODULE WindowClient ------------------------------
(* The windows of one application (WindowImpl). The application's main thread
   creates, shows, hides, changes and destroys them; a call of the window service
   blocks it, and while it waits the IPC thread runs what the service sends:
   NotifyDestroy and UpdateWindowState. The static maps hold the windows by name
   and the sub, floating and dialog windows of a main window. The service keeps a
   copy of the properties of each window, may refuse a call, and may die.

   The application either has a main window and a child of it, or one window whose
   setter wcSetter it uses; the field it sets has two values. The service dies at
   most once.                                                                  *)
EXTENDS Naturals, Sequences

CONSTANTS WcKindOf,   \* the windows: name -> "main", "sub", "float" or "dialog"
          WcInboxMax  \* bound on the messages of the service that wait
ASSUME WcAssumption == /\ WcInboxMax \in Nat /\ "none" \notin DOMAIN WcKindOf
                       /\ \A w \in DOMAIN WcKindOf : WcKindOf[w] \in {"main", "sub", "float", "dialog"}
                       /\ \E m \in DOMAIN WcKindOf : \A w \in DOMAIN WcKindOf : WcKindOf[w] = "main" <=> w = m

VARIABLES wcState, wcMap, wcListed, wcValue,  \* state_, windowMap_, the maps of children, the field
          wcUsed, wcSetter, wcOf,             \* the windows used, the setter and whose field it sets
          wcCall,                             \* the call of the main thread
          wcInbox,                            \* what the service sent: [w, what]
          wcServer, wcServerValue, wcUp,      \* the service: its windows, its copies, whether it lives
          wcMissed, wcOvertaken, wcDied       \* history, see the properties
wcVars == <<wcState, wcMap, wcListed, wcValue, wcUsed, wcSetter, wcOf, wcCall, wcInbox, wcServer, wcServerValue,
            wcUp, wcMissed, wcOvertaken, wcDied>>

WcWindows == DOMAIN WcKindOf
WcMain    == CHOOSE m \in WcWindows : WcKindOf[m] = "main"
IsWindowValid(w) == wcState[w] \in {"CREATED", "SHOWN", "HIDDEN", "FROZEN"}

(* ---- setters: whether the window must be valid (valid) and an application's
   (app), whether an equal value ends the call (same), the states that refuse the
   change (keeps), those in which the service is told (sends), whether a failure
   is undone (undo) and reported (tells)                                       *)
Everywhere == {"INITIAL", "CREATED", "SHOWN", "HIDDEN", "FROZEN", "DESTROYED"}
Unhidden   == {"SHOWN", "FROZEN"}
Setter(valid, same, sends) == [valid |-> valid, app |-> FALSE, same |-> same, keeps |-> {},
                               sends |-> sends, undo |-> FALSE, tells |-> TRUE]
SetFocusable     == Setter(TRUE, FALSE, {"SHOWN"})
SetTouchable     == Setter(TRUE, FALSE, {"SHOWN"})
SetKeepScreenOn  == Setter(TRUE, FALSE, {"SHOWN"})
SetTurnScreenOn  == Setter(TRUE, FALSE, {"SHOWN"})
SetBrightness    == [Setter(TRUE, FALSE, {"SHOWN"}) EXCEPT !.app = TRUE]
SetRequestedOrientation == [Setter(FALSE, TRUE, {"SHOWN"}) EXCEPT !.tells = FALSE]
SetWindowFlags   == Setter(TRUE, TRUE, Unhidden)
SetSystemBarProperty == Setter(TRUE, TRUE, Unhidden)
MoveTo           == Setter(TRUE, FALSE, Unhidden)
Resize           == Setter(TRUE, FALSE, Unhidden)
Drag             == Setter(TRUE, FALSE, Everywhere)
SetCallingWindow == Setter(TRUE, FALSE, Everywhere)
SetTransform     == [Setter(TRUE, FALSE, Everywhere) EXCEPT !.tells = FALSE]
SetPrivacyMode   == [Setter(FALSE, FALSE, Everywhere) EXCEPT !.tells = FALSE]
SetTouchHotAreas == [Setter(FALSE, FALSE, Everywhere) EXCEPT !.undo = TRUE]
SetModeUnsent == [Setter(TRUE, FALSE, {}) EXCEPT !.undo = TRUE, !.keeps = {"FROZEN"}]
SetWindowMode    == [Setter(TRUE, FALSE, {"SHOWN"}) EXCEPT !.undo = TRUE, !.keeps = {"FROZEN"}]
WcSetters == {SetFocusable, SetTouchable, SetKeepScreenOn, SetTurnScreenOn, SetBrightness,
              SetRequestedOrientation, SetWindowFlags, SetSystemBarProperty, MoveTo, Resize, Drag,
              SetCallingWindow, SetTransform, SetPrivacyMode, SetTouchHotAreas, SetWindowMode}

NoWcCall == [op |-> "none"]
Native   == 0   \* the caller is native code; a task of JavaScript has a number
WcInit == /\ wcState = [w \in WcWindows |-> "INITIAL"] /\ wcMap = {} /\ wcListed = {}
          /\ \/ wcUsed \in {{WcMain, w} : w \in WcWindows \ {WcMain}} /\ wcOf = "none" /\ wcSetter = SetFocusable
             \/ \E w \in {c \in WcWindows : WcKindOf[c] \in {"main", "dialog"}} : wcUsed = {w} /\ wcOf = w /\ wcSetter \in WcSetters
          /\ wcValue = 0
          /\ wcCall = NoWcCall /\ wcInbox = <<>>
          /\ wcServer = [w \in WcWindows |-> "none"] /\ wcServerValue = 0
          /\ wcUp = TRUE /\ wcMissed = FALSE /\ wcOvertaken = {} /\ wcDied = FALSE

wcChosen  == <<wcUsed, wcSetter, wcOf>>
wcClient  == <<wcState, wcMap, wcListed, wcValue, wcChosen, wcMissed, wcOvertaken>>
wcService == <<wcServer, wcServerValue, wcUp, wcInbox, wcDied>>
WcIdle    == wcCall = NoWcCall

(* a call of `from` goes on at pc with what it has so far *)
Goes(op, w, pc, ret, from) == wcCall' = [op |-> op, w |-> w, pc |-> pc, ret |-> ret, from |-> from, old |-> wcValue]
Ends(op, w, ret, from) == Goes(op, w, "done", ret, from)
Sets(w, state) == wcState' = [wcState EXCEPT ![w] = state]

(* ---- the first half of the calls, up to the call of the service *)
Create(w, from) ==
    /\ UNCHANGED <<wcChosen, wcService>>
    /\ IF w \in wcMap \/ (WcKindOf[w] = "sub" /\ WcMain \notin wcMap)
       THEN Ends("create", w, "INVALID_PARAM", from) /\ UNCHANGED wcClient
       ELSE /\ Sets(w, "INITIAL") /\ wcValue' = (IF w = wcOf THEN 0 ELSE wcValue)
            /\ wcMissed' = (wcMissed /\ w # wcOf) /\ wcOvertaken' = wcOvertaken \ {w}
            /\ Goes("create", w, "server", "OK", from)
            /\ UNCHANGED <<wcMap, wcListed>>

Quiet == UNCHANGED <<wcMap, wcListed, wcValue, wcChosen, wcMissed, wcOvertaken, wcService>>
(* by the keyguard or a toggle only the state changes; shown already, it is
   raised; frozen, or in a mode the window does not support, it is refused     *)
Show(w, reason, from) ==
    /\ Quiet
    /\ \/ /\ ~ IsWindowValid(w) /\ Ends("show", w, "INVALID_WINDOW", from) /\ UNCHANGED wcState
       \/ /\ IsWindowValid(w) /\ reason # "NORMAL"
          /\ Sets(w, "SHOWN") /\ Ends("show", w, "OK", from)
       \/ /\ reason = "NORMAL" /\ wcState[w] = "SHOWN" /\ Ends("show", w, "OK", from) /\ UNCHANGED wcState
       \/ /\ reason = "NORMAL" /\ wcState[w] = "FROZEN"
          /\ Ends("show", w, "INVALID_OPERATION", from) /\ UNCHANGED wcState
       \/ /\ reason = "NORMAL" /\ wcState[w] \in {"CREATED", "HIDDEN"} /\ UNCHANGED wcState
          /\ \/ WcKindOf[w] = "main" /\ Ends("show", w, "INVALID_MODE", from)   \* NeedToStopShowing
             \/ Goes("show", w, "server", "OK", from)

HideUnseen(w, reason, from) ==
    /\ Quiet
    /\ \/ /\ ~ IsWindowValid(w) /\ Ends("hide", w, "INVALID_WINDOW", from) /\ UNCHANGED wcState
       \/ /\ IsWindowValid(w) /\ reason # "NORMAL" /\ Ends("hide", w, "OK", from)
          /\ Sets(w, IF reason = "KEYGUARD" THEN "FROZEN" ELSE "HIDDEN")
       \/ /\ reason = "NORMAL" /\ wcState[w] \in {"HIDDEN", "CREATED", "FROZEN"}
          /\ Ends("hide", w, "OK", from) /\ UNCHANGED wcState
       \/ /\ reason = "NORMAL" /\ wcState[w] = "SHOWN"
          /\ Goes("hide", w, "server", "OK", from) /\ UNCHANGED wcState
Hide(w, reason, from) ==
    /\ Quiet
    /\ \/ /\ ~ IsWindowValid(w) /\ Ends("hide", w, "INVALID_WINDOW", from) /\ UNCHANGED wcState
       \/ /\ IsWindowValid(w) /\ reason # "NORMAL" /\ Ends("hide", w, "OK", from)
          /\ Sets(w, IF reason = "KEYGUARD" THEN "FROZEN" ELSE "HIDDEN")
       \/ /\ reason = "NORMAL" /\ wcState[w] \in {"HIDDEN", "CREATED"}
          /\ Ends("hide", w, "OK", from) /\ UNCHANGED wcState
       \/ /\ reason = "NORMAL" /\ wcState[w] \in {"SHOWN", "FROZEN"}
          /\ Goes("hide", w, "server", "OK", from) /\ UNCHANGED wcState

Destroy(w, from) ==
    /\ UNCHANGED <<wcClient, wcService>>
    /\ IF IsWindowValid(w) THEN Goes("destroy", w, "server", "OK", from) ELSE Ends("destroy", w, "OK", from)

(* a setter changes the property, and tells the service in some states only *)
Set(w, value, from) ==
    LET s == wcSetter IN
    /\ UNCHANGED <<wcState, wcMap, wcListed, wcChosen, wcOvertaken, wcService>>
    /\ \/ /\ \/ s.valid /\ ~ IsWindowValid(w)
             \/ s.app /\ WcKindOf[w] \notin {"main", "sub"}
             \/ wcState[w] \in s.keeps /\ wcValue # value
          /\ Ends("set", w, "REFUSED", from) /\ UNCHANGED <<wcValue, wcMissed>>
       \/ /\ s.valid => IsWindowValid(w)
          /\ s.app => WcKindOf[w] \in {"main", "sub"}
          /\ wcState[w] \in s.keeps => wcValue = value
          /\ IF s.same /\ wcValue = value
             THEN Ends("set", w, "OK", from) /\ UNCHANGED <<wcValue, wcMissed>>
             ELSE /\ wcValue' = value
                  /\ IF wcState[w] \in s.sends
                     THEN Goes("set", w, "server", "OK", from) /\ UNCHANGED wcMissed
                     ELSE /\ Ends("set", w, "OK", from)
                          /\ wcMissed' = (wcMissed \/ (wcServer[w] = "shown" /\ wcState[w] # "SHOWN"))

(* the buttons of the title bar: without an ability the window itself is hidden
   or destroyed, with one the service is asked to tell the ability              *)
Minimize(w, from) == WcKindOf[w] = "main" /\ IsWindowValid(w) /\ Hide(w, "NORMAL", from)
Close(w, from)    == WcKindOf[w] = "main" /\ IsWindowValid(w) /\ Destroy(w, from)

WcBegin(from) ==
    /\ WcIdle
    /\ \E w \in wcUsed :
         \/ Create(w, from)
         \/ \E reason \in {"NORMAL", "KEYGUARD", "TOGGLING"} :
              /\ reason # "NORMAL" => WcKindOf[w] = "main"   \* the ability's reasons
              /\ Show(w, reason, from) \/ Hide(w, reason, from)
         \/ Destroy(w, from)
         \/ w = wcOf /\ \E value \in {0, 1} : Set(w, value, from)
         \/ Minimize(w, from) \/ Close(w, from)

(* ---- the service answers: it may refuse all but the end of a window it has *)
Accepts(op, w) ==
    /\ wcUp
    /\ CASE op = "create"  -> WcKindOf[w] = "sub" => wcServer[WcMain] # "none"
         [] op = "hide"    -> wcServer[w] = "shown"
         [] OTHER          -> wcServer[w] # "none"
WcWaits == wcCall.op # "none" /\ wcCall.pc = "server"
Copied(w) == wcServerValue' = IF w = wcOf THEN wcValue ELSE wcServerValue
WcServe ==
    /\ WcWaits /\ Accepts(wcCall.op, wcCall.w)
    /\ wcCall' = [wcCall EXCEPT !.pc = "return"]
    /\ LET w == wcCall.w IN
         CASE wcCall.op = "create" -> wcServer' = [wcServer EXCEPT ![w] = "created"] /\ Copied(w)
           [] wcCall.op = "show"   -> wcServer' = [wcServer EXCEPT ![w] = "shown"] /\ Copied(w)
           [] wcCall.op = "set"    -> Copied(w) /\ UNCHANGED wcServer
           [] wcCall.op = "hide"   -> wcServer' = [wcServer EXCEPT ![w] = "created"] /\ UNCHANGED wcServerValue
           [] wcCall.op = "destroy" ->   \* its sub windows and dialogs go with it
                /\ UNCHANGED wcServerValue
                /\ wcServer' = [c \in WcWindows |->
                     IF c = w \/ (w = WcMain /\ c \in wcListed /\ WcKindOf[c] # "float") THEN "none" ELSE wcServer[c]]
    /\ UNCHANGED <<wcClient, wcUp, wcInbox, wcDied>>
WcRefuse == /\ WcWaits
            /\ wcCall.op = "destroy" => ~ Accepts("destroy", wcCall.w)
            /\ wcCall' = [wcCall EXCEPT !.pc = "return", !.ret = "ERROR"]
            /\ UNCHANGED <<wcClient, wcService>>

(* ---- the second half: what the main thread does with the answer *)
WcReturns(op) == wcCall.op = op /\ wcCall.pc = "return"
Finished == wcCall' = [wcCall EXCEPT !.pc = "done"]
(* the state is written over whatever the IPC thread made of it meanwhile *)
Overtaken(w) == wcOvertaken' = IF wcState[w] = "DESTROYED" THEN wcOvertaken \cup {w} ELSE wcOvertaken

ReturnCreate == /\ WcReturns("create") /\ Finished
                /\ LET w == wcCall.w IN
                   IF wcCall.ret = "OK"
                   THEN /\ wcMap' = wcMap \cup {w} /\ Sets(w, "CREATED")
                        /\ wcListed' = IF \/ WcKindOf[w] = "sub"
                                          \/ WcKindOf[w] \in {"float", "dialog"} /\ WcMain \in wcMap
                                       THEN wcListed \cup {w} ELSE wcListed
                        /\ UNCHANGED <<wcValue, wcChosen, wcMissed, wcOvertaken>>
                   ELSE UNCHANGED wcClient
                /\ UNCHANGED wcService
ReturnShow == /\ WcReturns("show") /\ Finished
              /\ LET w == wcCall.w IN
                 IF wcCall.ret = "OK"
                 THEN /\ Sets(w, "SHOWN") /\ Overtaken(w) /\ wcMissed' = (wcMissed /\ w # wcOf)
                      /\ UNCHANGED <<wcMap, wcListed, wcValue, wcChosen>>
                 ELSE UNCHANGED wcClient
              /\ UNCHANGED wcService
ReturnHide == /\ WcReturns("hide") /\ Finished
              /\ LET w == wcCall.w IN
                 IF wcCall.ret = "OK"
                 THEN /\ Sets(w, "HIDDEN") /\ Overtaken(w)
                      /\ UNCHANGED <<wcMap, wcListed, wcValue, wcChosen, wcMissed>>
                 ELSE UNCHANGED wcClient
              /\ UNCHANGED wcService
ReturnSet == /\ WcReturns("set") /\ UNCHANGED <<wcState, wcMap, wcListed, wcChosen, wcOvertaken, wcService>>
             /\ LET failed == wcCall.ret # "OK" IN
                /\ wcValue' = IF failed /\ wcSetter.undo THEN wcCall.old ELSE wcValue
                /\ wcMissed' = IF failed THEN wcMissed \/ ~ wcSetter.undo ELSE FALSE
                /\ wcCall' = [wcCall EXCEPT !.pc = "done", !.ret = IF wcSetter.tells THEN @ ELSE "OK"]

ForgetsButList(ws) == /\ wcMap' = wcMap \ ws /\ UNCHANGED wcListed
                      /\ wcState' = [w \in WcWindows |-> IF w \in ws THEN "DESTROYED" ELSE wcState[w]]
                      /\ UNCHANGED <<wcValue, wcChosen, wcMissed, wcOvertaken>>
(* Destroy(false): the window leaves its map and the list it is in *)
Forgets(ws) == /\ wcMap' = wcMap \ ws /\ wcListed' = wcListed \ ws
               /\ wcState' = [w \in WcWindows |-> IF w \in ws THEN "DESTROYED" ELSE wcState[w]]
               /\ UNCHANGED <<wcValue, wcChosen, wcMissed, wcOvertaken>>
ChildrenOf(w, kind) == IF w = WcMain THEN {c \in wcListed : WcKindOf[c] = kind} ELSE {}
DestroySubWindow(w)      == ChildrenOf(w, "sub")
DestroyFloatingWindow(w) == ChildrenOf(w, "float")
LeavesDialogs(w)         == {}
DestroyDialogWindow(w)   == ChildrenOf(w, "dialog")

(* a window without floating windows goes at once with its sub windows and
   dialogs; each floating window is destroyed through the service, and the one
   that cannot be is tried again, as it stays first in the list                 *)
ReturnDestroy ==
    /\ WcReturns("destroy") /\ UNCHANGED wcService
    /\ LET w == wcCall.w IN
       CASE wcCall.ret # "OK" -> Finished /\ UNCHANGED wcClient
         [] wcCall.ret = "OK" /\ DestroyFloatingWindow(w) = {} ->
              Finished /\ Forgets({w} \cup DestroySubWindow(w) \cup DestroyDialogWindow(w))
         [] OTHER -> /\ wcMap' = wcMap \ ({w} \cup DestroySubWindow(w))
                     /\ wcListed' = wcListed \ DestroySubWindow(w)
                     /\ wcState' = [c \in WcWindows |-> IF c \in DestroySubWindow(w) THEN "DESTROYED" ELSE wcState[c]]
                     /\ wcCall' = [wcCall EXCEPT !.pc = "floats"]
                     /\ UNCHANGED <<wcValue, wcChosen, wcMissed, wcOvertaken>>
DestroyNextFloat ==
    /\ wcCall.op = "destroy" /\ wcCall.pc = "floats"
    /\ \E f \in DestroyFloatingWindow(wcCall.w) :
         IF Accepts("destroy", f)
         THEN /\ wcServer' = [wcServer EXCEPT ![f] = "none"]
              /\ IF DestroyFloatingWindow(wcCall.w) = {f}
                 THEN Finished /\ Forgets({f, wcCall.w} \cup DestroyDialogWindow(wcCall.w))
                 ELSE UNCHANGED wcCall /\ Forgets({f})
         ELSE UNCHANGED <<wcClient, wcServer, wcCall>>
    /\ UNCHANGED <<wcServerValue, wcUp, wcInbox, wcDied>>
WcReturn == ReturnCreate \/ ReturnShow \/ ReturnHide \/ ReturnSet \/ ReturnDestroy \/ DestroyNextFloat

WcDone == /\ wcCall.op # "none" /\ wcCall.pc = "done" /\ wcCall.from = Native
          /\ wcCall' = NoWcCall /\ UNCHANGED <<wcClient, wcService>>

(* ---- the service on its own: the window a dialog is bound to goes (the dialog is
   destroyed and told), the keyguard comes and goes over a shown window, the split
   screen is toggled                                                            *)
Tells(w, what) == Len(wcInbox) < WcInboxMax /\ wcInbox' = Append(wcInbox, [w |-> w, what |-> what])
WcDialogGoes ==
    /\ wcUp /\ UNCHANGED <<wcClient, wcCall, wcServerValue, wcUp, wcDied>>
    /\ \E w \in WcWindows : /\ WcKindOf[w] = "dialog" /\ wcServer[w] # "none"
                            /\ wcServer' = [wcServer EXCEPT ![w] = "none"] /\ Tells(w, "NotifyDestroy")
WcStateSent ==   \* SHOWN for STATE_UNFROZEN as well
    /\ wcUp /\ UNCHANGED <<wcClient, wcCall, wcServer, wcServerValue, wcUp, wcDied>>
    /\ \E w \in WcWindows : \E state \in {"FROZEN", "SHOWN"} : wcServer[w] = "shown" /\ Tells(w, state)

(* the IPC thread takes the next message. A main window of an ability leaves its
   state to the ability, which hides or shows it with a reason                  *)
NotifyDestroy(w) == IF IsWindowValid(w) THEN Forgets({w}) ELSE UNCHANGED wcClient
UpdateWindowState(w, state) ==
    IF IsWindowValid(w) /\ WcKindOf[w] # "main"
    THEN /\ Sets(w, IF state = "FROZEN" THEN "FROZEN" ELSE "SHOWN")
         /\ UNCHANGED <<wcMap, wcListed, wcValue, wcChosen, wcMissed, wcOvertaken>>
    ELSE UNCHANGED wcClient
WcReceive == /\ wcInbox # <<>> /\ wcInbox' = Tail(wcInbox)
             /\ LET m == Head(wcInbox) IN
                IF m.what = "NotifyDestroy" THEN NotifyDestroy(m.w) ELSE UpdateWindowState(m.w, m.what)
             /\ UNCHANGED <<wcCall, wcServer, wcServerValue, wcUp, wcDied>>

(* the service dies with all it knows; started again, it knows no window *)
WcServiceDies == /\ wcUp /\ ~ wcDied /\ wcUp' = FALSE /\ wcDied' = TRUE /\ wcInbox' = <<>>
                 /\ wcServer' = [w \in WcWindows |-> "none"]
                 /\ UNCHANGED <<wcClient, wcCall, wcServerValue>>
WcServiceRestarts == /\ ~ wcUp /\ wcUp' = TRUE
                     /\ UNCHANGED <<wcClient, wcCall, wcServer, wcServerValue, wcInbox, wcDied>>

WcStep == WcServe \/ WcRefuse \/ WcReturn \/ WcDone
WcWorld == WcDialogGoes \/ WcStateSent \/ WcReceive \/ WcServiceDies \/ WcServiceRestarts
WcNext == WcBegin(Native) \/ WcStep \/ WcWorld
(* the main thread runs, and so does the service *)
WcFair == WF_wcVars(WcStep)
WcSpec == WcInit /\ [][WcNext]_wcVars /\ WcFair
-----------------------------------------------------------------------------
(* Between calls the windows found by name are exactly the valid ones, and what
   is listed under a main window is valid and outlived by it. The exception is a
   window that NotifyDestroy destroyed while the main thread waited for Show or
   Hide: the answer makes it valid again although no map has it.                *)
WcMapsSound == WcIdle => /\ \A w \in WcWindows : w \in wcMap <=> IsWindowValid(w) /\ w \notin wcOvertaken
                         /\ wcListed \subseteq wcMap
                         /\ wcListed # {} => WcMain \in wcMap

(* While a window is shown, between calls, the service has the value that the
   client keeps for it. The exceptions are a failed update that the setter does not
   undo, and a change made while the window is frozen or toggled away, which is
   sent by no later call.                                                       *)
WcServerKnows == WcIdle /\ wcOf # "none" /\ ~ wcMissed /\ wcState[wcOf] = "SHOWN" /\ wcServer[wcOf] = "shown"
                    => wcServerValue = wcValue

(* Every call of the main thread ends, as long as the service never dies: Destroy
   runs through the floating windows until none is left.                        *)
WcCallsEnd == wcCall.op # "none" ~> (wcCall.op = "none" \/ wcDied)
=============================================================================
