------------------------- MODULE ListenerRegistryProofs -------------------------
(* Proofs about ListenerRegistry, for every kind of list and any bound on the
   changes: the service and the list agree on whether anybody listens, and who
   listens is told of the latest change.                                       *)
EXTENDS ListenerRegistry, FiniteSetTheorems, TLAPS

(* ------------------------------- the kinds --------------------------------- *)
On  == [agent : {"own", "flag", "kept", "must"}, one : BOOLEAN]
Off == [agent : {"own", "flag", "freed"}, strict : BOOLEAN, heeds : BOOLEAN]
Tells == {"ready", "late", "ipc"}
LrKinds == [on : On, off : Off, tell : Tells, js : {"none", "weak", "bare"}, two : BOOLEAN]

(* what the arguments need of a kind: registering and unregistering go together *)
KindOK(k) == /\ k \in LrKinds
             /\ k.off.heeds
             /\ \/ k.on.agent = "own" /\ k.off.agent = "own" /\ ~k.two
                \/ k.on.agent = "flag" /\ k.off.agent = "flag" /\ ~k.on.one /\ ~k.two
                \/ k.on.agent \in {"kept", "must"} /\ k.off.agent = "freed" /\ ~k.on.one
             /\ k.js = "bare" => ~k.on.one

(* which ways of registering and unregistering go together *)
Fits(on, off) == /\ on \in On /\ off \in Off /\ off.heeds
                 /\ \/ on.agent = "own" /\ off.agent = "own"
                    \/ on.agent = "flag" /\ off.agent = "flag" /\ ~on.one
                    \/ on.agent \in {"kept", "must"} /\ off.agent = "freed" /\ ~on.one

LEMMA RowsFit ==
  /\ Fits(Joins("own"), Leaves("own")) /\ Fits(Joins("own"), Strictly(Leaves("own")))
  /\ Fits([Joins("own") EXCEPT !.one = TRUE], Leaves("own"))
  /\ Fits(Joins("flag"), Leaves("flag")) /\ ~Joins("flag").one
  /\ Fits(Joins("kept"), Leaves("freed")) /\ Fits(Joins("kept"), Strictly(Leaves("freed")))
  /\ Fits(Joins("must"), Strictly(Leaves("freed"))) /\ ~Joins("must").one /\ Joins("must").agent = "must"
BY DEF Fits, On, Off, Joins, Leaves, Strictly

LEMMA FittingKind ==
  ASSUME NEW on, NEW off, NEW tell \in Tells, NEW js \in {"none", "weak", "bare"}, Fits(on, off), js = "bare" => ~on.one
  PROVE  KindOK(Kind(on, off, tell, js)) /\ ~Kind(on, off, tell, js).two
<1>1. Kind(on, off, tell, js) \in LrKinds
  BY DEF Fits, Kind, LrKinds
<1>2. /\ Kind(on, off, tell, js).on = on /\ Kind(on, off, tell, js).off = off
      /\ Kind(on, off, tell, js).js = js /\ Kind(on, off, tell, js).two = FALSE
  BY DEF Kind
<1> QED BY <1>1, <1>2 DEF Fits, KindOK

LEMMA ScriptKindsOK == \A k \in ScriptKinds : KindOK(k) /\ ~k.two
<1> USE RowsFit, FittingKind DEF Tells, OnSizeChange, JsDisplayListenerOnChange, JsScreenListenerOnChange
<1>1. KindOK(ProcessLifeCycleEventRegister) /\ ~ProcessLifeCycleEventRegister.two
  BY DEF ProcessLifeCycleEventRegister, RegisterLifeCycleListener, UnregisterLifeCycleListener, NotifyAfterForeground
<1>2. KindOK(ProcessWindowChangeRegister) /\ ~ProcessWindowChangeRegister.two
  BY DEF ProcessWindowChangeRegister, RegisterWindowChangeListener, UnregisterWindowChangeListener, NotifySizeChange
<1>3. KindOK(ProcessAvoidAreaChangeRegister) /\ ~ProcessAvoidAreaChangeRegister.two
  BY DEF ProcessAvoidAreaChangeRegister, RegisterAvoidAreaChangeListener, UnregisterAvoidAreaChangeListener, NotifyAvoidAreaChange
<1>4. KindOK(ProcessOccupiedAreaChangeRegister) /\ ~ProcessOccupiedAreaChangeRegister.two
  BY DEF ProcessOccupiedAreaChangeRegister, RegisterOccupiedAreaChangeListener, UnregisterOccupiedAreaChangeListener, NotifyOccupiedAreaChange
<1>5. KindOK(ProcessTouchOutsideRegister) /\ ~ProcessTouchOutsideRegister.two
  BY DEF ProcessTouchOutsideRegister, RegisterTouchOutsideListener, UnregisterTouchOutsideListener, NotifyTouchOutside
<1>6. KindOK(ProcessScreenshotRegister) /\ ~ProcessScreenshotRegister.two
  BY DEF ProcessScreenshotRegister, RegisterScreenshotListener, UnregisterScreenshotListener, NotifyScreenshot
<1>7. KindOK(ProcessDialogTargetTouchRegister) /\ ~ProcessDialogTargetTouchRegister.two
  BY DEF ProcessDialogTargetTouchRegister, RegisterDialogTargetTouchListener, UnregisterDialogTargetTouchListener, NotifyTouchDialogTarget
<1>8. KindOK(ProcessDialogDeathRecipientRegister) /\ ~ProcessDialogDeathRecipientRegister.two
  BY DEF ProcessDialogDeathRecipientRegister, RegisterDialogDeathRecipientListener, UnregisterDialogDeathRecipientListener, OnDialogDeathRecipient
<1>9. KindOK(ProcessSystemBarChangeRegister) /\ ~ProcessSystemBarChangeRegister.two
  BY DEF ProcessSystemBarChangeRegister, RegisterSystemBarChangedListener, UnregisterSystemBarChangedListener, NotifySystemBarChanged
<1>10. KindOK(RegisterDisplayListenerWithType) /\ ~RegisterDisplayListenerWithType.two
  BY DEF RegisterDisplayListenerWithType, RegisterDisplayListener, UnregisterDisplayListener, OnDisplayChange
<1>11. KindOK(RegisterScreenListenerWithType) /\ ~RegisterScreenListenerWithType.two
  BY DEF RegisterScreenListenerWithType, RegisterScreenListener, UnregisterScreenListener, OnScreenChange
<1> QED BY ONLY <1>1, <1>2, <1>3, <1>4, <1>5, <1>6, <1>7, <1>8, <1>9, <1>10, <1>11
        DEF ScriptKinds, ProcessSystemAvoidAreaChangeRegister

LEMMA WithoutScript ==
  ASSUME NEW k, KindOK(k)
  PROVE  KindOK([k EXCEPT !.js = "none"])
<1>1. [k EXCEPT !.js = "none"] \in LrKinds
  BY DEF KindOK, LrKinds
<1>2. /\ [k EXCEPT !.js = "none"].on = k.on /\ [k EXCEPT !.js = "none"].off = k.off
      /\ [k EXCEPT !.js = "none"].two = k.two /\ [k EXCEPT !.js = "none"].js = "none"
  BY DEF KindOK, LrKinds
<1> QED BY <1>1, <1>2 DEF KindOK

LEMMA NativeKindsOK == \A k \in NativeKinds : KindOK(k)
<1>1. \A k \in ScriptKinds : KindOK([k EXCEPT !.js = "none"])
  BY ScriptKindsOK, WithoutScript
<1>2. KindOK([RegisterScreenListenerWithType EXCEPT !.js = "none", !.two = TRUE])
  <2> DEFINE k == RegisterScreenListenerWithType
             two == [k EXCEPT !.js = "none", !.two = TRUE]
  <2>1. k.on = Joins("must") /\ k.off = Strictly(Leaves("freed")) /\ k \in LrKinds
    <3>1. k.on = Joins("must") /\ k.off = Strictly(Leaves("freed"))
      BY DEF RegisterScreenListenerWithType, Kind, RegisterScreenListener, UnregisterScreenListener
    <3>2. RegisterScreenListenerWithType \in ScriptKinds
      BY DEF ScriptKinds
    <3> QED BY <3>1, <3>2, ScriptKindsOK DEF KindOK
  <2> HIDE DEF k
  <2>2. two \in LrKinds /\ two.on = k.on /\ two.off = k.off /\ two.js = "none"
    BY <2>1 DEF LrKinds
  <2> QED BY <2>1, <2>2, RowsFit DEF KindOK, Fits, k
<1> DEFINE K3(on, off, tell) == KindOK(Kind(on, off, tell, "none"))
<1>3. /\ K3(RegisterDragListener, UnregisterDragListener, UpdateDragEvent)
      /\ K3(RegisterDisplayMoveListener, UnregisterDisplayMoveListener, NotifyDisplayMoveChange)
  BY RowsFit, FittingKind DEF Tells, RegisterDragListener, UnregisterDragListener,
         UpdateDragEvent, RegisterDisplayMoveListener, UnregisterDisplayMoveListener, NotifyDisplayMoveChange
<1>4. /\ K3(RegisterFocusChangedListener, UnregisterFocusChangedListener, NotifyFocused)
      /\ K3(RegisterFocusChangedListener, UnregisterFocusChangedListener, NotifyUnfocused)
      /\ K3(RegisterWindowUpdateListener, UnregisterWindowUpdateListener, NotifyAccessibilityWindowInfo)
  BY RowsFit, FittingKind DEF Tells, RegisterFocusChangedListener, UnregisterFocusChangedListener,
         NotifyFocused, NotifyUnfocused, RegisterWindowUpdateListener, UnregisterWindowUpdateListener, NotifyAccessibilityWindowInfo
<1>5. /\ K3(RegisterVisibilityChangedListener, UnregisterVisibilityChangedListener, NotifyWindowVisibilityInfoChanged)
      /\ K3(RegisterCameraFloatWindowChangedListener, UnregisterCameraFloatWindowChangedListener, UpdateCameraFloatWindowStatus)
      /\ K3(RegisterDisplayPowerEventListener, UnregisterDisplayPowerEventListener, NotifyDisplayPowerEvent)
  BY RowsFit, FittingKind DEF Tells, RegisterVisibilityChangedListener, UnregisterVisibilityChangedListener,
         NotifyWindowVisibilityInfoChanged, RegisterCameraFloatWindowChangedListener, UnregisterCameraFloatWindowChangedListener,
         UpdateCameraFloatWindowStatus, RegisterDisplayPowerEventListener, UnregisterDisplayPowerEventListener, NotifyDisplayPowerEvent
<1> QED BY <1>1, <1>2, <1>3, <1>4, <1>5 DEF NativeKinds

(* ----------------------------- the invariant ------------------------------- *)
LrTasksOK == Seq([to : SUBSET LrListeners, value : Nat])
LrTypeOK ==
  /\ lrKind \in NativeKinds \cup ScriptKinds
  /\ lrList \subseteq LrListeners /\ lrAgent \in BOOLEAN /\ lrServed \in BOOLEAN
  /\ lrService \in {"up", "gone", "back"}
  /\ lrCall \in [{"t", "u"} -> [pc : {"idle", "size", "send", "map"}, l : LrListeners, on : BOOLEAN]]
  /\ \A t \in {"t", "u"} : (lrCall[t].pc = "idle" => ~lrCall[t].on) /\ (lrCall[t].pc = "map" => lrCall[t].on)
  /\ lrWire \in Seq(Nat) /\ lrTasks \in LrTasksOK /\ lrJsTasks \in LrTasksOK
  /\ lrHandler \in BOOLEAN /\ lrStarting \subseteq {"own", "other"}
  /\ lrCallbacks \subseteq LrListeners /\ lrValue \in Nat
  /\ lrTold \in [LrListeners -> Nat] /\ lrDue \subseteq LrListeners /\ lrExcused \in BOOLEAN
  /\ lrStarting # {} => lrKind.tell = "late"
  /\ "own" \in lrStarting => lrWire # <<>>

(* A thread that has left the lock is about to tell the service what it does not know. *)
LrSizes ==
  /\ \A t, u \in LrThreads : t = u \/ LrIdle(t) \/ LrIdle(u)
  /\ \A t \in LrThreads : LET c == lrCall[t] IN
       /\ c.pc = "size" => IF c.on THEN c.l \in lrList /\ (lrList # {c.l} => lrServed) ELSE lrList # {} => lrServed
       /\ c.pc = "send" => lrList = IF c.on THEN {c.l} ELSE {}
  /\ (\A t \in LrThreads : lrCall[t].pc \notin {"size", "send"}) => (lrServed <=> lrList # {})

(* What the service knows, by the kind of list. *)
LrKnown ==
  /\ lrService = "up"
  /\ lrKind.on.agent = "own" => lrServed
  /\ lrKind.on.agent \in {"kept", "must"} => lrAgent = lrServed /\ (lrServed <=> lrList # {})
  /\ lrKind.on.agent = "flag" => LrSizes
  /\ lrKind.on.agent # "flag" => \A t \in LrThreads : lrCall[t].pc \in {"idle", "map"}
  /\ ~LrScript => lrJsTasks = <<>> /\ \A t \in LrThreads : lrCall[t].pc # "map"

(* JavaScript has mapped what is in the list, but for the one it is about to map. *)
LrMapped ==
  LrScript /\ ~lrKind.on.one =>
    /\ lrCall["t"].on => lrCall["t"].l \in lrList
    /\ lrCallbacks = IF lrCall["t"].on THEN lrList \ {lrCall["t"].l} ELSE lrList
    /\ lrDue \subseteq lrCallbacks

(* The last thing on its way, as near to the listeners as it is, is the latest change,
   and it goes to those who are owed it.                                             *)
LrLast(tasks) == tasks[Len(tasks)].value = lrValue /\ lrDue \subseteq tasks[Len(tasks)].to
LrOnItsWay ==
  /\ lrDue \subseteq lrList
  /\ lrDue # {} => \/ lrWire # <<>> /\ lrWire[Len(lrWire)] = lrValue
                   \/ lrWire = <<>> /\ lrTasks # <<>> /\ LrLast(lrTasks)
                   \/ lrWire = <<>> /\ lrTasks = <<>> /\ lrJsTasks # <<>> /\ LrLast(lrJsTasks)
                   \/ /\ lrWire = <<>> /\ lrTasks = <<>> /\ lrJsTasks = <<>>
                      /\ \A l \in lrDue : lrTold[l] = lrValue

LrSound == LrKnown /\ LrMapped /\ LrOnItsWay
LrInv == LrTypeOK /\ (~lrExcused => LrSound)

-----------------------------------------------------------------------------
LEMMA KindFacts ==
  ASSUME LrTypeOK
  PROVE  /\ KindOK(lrKind)
         /\ \A l \in LrListeners : /\ lrKind.on.agent = "own" => OffOf(l).agent = "own"
                                   /\ lrKind.on.agent = "flag" => OffOf(l).agent = "flag"
                                   /\ lrKind.on.agent \in {"kept", "must"} => OffOf(l).agent = "freed"
<1>1. KindOK(lrKind)
  BY ScriptKindsOK, NativeKindsOK DEF LrTypeOK
<1>2. UnregisterScreenGroupListener.agent = "freed"
  BY DEF UnregisterScreenGroupListener, Strictly, Leaves
<1> QED BY <1>1, <1>2 DEF KindOK, LrKinds, Off, OffOf

LEMMA LrInitOK == LrInit => LrInv
<1> SUFFICES ASSUME LrInit PROVE LrInv
  OBVIOUS
<1>1. LrTypeOK
  <2>1. /\ lrCall \in [{"t", "u"} -> [pc : {"idle", "size", "send", "map"}, l : LrListeners, on : BOOLEAN]]
        /\ \A t \in {"t", "u"} : (lrCall[t].pc = "idle" => ~lrCall[t].on) /\ (lrCall[t].pc = "map" => lrCall[t].on)
    BY DEF LrInit, NoLrCall, LrListeners
  <2>2. lrServed \in BOOLEAN /\ lrTold \in [LrListeners -> Nat]
    BY DEF LrInit
  <2>3. lrWire \in Seq(Nat) /\ lrTasks \in LrTasksOK /\ lrJsTasks \in LrTasksOK
    BY DEF LrInit, LrTasksOK
  <2> QED BY <2>1, <2>2, <2>3 DEF LrInit, LrTypeOK
<1>2. LrKnown
  BY <1>1, KindFacts DEF LrInit, LrKnown, LrSizes, LrThreads, NoLrCall, LrIdle, KindOK
<1>3. LrMapped /\ LrOnItsWay
  BY DEF LrInit, LrMapped, LrOnItsWay, NoLrCall
<1> QED BY <1>1, <1>2, <1>3 DEF LrInv, LrSound

LEMMA ThreadsOK == "t" \in LrThreads /\ LrThreads \subseteq {"t", "u"} /\ (LrScript => LrThreads = {"t"})
BY DEF LrThreads

(* what a thread goes to *)
LEMMA AtOK ==
  ASSUME LrTypeOK, NEW t \in LrThreads, NEW pc \in {"idle", "size", "send", "map"}, NEW l \in LrListeners,
         NEW on \in BOOLEAN, LrAt(t, pc, l, on), pc = "map" => on
  PROVE  /\ lrCall' \in [{"t", "u"} -> [pc : {"idle", "size", "send", "map"}, l : LrListeners, on : BOOLEAN]]
         /\ \A u \in {"t", "u"} : (lrCall'[u].pc = "idle" => ~lrCall'[u].on) /\ (lrCall'[u].pc = "map" => lrCall'[u].on)
         /\ \A u \in {"t", "u"} : u # t => lrCall'[u] = lrCall[u]
         /\ lrCall'[t].pc = pc /\ (lrCall'[t].on <=> on /\ pc # "idle")
         /\ pc # "idle" => lrCall'[t].l = l
<1> DEFINE new == IF pc = "idle" THEN NoLrCall ELSE [pc |-> pc, l |-> l, on |-> on]
<1>1. /\ new \in [pc : {"idle", "size", "send", "map"}, l : LrListeners, on : BOOLEAN]
      /\ new.pc = pc /\ (new.on <=> on /\ pc # "idle") /\ (pc # "idle" => new.l = l)
  BY DEF NoLrCall, LrListeners
<1>2. lrCall' = [lrCall EXCEPT ![t] = new]
  BY DEF LrAt
<1> HIDE DEF new
<1>3. t \in {"t", "u"}
  BY ThreadsOK
<1> QED BY <1>1, <1>2, <1>3 DEF LrTypeOK

(* a change that leaves what is on its way alone *)
LEMMA FlowKept ==
  ASSUME LrOnItsWay, UNCHANGED <<lrKind, lrFlow>>, lrDue' \subseteq lrDue, lrDue' \subseteq lrList'
  PROVE  LrOnItsWay'
BY DEF LrOnItsWay, LrLast, lrFlow

-----------------------------------------------------------------------------
LEMMA RegisterOK ==
  ASSUME LrInv, NEW t \in LrThreads, NEW l \in LrListeners, LrRegister(t, l)
  PROVE  LrInv'
<1> USE DEF LrInv
<1> DEFINE on == lrKind.on
           registers == on.agent \in {"kept", "must"} /\ ~lrAgent
           refused == registers /\ ~LrUp /\ on.agent = "must"
           goes == IF on.agent = "flag" THEN "size" ELSE LrAfter(TRUE)
<1>1. /\ LrIdle(t)
      /\ IF LrScript THEN l \notin lrCallbacks ELSE l \notin lrList \/ (on.agent = "must" /\ ~lrAgent)
      /\ lrList' = IF refused THEN lrList ELSE IF on.one THEN {l} ELSE lrList \cup {l}
      /\ lrAgent' = ((lrAgent \/ registers) /\ ~refused)
      /\ lrServed' = (lrServed \/ (registers /\ LrUp))
      /\ lrExcused' = (lrExcused \/ (registers /\ ~LrUp /\ (LrScript \/ on.agent = "kept")) \/ LrRaces(t))
      /\ LrAt(t, goes, l, TRUE)
      /\ lrDue' = IF on.one THEN {} ELSE lrDue
      /\ UNCHANGED <<lrKind, lrService, lrCallbacks>> /\ UNCHANGED lrFlow
  BY DEF LrRegister
<1>2. goes \in {"size", "map", "idle"} /\ (LrScript => goes # "idle") /\ (~LrScript => goes # "map")
      /\ (goes = "size" <=> on.agent = "flag")
  BY DEF LrAfter
<1>3. /\ lrCall' \in [{"t", "u"} -> [pc : {"idle", "size", "send", "map"}, l : LrListeners, on : BOOLEAN]]
      /\ \A u \in {"t", "u"} : (lrCall'[u].pc = "idle" => ~lrCall'[u].on) /\ (lrCall'[u].pc = "map" => lrCall'[u].on)
      /\ \A u \in {"t", "u"} : u # t => lrCall'[u] = lrCall[u]
      /\ lrCall'[t].pc = goes /\ (lrCall'[t].on <=> goes # "idle")
      /\ goes # "idle" => lrCall'[t].l = l
  <2>1. goes \in {"idle", "size", "send", "map"} /\ TRUE \in BOOLEAN /\ LrAt(t, goes, l, TRUE)
    BY <1>1, <1>2
  <2> HIDE DEF goes
  <2> QED BY <2>1, AtOK
<1>4. KindOK(lrKind)
  BY KindFacts
<1>5. LrTypeOK'
  <2>1. on.agent \in {"own", "flag", "kept", "must"} /\ on.one \in BOOLEAN
    BY <1>4 DEF KindOK, LrKinds, On
  <2>2. LrRaces(t) \in BOOLEAN /\ LrScript \in BOOLEAN
    BY DEF LrRaces, LrScript
  <2>3. lrList' \subseteq LrListeners /\ lrAgent' \in BOOLEAN /\ lrServed' \in BOOLEAN /\ lrExcused' \in BOOLEAN
        /\ lrDue' \subseteq LrListeners
    BY <1>1, <2>1, <2>2 DEF LrTypeOK, LrUp
  <2> QED BY <1>1, <1>3, <2>3 DEF LrTypeOK, lrFlow
<1>6. ASSUME ~lrExcused' PROVE LrSound'
  <2>1. ~lrExcused /\ LrSound /\ lrService = "up" /\ LrUp /\ ~refused /\ ~LrRaces(t)
    BY <1>1, <1>6 DEF LrSound, LrKnown, LrUp
  <2>2. /\ lrList' = IF on.one THEN {l} ELSE lrList \cup {l}
        /\ lrAgent' = (lrAgent \/ registers) /\ lrServed' = (lrServed \/ registers)
    BY <1>1, <2>1
  <2>3. on.agent = "flag" => ~on.one /\ \A u \in LrThreads : LrIdle(u)
    BY <1>1, <1>4, <2>1 DEF LrRaces, KindOK
  <2>4. LrThreads' = LrThreads /\ LrScript' = LrScript /\ LrThreads \subseteq {"t", "u"}
    BY <1>1 DEF LrThreads, LrScript
  <2>5. LrMapped'
    <3> SUFFICES ASSUME LrScript, ~on.one PROVE LrMapped'
      BY <1>1 DEF LrMapped, LrScript
    <3>1. t = "t" /\ ~lrCall["t"].on
      BY <1>1, ThreadsOK DEF LrTypeOK, LrIdle
    <3>2. lrCallbacks = lrList /\ l \notin lrList /\ lrDue \subseteq lrCallbacks
      BY <1>1, <3>1, <2>1 DEF LrSound, LrMapped
    <3> QED BY <1>1, <1>2, <1>3, <2>2, <3>1, <3>2 DEF LrMapped
  <2>6. LrSizes' \/ on.agent # "flag"
    <3> SUFFICES ASSUME on.agent = "flag" PROVE LrSizes'
      OBVIOUS
    <3>1. l \notin lrList
      <4>1. CASE LrScript
        <5>1. t = "t" /\ ~lrCall["t"].on
          BY <1>1, <4>1, ThreadsOK DEF LrTypeOK, LrIdle
        <5> QED BY <1>1, <2>1, <2>3, <4>1, <5>1 DEF LrSound, LrMapped
      <4>2. CASE ~LrScript
        BY <1>1, <4>2
      <4> QED BY <4>1, <4>2
    <3>2. lrServed <=> lrList # {}
      BY <2>1, <2>3 DEF LrSound, LrKnown, LrSizes, LrIdle
    <3>3. \A u \in LrThreads : lrCall'[u].pc = IF u = t THEN "size" ELSE "idle"
      BY <1>2, <1>3, <2>3, <2>4 DEF LrIdle
    <3>4. lrServed' = lrServed /\ lrList' = lrList \cup {l} /\ (lrList' # {l} => lrList # {})
      BY <2>2, <2>3, <3>1 DEF LrTypeOK
    <3>5. lrCall'[t].on /\ lrCall'[t].l = l
      BY <1>2, <1>3
    <3> QED BY <2>4, <3>2, <3>3, <3>4, <3>5 DEF LrSizes, LrIdle
  <2>7. LrKnown'
    <3>1. on.agent # "flag" => \A u \in LrThreads : lrCall'[u].pc \in {"idle", "map"}
      BY <1>2, <1>3, <2>1, <2>4 DEF LrSound, LrKnown
    <3>2. ~LrScript => lrJsTasks' = <<>> /\ \A u \in LrThreads : lrCall'[u].pc # "map"
      BY <1>1, <1>2, <1>3, <2>1, <2>4 DEF LrSound, LrKnown, lrFlow
    <3>3. on.agent = "own" => lrServed'
      BY <2>1, <2>2 DEF LrSound, LrKnown
    <3>4. on.agent \in {"kept", "must"} => lrAgent' = lrServed' /\ (lrServed' <=> lrList' # {})
      BY <2>1, <2>2 DEF LrSound, LrKnown, LrTypeOK
    <3> QED BY <1>1, <2>1, <2>4, <2>6, <3>1, <3>2, <3>3, <3>4 DEF LrKnown
  <2>8. LrOnItsWay'
    <3>1. lrDue' \subseteq lrDue /\ lrDue' \subseteq lrList'
      BY <1>1, <2>1, <2>2 DEF LrSound, LrOnItsWay
    <3> QED BY <1>1, <2>1, <3>1, FlowKept DEF LrSound
  <2> QED BY <2>5, <2>7, <2>8 DEF LrSound
<1> QED BY <1>5, <1>6

LEMMA UnregisterOK ==
  ASSUME LrInv, NEW t \in LrThreads, NEW l \in LrListeners, LrUnregister(t, l)
  PROVE  LrInv'
<1> USE DEF LrInv
<1> DEFINE off == OffOf(l)
           left == IF lrKind.on.one THEN {} ELSE lrList \ {l}
           empty == (IF off.heeds THEN left ELSE left \cap ListOf(l)) = {}
           frees == off.agent = "freed" /\ empty /\ lrAgent
           goes == IF off.agent = "flag" THEN "size" ELSE "idle"
<1>1. /\ LrIdle(t)
      /\ lrList' = left
      /\ lrAgent' = IF l \in lrList \/ ~off.strict THEN lrAgent /\ ~frees ELSE lrAgent
      /\ lrServed' = IF (l \in lrList \/ ~off.strict) /\ frees /\ LrUp THEN FALSE ELSE lrServed
      /\ lrExcused' = (lrExcused \/ (frees /\ left # {}) \/ LrRaces(t))
      /\ LrAt(t, goes, l, FALSE)
      /\ lrCallbacks' = lrCallbacks \ {l}
      /\ lrDue' = lrDue \cap left
      /\ UNCHANGED <<lrKind, lrService>> /\ UNCHANGED lrFlow
  BY DEF LrUnregister
<1>2. KindOK(lrKind) /\ goes \in {"size", "idle"}
      /\ (lrKind.on.agent = "own" => off.agent = "own") /\ (lrKind.on.agent = "flag" => off.agent = "flag")
      /\ (lrKind.on.agent \in {"kept", "must"} => off.agent = "freed")
      /\ lrKind.on.agent \in {"own", "flag", "kept", "must"}
  <2>1. KindOK(lrKind)
    BY KindFacts
  <2>2. lrKind.on.agent \in {"own", "flag", "kept", "must"}
    BY <2>1 DEF KindOK
  <2>3. goes \in {"size", "idle"}
    OBVIOUS
  <2>4. /\ lrKind.on.agent = "own" => OffOf(l).agent = "own"
        /\ lrKind.on.agent = "flag" => OffOf(l).agent = "flag"
        /\ lrKind.on.agent \in {"kept", "must"} => OffOf(l).agent = "freed"
    BY KindFacts
  <2> QED BY <2>1, <2>2, <2>3, <2>4
<1>3. /\ lrCall' \in [{"t", "u"} -> [pc : {"idle", "size", "send", "map"}, l : LrListeners, on : BOOLEAN]]
      /\ \A u \in {"t", "u"} : (lrCall'[u].pc = "idle" => ~lrCall'[u].on) /\ (lrCall'[u].pc = "map" => lrCall'[u].on)
      /\ \A u \in {"t", "u"} : u # t => lrCall'[u] = lrCall[u]
      /\ lrCall'[t].pc = goes /\ ~lrCall'[t].on
  <2>1. goes \in {"idle", "size", "send", "map"} /\ goes # "map" /\ FALSE \in BOOLEAN /\ LrAt(t, goes, l, FALSE)
    BY <1>1, <1>2
  <2> HIDE DEF goes
  <2> QED BY <2>1, AtOK
<1>4. LrTypeOK'
  <2>1. LrRaces(t) \in BOOLEAN
    BY DEF LrRaces
  <2>2. lrList' \subseteq LrListeners /\ lrAgent' \in BOOLEAN /\ lrServed' \in BOOLEAN /\ lrExcused' \in BOOLEAN
        /\ lrCallbacks' \subseteq LrListeners /\ lrDue' \subseteq LrListeners
    BY <1>1, <2>1 DEF LrTypeOK
  <2> QED BY <1>1, <1>3, <2>2 DEF LrTypeOK, lrFlow
<1>5. ASSUME ~lrExcused' PROVE LrSound'
  <2>1. ~lrExcused /\ LrSound /\ LrUp /\ (frees => left = {}) /\ ~LrRaces(t)
    BY <1>1, <1>5 DEF LrSound, LrKnown, LrUp
  <2>2. LrThreads' = LrThreads /\ LrScript' = LrScript /\ LrThreads \subseteq {"t", "u"}
    BY <1>1 DEF LrThreads, LrScript
  <2>3. LrMapped'
    <3> SUFFICES ASSUME LrScript, ~lrKind.on.one PROVE LrMapped'
      BY <1>1 DEF LrMapped, LrScript
    <3>1. t = "t" /\ ~lrCall["t"].on
      BY <1>1, ThreadsOK DEF LrTypeOK, LrIdle
    <3>2. lrCallbacks = lrList /\ lrDue \subseteq lrCallbacks
      BY <3>1, <2>1 DEF LrSound, LrMapped
    <3>3. left = lrList \ {l}
      OBVIOUS
    <3> HIDE DEF left
    <3> QED BY <1>1, <1>3, <3>1, <3>2, <3>3 DEF LrMapped
  <2>4. LrSizes' \/ lrKind.on.agent # "flag"
    <3> SUFFICES ASSUME lrKind.on.agent = "flag" PROVE LrSizes'
      OBVIOUS
    <3>1. \A u \in LrThreads : LrIdle(u)
      BY <1>1, <2>1 DEF LrRaces
    <3>2. lrServed <=> lrList # {}
      BY <2>1, <3>1 DEF LrSound, LrKnown, LrSizes, LrIdle
    <3>3. \A u \in LrThreads : lrCall'[u].pc = IF u = t THEN "size" ELSE "idle"
      BY <1>2, <1>3, <2>2, <3>1 DEF LrIdle
    <3>4. lrServed' = lrServed /\ (lrList' # {} => lrList # {})
      BY <1>1, <1>2
    <3> QED BY <1>3, <2>2, <3>2, <3>3, <3>4 DEF LrSizes, LrIdle
  <2>5. LrKnown'
    <3>1. lrKind.on.agent # "flag" => \A u \in LrThreads : lrCall'[u].pc \in {"idle", "map"}
      <4>1. lrKind.on.agent # "flag" => goes = "idle"
        BY <1>2
      <4> QED BY <1>3, <2>1, <2>2, <4>1 DEF LrSound, LrKnown
    <3>2. ~LrScript => lrJsTasks' = <<>> /\ \A u \in LrThreads : lrCall'[u].pc # "map"
      BY <1>1, <1>2, <1>3, <2>1, <2>2 DEF LrSound, LrKnown, lrFlow
    <3>3. lrKind.on.agent = "own" => lrServed'
      BY <1>1, <1>2, <2>1 DEF LrSound, LrKnown
    <3>4. ASSUME lrKind.on.agent \in {"kept", "must"} PROVE lrAgent' = lrServed' /\ (lrServed' <=> lrList' # {})
      <4>1. ~lrKind.on.one /\ off.agent = "freed" /\ lrAgent = lrServed /\ (lrServed <=> lrList # {})
        BY <1>2, <2>1, <3>4 DEF KindOK, LrSound, LrKnown
      <4>2. left = lrList \ {l}
        BY <4>1
      <4>3. CASE l \in lrList \/ ~off.strict
        <5>1. CASE frees
          BY <1>1, <2>1, <4>3, <5>1
        <5>2. CASE ~frees
          <6>1. lrAgent' = lrAgent /\ lrServed' = lrServed
            BY <1>1, <5>2 DEF LrTypeOK
          <6>2. lrAgent => left # {}
            BY <4>1, <5>2
          <6>3. left # {} => lrList # {}
            BY <4>2
          <6>4. lrServed' <=> lrList' # {}
            <7>1. lrList' = left /\ (left # {} <=> lrList # {})
              BY <1>1, <4>1, <6>2, <6>3
            <7> HIDE DEF left
            <7> QED BY <4>1, <6>1, <7>1
          <6> QED BY <4>1, <6>1, <6>4
        <5> QED BY <5>1, <5>2
      <4>4. CASE ~(l \in lrList \/ ~off.strict)
        <5>1. lrAgent' = lrAgent /\ lrServed' = lrServed /\ lrList' = lrList
          BY <1>1, <4>2, <4>4
        <5> QED BY <4>1, <5>1
      <4> QED BY <4>3, <4>4
    <3>5. lrService' = "up"
      BY <1>1, <2>1 DEF LrSound, LrKnown
    <3> QED BY <1>1, <2>2, <2>4, <3>1, <3>2, <3>3, <3>4, <3>5 DEF LrKnown
  <2>6. LrOnItsWay'
    <3>1. lrDue' \subseteq lrDue /\ lrDue' \subseteq lrList'
      BY <1>1
    <3> QED BY <1>1, <2>1, <3>1, FlowKept DEF LrSound
  <2> QED BY <2>3, <2>5, <2>6 DEF LrSound
<1> QED BY <1>4, <1>5

(* A thread that goes on after the lock: the list and what is on its way stay. *)
LEMMA GoesOnOK ==
  ASSUME LrInv, NEW t \in LrThreads, LrReadSize(t) \/ LrSendSize(t) \/ LrMap(t)
  PROVE  LrInv'
<1> USE DEF LrInv
<1> DEFINE c == lrCall[t]
           size == IF c.on THEN 1 ELSE 0
           goes == IF c.pc = "size" /\ Cardinality(lrList) = size THEN "send"
                   ELSE IF c.pc = "map" THEN "idle" ELSE LrAfter(c.on)
<1>1. /\ c \in [pc : {"idle", "size", "send", "map"}, l : LrListeners, on : BOOLEAN]
      /\ c.pc \in {"size", "send", "map"} /\ c.l \in LrListeners /\ c.on \in BOOLEAN
      /\ (c.pc = "map" => c.on)
      /\ UNCHANGED <<lrKind, lrService, lrList, lrAgent, lrDue, lrExcused>> /\ UNCHANGED lrFlow
  BY ThreadsOK DEF LrTypeOK, LrReadSize, LrSendSize, LrMap
<1>2. /\ lrServed' = IF c.pc = "send" /\ LrUp THEN c.on ELSE lrServed
      /\ lrCallbacks' = IF c.pc = "map" THEN lrCallbacks \cup {c.l} ELSE lrCallbacks
  BY DEF LrReadSize, LrSendSize, LrMap
<1>3. /\ goes \in {"idle", "size", "send", "map"} /\ goes # "size" /\ (goes = "map" => c.on)
      /\ (LrScript /\ c.pc # "map" /\ c.on => goes # "idle") /\ (~LrScript => goes # "map")
  BY DEF LrAfter
<1>4. /\ lrCall' \in [{"t", "u"} -> [pc : {"idle", "size", "send", "map"}, l : LrListeners, on : BOOLEAN]]
      /\ \A u \in {"t", "u"} : (lrCall'[u].pc = "idle" => ~lrCall'[u].on) /\ (lrCall'[u].pc = "map" => lrCall'[u].on)
      /\ \A u \in {"t", "u"} : u # t => lrCall'[u] = lrCall[u]
      /\ lrCall'[t].pc = goes /\ (lrCall'[t].on <=> c.on /\ goes # "idle") /\ (goes # "idle" => lrCall'[t].l = c.l)
  <2>1. CASE c.pc = "map"
    <3>1. goes = "idle" /\ LrAt(t, "idle", "a", FALSE) /\ "a" \in LrListeners /\ FALSE \in BOOLEAN
      BY <2>1 DEF LrMap, LrReadSize, LrSendSize, LrListeners
    <3> HIDE DEF goes
    <3> QED BY <3>1, AtOK
  <2>2. CASE c.pc # "map"
    <3>1. LrAt(t, goes, c.l, c.on)
      BY <1>1, <2>2 DEF LrMap, LrReadSize, LrSendSize
    <3> HIDE DEF goes, c
    <3> QED BY <1>1, <1>3, <3>1, AtOK
  <2> QED BY <2>1, <2>2
<1>5. LrTypeOK'
  BY <1>1, <1>2, <1>4 DEF LrTypeOK, lrFlow
<1>6. ASSUME ~lrExcused' PROVE LrSound'
  <2>1. LrSound /\ LrUp
    BY <1>1, <1>6 DEF LrSound, LrKnown, LrUp
  <2>2. LrThreads' = LrThreads /\ LrScript' = LrScript /\ LrThreads \subseteq {"t", "u"}
    BY <1>1 DEF LrThreads, LrScript
  <2>3. LrMapped'
    <3> SUFFICES ASSUME LrScript, ~lrKind.on.one PROVE LrMapped'
      BY <1>1 DEF LrMapped, LrScript
    <3>1. t = "t"
      BY ThreadsOK
    <3>2. /\ c.on => c.l \in lrList
          /\ lrCallbacks = IF c.on THEN lrList \ {c.l} ELSE lrList
          /\ lrDue \subseteq lrCallbacks
      BY <2>1, <3>1 DEF LrSound, LrMapped
    <3>3. lrCallbacks' = IF lrCall'[t].on THEN lrList' \ {lrCall'[t].l} ELSE lrList'
      <4>1. CASE c.pc = "map"
        <5>1. goes = "idle" /\ c.on /\ ~lrCall'[t].on
          BY <1>1, <1>4, <4>1
        <5> QED BY <1>1, <1>2, <3>2, <4>1, <5>1
      <4>2. CASE c.pc # "map"
        BY <1>1, <1>2, <1>3, <1>4, <3>2, <4>2
      <4> QED BY <4>1, <4>2
    <3>4. lrCall'[t].on => lrCall'[t].l \in lrList'
      BY <1>1, <1>4, <3>2
    <3>5. lrDue' \subseteq lrCallbacks'
      BY <1>1, <1>2, <3>2
    <3> QED BY <3>1, <3>3, <3>4, <3>5 DEF LrMapped
  <2>4. LrSizes' \/ lrKind.on.agent # "flag"
    <3> SUFFICES ASSUME lrKind.on.agent = "flag" PROVE LrSizes'
      OBVIOUS
    <3>1. LrSizes
      BY <2>1 DEF LrSound, LrKnown
    <3>2. \A u \in LrThreads : u # t => lrCall'[u].pc = "idle"
      BY <1>1, <1>4, <2>2, <3>1 DEF LrSizes, LrIdle
    <3>3. goes = "send" => lrList = IF c.on THEN {c.l} ELSE {}
      <4> SUFFICES ASSUME c.pc = "size", Cardinality(lrList) = size PROVE lrList = IF c.on THEN {c.l} ELSE {}
        BY <1>3 DEF LrAfter
      <4>1. IsFiniteSet(lrList)
        <5>1. IsFiniteSet({}) /\ {"a", "b"} = ({} \cup {"a"}) \cup {"b"}
          BY FS_EmptySet
        <5>2. IsFiniteSet({} \cup {"a"})
          BY <5>1, FS_AddElement
        <5>3. IsFiniteSet(LrListeners)
          BY <5>1, <5>2, FS_AddElement DEF LrListeners
        <5> QED BY <5>3, FS_Subset DEF LrTypeOK
      <4>2. CASE c.on
        BY <3>1, <4>1, <4>2, FS_Singleton DEF LrSizes
      <4>3. CASE ~c.on
        BY <4>1, <4>3, FS_EmptySet
      <4> QED BY <4>2, <4>3
    <3>4. goes # "send" => (lrServed' <=> lrList # {})
      <4>1. CASE c.pc = "size" /\ c.on
        <5>1. goes # "send" => lrList # {c.l}
          BY <4>1, FS_Singleton
        <5> QED BY <1>2, <3>1, <4>1, <5>1 DEF LrSizes
      <4>2. CASE c.pc = "size" /\ ~c.on
        <5>1. goes # "send" => lrList # {}
          BY <4>2, FS_EmptySet
        <5> QED BY <1>2, <3>1, <4>2, <5>1 DEF LrSizes
      <4>3. CASE c.pc = "send"
        BY <1>1, <1>2, <2>1, <3>1, <4>3 DEF LrSizes
      <4>4. CASE c.pc = "map"
        <5>1. \A u \in LrThreads : lrCall[u].pc \notin {"size", "send"}
          BY <3>1, <4>4 DEF LrSizes, LrIdle
        <5> QED BY <1>2, <3>1, <4>4, <5>1 DEF LrSizes
      <4> QED BY <1>1, <4>1, <4>2, <4>3, <4>4
    <3>5. \A u \in LrThreads : lrCall'[u].pc # "size" /\ (lrCall'[u].pc = "send" => u = t /\ goes = "send")
      BY <1>3, <1>4, <3>2
    <3>6. lrCall'[t].pc = "send" => lrList' = IF lrCall'[t].on THEN {lrCall'[t].l} ELSE {}
      BY <1>1, <1>4, <3>3
    <3>7. (\A u \in LrThreads : lrCall'[u].pc \notin {"size", "send"}) => (lrServed' <=> lrList' # {})
      BY <1>1, <1>4, <3>4
    <3> QED BY <2>2, <3>2, <3>5, <3>6, <3>7 DEF LrSizes, LrIdle
  <2>5. LrKnown'
    <3>1. ASSUME lrKind.on.agent # "flag" PROVE lrServed' = lrServed /\ \A u \in LrThreads : lrCall'[u].pc \in {"idle", "map"}
      <4>1. c.pc = "map"
        BY <1>1, <2>1, <3>1 DEF LrSound, LrKnown
      <4>2. goes = "idle"
        BY <4>1
      <4> QED BY <1>2, <1>4, <2>1, <2>2, <3>1, <4>1, <4>2 DEF LrSound, LrKnown
    <3>2. ~LrScript => lrJsTasks' = <<>> /\ \A u \in LrThreads : lrCall'[u].pc # "map"
      BY <1>1, <1>3, <1>4, <2>1, <2>2 DEF LrSound, LrKnown, lrFlow
    <3>3. "own" # "flag" /\ \A a \in {"kept", "must"} : a # "flag"
      OBVIOUS
    <3> QED BY <1>1, <2>1, <2>2, <2>4, <3>1, <3>2, <3>3 DEF LrSound, LrKnown
  <2>6. LrOnItsWay'
    BY <1>1, <2>1, FlowKept DEF LrSound, LrOnItsWay
  <2> QED BY <2>3, <2>5, <2>6 DEF LrSound
<1> QED BY <1>5, <1>6

-----------------------------------------------------------------------------
(* what the messages and the tasks do leaves the users of the list alone *)
LEMMA UsersKept ==
  ASSUME LrKnown, LrMapped, UNCHANGED <<lrKind, lrServed, lrService>>, UNCHANGED lrUsers,
         ~LrScript => lrJsTasks' = <<>>,
         LrScript /\ ~lrKind.on.one => lrDue' \subseteq lrCallbacks
  PROVE  LrKnown' /\ LrMapped'
<1>1. LrThreads' = LrThreads /\ LrScript' = LrScript
  BY DEF LrThreads, LrScript
<1>2. LrMapped'
  BY <1>1 DEF LrMapped, lrUsers
<1>3. LrSizes => LrSizes'
  BY <1>1 DEF LrSizes, LrIdle, lrUsers
<1> QED BY <1>1, <1>2, <1>3 DEF LrKnown, lrUsers

LEMMA DueIsMapped == LrMapped => (LrScript /\ ~lrKind.on.one => lrDue \subseteq lrCallbacks)
BY DEF LrMapped

LEMMA LastOfTail ==
  ASSUME NEW S, NEW s \in Seq(S), s # <<>>
  PROVE  /\ Tail(s) \in Seq(S) /\ Head(s) \in S
         /\ Tail(s) # <<>> => Tail(s)[Len(Tail(s))] = s[Len(s)]
         /\ Tail(s) = <<>> => s[Len(s)] = Head(s)
<1>1. Tail(s) \in Seq(S) /\ Head(s) \in S /\ Len(s) \in Nat /\ Len(s) > 0 /\ Len(Tail(s)) = Len(s) - 1 /\ Head(s) = s[1]
  OBVIOUS
<1>2. ASSUME Tail(s) # <<>> PROVE Tail(s)[Len(Tail(s))] = s[Len(s)]
  <2>1. Len(Tail(s)) > 0
    BY <1>1, <1>2
  <2>2. \A i \in 1..(Len(s) - 1) : Tail(s)[i] = s[i + 1]
    BY <1>1
  <2>3. Len(s) - 1 \in 1..(Len(s) - 1) /\ (Len(s) - 1) + 1 = Len(s)
    BY <1>1, <2>1
  <2> QED BY <1>1, <2>2, <2>3
<1>3. ASSUME Tail(s) = <<>> PROVE s[Len(s)] = Head(s)
  <2>1. Len(s) = 1
    <3>1. \A q \in Seq(S) : q = <<>> => Len(q) = 0
      OBVIOUS
    <3>2. Len(Tail(s)) = 0
      BY ONLY <1>1, <1>3, <3>1
    <3> DEFINE n == Len(s)
    <3>3. n \in Nat /\ n - 1 = 0
      BY <1>1, <3>2
    <3> HIDE DEF n
    <3>4. n = 1
      BY ONLY <3>3
    <3> QED BY <3>4 DEF n
  <2> QED BY <1>1, <2>1
<1> QED BY <1>1, <1>2, <1>3

LEMMA LastOfAppend ==
  ASSUME NEW S, NEW s \in Seq(S), NEW e \in S
  PROVE  /\ Append(s, e) \in Seq(S) /\ Append(s, e) # <<>>
         /\ Append(s, e)[Len(Append(s, e))] = e
OBVIOUS

LEMMA ChangeOK == LrInv /\ LrChange => LrInv'
<1> SUFFICES ASSUME LrInv, LrChange PROVE LrInv'
  OBVIOUS
<1> USE DEF LrInv
<1>1. /\ lrValue' = lrValue + 1 /\ lrValue \in Nat
      /\ lrDue' = {l \in lrList : \A t \in LrThreads : LrIdle(t) \/ lrCall[t].l # l}
      /\ lrWire' = IF lrServed THEN Append(lrWire, lrValue') ELSE lrWire
      /\ UNCHANGED <<lrKind, lrServed, lrService, lrTasks, lrJsTasks, lrHandler, lrStarting, lrTold, lrExcused>>
      /\ UNCHANGED lrUsers
  BY DEF LrChange, LrTypeOK
<1>2. /\ Append(lrWire, lrValue') \in Seq(Nat) /\ Append(lrWire, lrValue') # <<>>
      /\ Append(lrWire, lrValue')[Len(Append(lrWire, lrValue'))] = lrValue'
  <2>1. lrValue' \in Nat /\ lrWire \in Seq(Nat)
    BY <1>1 DEF LrTypeOK
  <2> QED BY <2>1, LastOfAppend
<1>3. LrTypeOK'
  <2>1. /\ lrWire' \in Seq(Nat) /\ lrValue' \in Nat /\ lrDue' \subseteq LrListeners
        /\ "own" \in lrStarting' => lrWire' # <<>>
    BY <1>1, <1>2 DEF LrTypeOK
  <2> QED BY <1>1, <2>1 DEF LrTypeOK, lrUsers
<1>4. ASSUME ~lrExcused' PROVE LrSound'
  <2>1. LrKnown /\ LrMapped /\ LrOnItsWay
    BY <1>1, <1>4 DEF LrSound
  <2>2. LrScript /\ ~lrKind.on.one => lrDue' \subseteq lrCallbacks
    <3> SUFFICES ASSUME LrScript, ~lrKind.on.one, NEW l \in lrDue' PROVE l \in lrCallbacks
      OBVIOUS
    <3>1. l \in lrList /\ (LrIdle("t") \/ lrCall["t"].l # l)
      BY <1>1, ThreadsOK
    <3>2. LrIdle("t") => ~lrCall["t"].on
      BY DEF LrTypeOK, LrIdle
    <3> QED BY <2>1, <3>1, <3>2 DEF LrMapped
  <2>3. LrKnown' /\ LrMapped'
    <3>1. ~LrScript => lrJsTasks' = <<>>
      BY <1>1, <2>1 DEF LrKnown
    <3> QED BY <1>1, <2>1, <2>2, <3>1, UsersKept
  <2>4. lrDue' # {} => lrServed
    <3> SUFFICES ASSUME NEW l \in lrDue' PROVE lrServed
      OBVIOUS
    <3>1. l \in lrList /\ \A t \in LrThreads : LrIdle(t) \/ lrCall[t].l # l
      BY <1>1
    <3>2. KindOK(lrKind)
      BY KindFacts
    <3>3. CASE lrKind.on.agent = "flag"
      <4>1. LrSizes
        BY <2>1, <3>3 DEF LrKnown
      <4>2. CASE \A t \in LrThreads : lrCall[t].pc \notin {"size", "send"}
        BY <3>1, <4>1, <4>2 DEF LrSizes
      <4>3. ASSUME NEW t \in LrThreads, lrCall[t].pc \in {"size", "send"} PROVE lrServed
        <5>1. lrCall[t].l # l /\ lrList # {lrCall[t].l} /\ lrList # {}
          BY <3>1, <4>3 DEF LrIdle
        <5> QED BY <4>1, <4>3, <5>1 DEF LrSizes
      <4> QED BY <4>2, <4>3
    <3>4. CASE lrKind.on.agent # "flag"
      <4>1. lrKind.on.agent = "own" \/ lrKind.on.agent \in {"kept", "must"}
        BY <3>2, <3>4 DEF KindOK
      <4> QED BY <2>1, <3>1, <4>1 DEF LrKnown
    <3> QED BY <3>3, <3>4
  <2>5. LrOnItsWay'
    <3>1. lrDue' \subseteq lrList'
      BY <1>1 DEF lrUsers
    <3>2. lrDue' # {} => lrWire' # <<>> /\ lrWire'[Len(lrWire')] = lrValue'
      BY <1>1, <1>2, <2>4
    <3> QED BY <1>1, <2>1, <3>1, <3>2 DEF LrOnItsWay
  <2> QED BY <2>3, <2>5 DEF LrSound
<1> QED BY <1>3, <1>4

(* The message that is taken becomes the last task, for everybody in the list. *)
LEMMA TakeOK ==
  ASSUME LrTypeOK, LrOnItsWay, NEW tasks \in LrTasksOK, lrWire # <<>>, LrTake(tasks),
         UNCHANGED <<lrKind, lrList, lrJsTasks, lrValue, lrTold, lrDue>>
  PROVE  LrOnItsWay'
<1> DEFINE task == [to |-> lrList, value |-> Head(lrWire)]
<1>1. /\ Tail(lrWire) \in Seq(Nat) /\ Head(lrWire) \in Nat
      /\ Tail(lrWire) # <<>> => Tail(lrWire)[Len(Tail(lrWire))] = lrWire[Len(lrWire)]
      /\ Tail(lrWire) = <<>> => lrWire[Len(lrWire)] = Head(lrWire)
  BY LastOfTail DEF LrTypeOK
<1>2. task \in [to : SUBSET LrListeners, value : Nat] /\ task.to = lrList /\ task.value = Head(lrWire)
  BY <1>1 DEF LrTypeOK
<1> HIDE DEF task
<1>3. Append(tasks, task) \in LrTasksOK /\ Append(tasks, task) # <<>> /\ Append(tasks, task)[Len(Append(tasks, task))] = task
  BY <1>2, LastOfAppend DEF LrTasksOK
<1>4. lrTasks' = Append(tasks, task) /\ lrWire' = Tail(lrWire)
  BY DEF LrTake, LrPost, task
<1>5. lrDue' \subseteq lrList'
  BY DEF LrOnItsWay
<1>6. CASE lrWire' = <<>>
  <2>1. lrDue # {} => Head(lrWire) = lrValue
    BY <1>1, <1>4, <1>6 DEF LrOnItsWay
  <2>2. lrDue' # {} => LrLast(lrTasks)'
    BY <1>2, <1>3, <1>4, <2>1 DEF LrLast, LrOnItsWay
  <2> QED BY <1>3, <1>4, <1>5, <1>6, <2>2 DEF LrOnItsWay
<1>7. CASE lrWire' # <<>>
  <2>1. lrDue' # {} => lrWire'[Len(lrWire')] = lrValue'
    BY <1>1, <1>4, <1>7 DEF LrOnItsWay
  <2> QED BY <1>5, <1>7, <2>1 DEF LrOnItsWay
<1> QED BY <1>6, <1>7

LEMMA TakeTyped ==
  ASSUME LrTypeOK, NEW tasks \in LrTasksOK, lrWire # <<>>, LrTake(tasks)
  PROVE  lrWire' \in Seq(Nat) /\ lrTasks' \in LrTasksOK
<1>1. Tail(lrWire) \in Seq(Nat) /\ [to |-> lrList, value |-> Head(lrWire)] \in [to : SUBSET LrListeners, value : Nat]
  BY LastOfTail DEF LrTypeOK
<1> QED BY <1>1, LastOfAppend DEF LrTake, LrPost, LrTasksOK

LEMMA DeliverOK == LrInv /\ LrDeliver => LrInv'
<1> SUFFICES ASSUME LrInv, LrDeliver PROVE LrInv'
  OBVIOUS
<1>1. /\ LrTypeOK /\ (~lrExcused => LrSound) /\ lrTasks \in LrTasksOK
      /\ lrWire # <<>> /\ (lrKind.tell = "late" => "own" \notin lrStarting) /\ LrTake(lrTasks)
      /\ UNCHANGED <<lrKind, lrServed, lrService, lrJsTasks, lrHandler, lrStarting, lrValue, lrTold, lrDue, lrExcused>>
      /\ UNCHANGED lrUsers
  BY DEF LrInv, LrTypeOK, LrDeliver
<1>2. LrTypeOK'
  <2>1. lrWire' \in Seq(Nat) /\ lrTasks' \in LrTasksOK
    BY <1>1, TakeTyped
  <2>2. "own" \notin lrStarting
    BY <1>1 DEF LrTypeOK
  <2> QED BY <1>1, <2>1, <2>2 DEF LrTypeOK, lrUsers
<1>3. ASSUME ~lrExcused' PROVE LrSound'
  <2>1. LrKnown /\ LrMapped /\ LrOnItsWay
    BY <1>1, <1>3 DEF LrSound
  <2>2. LrKnown' /\ LrMapped'
    BY <1>1, <2>1, UsersKept, DueIsMapped DEF LrKnown
  <2>3. LrOnItsWay'
    <3>1. lrList' = lrList
      BY <1>1 DEF lrUsers
    <3> QED BY <1>1, <2>1, <3>1, TakeOK
  <2> QED BY <2>2, <2>3 DEF LrSound
<1> QED BY <1>2, <1>3 DEF LrInv

LEMMA StartsOK ==
  ASSUME LrInv, NEW who \in {"own", "other"}, LrFindsNone(who) \/ LrStarts(who)
  PROVE  LrInv'
<1>1. /\ LrTypeOK /\ (~lrExcused => LrSound)
      /\ UNCHANGED <<lrKind, lrServed, lrService, lrJsTasks, lrValue, lrTold, lrDue>> /\ UNCHANGED lrUsers
      /\ lrHandler' \in BOOLEAN /\ lrStarting' \subseteq {"own", "other"}
  BY DEF LrInv, LrTypeOK, LrFindsNone, LrStarts
<1>2. CASE LrFindsNone(who)
  <2>1. LrTypeOK'
    BY <1>1, <1>2 DEF LrTypeOK, LrFindsNone, lrUsers
  <2>2. ASSUME ~lrExcused' PROVE LrSound'
    <3>1. LrKnown /\ LrMapped /\ LrOnItsWay
      BY <1>1, <1>2, <2>2 DEF LrSound, LrFindsNone
    <3>2. LrKnown' /\ LrMapped'
      BY <1>1, <3>1, UsersKept, DueIsMapped DEF LrKnown
    <3>3. LrOnItsWay'
      BY <1>1, <1>2, <3>1 DEF LrOnItsWay, LrLast, LrFindsNone, lrUsers
    <3> QED BY <3>2, <3>3 DEF LrSound
  <2> QED BY <2>1, <2>2 DEF LrInv
<1>3. CASE LrStarts(who)
  <2>1. /\ who \in lrStarting /\ lrStarting' = lrStarting \ {who}
        /\ lrExcused' = (lrExcused \/ lrTasks # <<>>)
        /\ who = "own" => LrTake(<<>>)
        /\ who # "own" => lrTasks' = <<>> /\ UNCHANGED lrWire
    BY <1>3 DEF LrStarts
  <2>2. <<>> \in LrTasksOK
    BY DEF LrTasksOK
  <2>3. ASSUME ~lrExcused' PROVE LrKnown /\ LrMapped /\ LrOnItsWay /\ lrTasks = <<>> /\ LrKnown' /\ LrMapped'
    <3>1. LrKnown /\ LrMapped /\ LrOnItsWay /\ lrTasks = <<>>
      BY <1>1, <2>1, <2>3 DEF LrSound
    <3> QED BY <1>1, <3>1, UsersKept, DueIsMapped DEF LrKnown
  <2>4. CASE who = "own"
    <3>1. lrWire # <<>> /\ LrTake(<<>>)
      BY <1>1, <2>1, <2>4 DEF LrTypeOK
    <3>2. LrTypeOK'
      <4>1. lrWire' \in Seq(Nat) /\ lrTasks' \in LrTasksOK
        BY <1>1, <2>2, <3>1, TakeTyped
      <4>2. "own" \notin lrStarting' /\ (lrStarting' # {} => lrKind'.tell = "late") /\ lrExcused' \in BOOLEAN
        BY <1>1, <2>1, <2>4 DEF LrTypeOK
      <4> QED BY <1>1, <4>1, <4>2 DEF LrTypeOK, lrUsers
    <3>3. ~lrExcused' => LrOnItsWay'
      <4>1. lrList' = lrList
        BY <1>1 DEF lrUsers
      <4> QED BY <1>1, <2>2, <2>3, <3>1, <4>1, TakeOK
    <3> QED BY <2>3, <3>2, <3>3 DEF LrInv, LrSound
  <2>5. CASE who # "own"
    <3>1. LrTypeOK'
      BY <1>1, <2>1, <2>2, <2>5 DEF LrTypeOK, lrUsers
    <3>2. ~lrExcused' => LrOnItsWay'
      BY <1>1, <2>1, <2>3, <2>5 DEF LrOnItsWay, LrLast, lrUsers
    <3> QED BY <2>3, <3>1, <3>2 DEF LrInv, LrSound
  <2> QED BY <2>4, <2>5
<1> QED BY <1>2, <1>3

LEMMA RunTaskOK == LrInv /\ LrRunTask => LrInv'
<1> SUFFICES ASSUME LrInv, LrRunTask PROVE LrInv'
  OBVIOUS
<1> DEFINE task == Head(lrTasks)
           js == IF lrKind.js = "bare" THEN [task EXCEPT !.to = @ \cap lrCallbacks] ELSE task
<1>1. /\ LrTypeOK /\ (~lrExcused => LrSound)
      /\ lrTasks # <<>> /\ lrTasks' = Tail(lrTasks)
      /\ LrScript => lrJsTasks' = Append(lrJsTasks, js) /\ UNCHANGED lrTold
      /\ ~LrScript => LrTell(task.to, task.value) /\ UNCHANGED lrJsTasks
      /\ UNCHANGED <<lrKind, lrServed, lrService, lrWire, lrHandler, lrStarting, lrValue, lrDue, lrExcused>>
      /\ UNCHANGED lrUsers
  BY DEF LrInv, LrRunTask
<1>2. /\ Tail(lrTasks) \in LrTasksOK /\ task \in [to : SUBSET LrListeners, value : Nat]
      /\ Tail(lrTasks) # <<>> => Tail(lrTasks)[Len(Tail(lrTasks))] = lrTasks[Len(lrTasks)]
      /\ Tail(lrTasks) = <<>> => lrTasks[Len(lrTasks)] = task
  <2>1. lrTasks \in Seq([to : SUBSET LrListeners, value : Nat])
    BY <1>1 DEF LrTypeOK, LrTasksOK
  <2> QED BY <1>1, <2>1, LastOfTail DEF LrTasksOK
<1> HIDE DEF task
<1>3. /\ js \in [to : SUBSET LrListeners, value : Nat] /\ js.value = task.value
      /\ js.to = IF lrKind.js = "bare" THEN task.to \cap lrCallbacks ELSE task.to
  BY <1>2
<1> HIDE DEF js
<1>4. /\ Append(lrJsTasks, js) \in LrTasksOK /\ Append(lrJsTasks, js) # <<>>
      /\ Append(lrJsTasks, js)[Len(Append(lrJsTasks, js))] = js
  <2>1. lrJsTasks \in Seq([to : SUBSET LrListeners, value : Nat])
    BY <1>1 DEF LrTypeOK, LrTasksOK
  <2> QED BY <1>3, <2>1, LastOfAppend DEF LrTasksOK
<1>5. LrTypeOK'
  <2>1. lrTold' \in [LrListeners -> Nat] /\ lrJsTasks' \in LrTasksOK
    <3>1. CASE LrScript
      BY <1>1, <1>4, <3>1 DEF LrTypeOK
    <3>2. CASE ~LrScript
      BY <1>1, <1>2, <3>2 DEF LrTypeOK, LrTell
    <3> QED BY <3>1, <3>2
  <2> QED BY <1>1, <1>2, <2>1 DEF LrTypeOK, lrUsers
<1>6. ASSUME ~lrExcused' PROVE LrSound'
  <2>1. LrKnown /\ LrMapped /\ LrOnItsWay
    BY <1>1, <1>6 DEF LrSound
  <2>2. LrKnown' /\ LrMapped'
    <3>1. (~LrScript => lrJsTasks' = <<>>) /\ lrDue' = lrDue
      BY <1>1, <2>1 DEF LrKnown
    <3> QED BY <1>1, <2>1, <3>1, UsersKept, DueIsMapped
  <2>3. LrOnItsWay'
    <3>1. lrDue' \subseteq lrList' /\ lrDue' = lrDue /\ lrValue' = lrValue /\ lrWire' = lrWire
      BY <1>1, <2>1 DEF LrOnItsWay, lrUsers
    <3> SUFFICES ASSUME lrDue # {}, lrWire = <<>>
                 PROVE  \/ lrTasks' # <<>> /\ LrLast(lrTasks)'
                        \/ lrTasks' = <<>> /\ lrJsTasks' # <<>> /\ LrLast(lrJsTasks)'
                        \/ lrTasks' = <<>> /\ lrJsTasks' = <<>> /\ \A l \in lrDue : lrTold'[l] = lrValue
      BY <2>1, <3>1 DEF LrOnItsWay
    <3>2. LrLast(lrTasks)
      BY <1>1, <2>1 DEF LrOnItsWay
    <3>3. CASE Tail(lrTasks) # <<>>
      BY <1>1, <1>2, <3>1, <3>2, <3>3 DEF LrLast
    <3>4. CASE Tail(lrTasks) = <<>>
      <4>1. task.value = lrValue /\ lrDue \subseteq task.to
        BY <1>2, <3>2, <3>4 DEF LrLast
      <4>2. CASE LrScript
        <5>1. KindOK(lrKind)
          BY <1>1, KindFacts
        <5>2. lrKind.js = "bare" => lrDue \subseteq lrCallbacks
          BY <2>1, <4>2, <5>1 DEF KindOK, LrMapped
        <5>3. js.value = lrValue /\ lrDue \subseteq js.to
          BY <1>3, <4>1, <5>2
        <5> QED BY <1>1, <1>4, <3>1, <3>4, <4>2, <5>3 DEF LrLast
      <4>3. CASE ~LrScript
        <5>1. lrJsTasks' = <<>>
          BY <1>1, <2>1, <4>3 DEF LrKnown
        <5>2. \A l \in lrDue : lrTold'[l] = lrValue
          BY <1>1, <4>1, <4>3 DEF LrTell, LrTypeOK
        <5> QED BY <1>1, <3>4, <5>1, <5>2
      <4> QED BY <4>2, <4>3
    <3> QED BY <3>3, <3>4
  <2> QED BY <2>2, <2>3 DEF LrSound
<1> QED BY <1>5, <1>6 DEF LrInv

LEMMA RunScriptOK == LrInv /\ LrRunScript => LrInv'
<1> SUFFICES ASSUME LrInv, LrRunScript PROVE LrInv'
  OBVIOUS
<1> DEFINE task == Head(lrJsTasks)
           heard == {l \in task.to : IF lrKind.js = "weak" THEN LrHeld(l) ELSE l \in lrCallbacks}
<1>1. /\ LrTypeOK /\ (~lrExcused => LrSound)
      /\ lrJsTasks # <<>> /\ lrJsTasks' = Tail(lrJsTasks) /\ LrTell(heard, task.value)
      /\ UNCHANGED <<lrKind, lrServed, lrService, lrWire, lrTasks, lrHandler, lrStarting, lrValue, lrDue, lrExcused>>
      /\ UNCHANGED lrUsers
  BY DEF LrInv, LrRunScript
<1>2. /\ Tail(lrJsTasks) \in LrTasksOK /\ task \in [to : SUBSET LrListeners, value : Nat]
      /\ Tail(lrJsTasks) # <<>> => Tail(lrJsTasks)[Len(Tail(lrJsTasks))] = lrJsTasks[Len(lrJsTasks)]
      /\ Tail(lrJsTasks) = <<>> => lrJsTasks[Len(lrJsTasks)] = task
  <2>1. lrJsTasks \in Seq([to : SUBSET LrListeners, value : Nat])
    BY <1>1 DEF LrTypeOK, LrTasksOK
  <2> QED BY <1>1, <2>1, LastOfTail DEF LrTasksOK
<1> HIDE DEF task
<1>3. LrTypeOK'
  <2>1. lrTold' \in [LrListeners -> Nat]
    <3> HIDE DEF heard
    <3> QED BY <1>1, <1>2 DEF LrTypeOK, LrTell
  <2> QED BY <1>1, <1>2, <2>1 DEF LrTypeOK, lrUsers
<1>4. ASSUME ~lrExcused' PROVE LrSound'
  <2>1. LrKnown /\ LrMapped /\ LrOnItsWay /\ LrScript
    BY <1>1, <1>4 DEF LrSound, LrKnown
  <2>2. LrKnown' /\ LrMapped'
    <3>1. lrDue' = lrDue
      BY <1>1
    <3> QED BY <1>1, <2>1, <3>1, UsersKept, DueIsMapped
  <2>3. LrOnItsWay'
    <3>1. lrDue' \subseteq lrList' /\ lrDue' = lrDue /\ lrValue' = lrValue /\ lrWire' = lrWire /\ lrTasks' = lrTasks
      BY <1>1, <2>1 DEF LrOnItsWay, lrUsers
    <3> SUFFICES ASSUME lrDue # {}, lrWire = <<>>, lrTasks = <<>>
                 PROVE  \/ lrJsTasks' # <<>> /\ LrLast(lrJsTasks)'
                        \/ lrJsTasks' = <<>> /\ \A l \in lrDue : lrTold'[l] = lrValue
      BY <2>1, <3>1 DEF LrOnItsWay, LrLast
    <3>2. LrLast(lrJsTasks)
      BY <1>1, <2>1 DEF LrOnItsWay
    <3>3. CASE Tail(lrJsTasks) # <<>>
      BY <1>1, <1>2, <3>1, <3>2, <3>3 DEF LrLast
    <3>4. CASE Tail(lrJsTasks) = <<>>
      <4>1. task.value = lrValue /\ lrDue \subseteq task.to
        BY <1>2, <3>2, <3>4 DEF LrLast
      <4>2. KindOK(lrKind)
        BY <1>1, KindFacts
      <4>3. lrDue \subseteq heard
        <5>1. lrKind.js \in {"weak", "bare"}
          BY <2>1, <4>2 DEF KindOK, LrKinds, LrScript
        <5>2. \A l \in lrDue : LrHeld(l)
          BY <2>1 DEF LrOnItsWay, LrHeld
        <5>3. lrKind.js = "bare" => lrDue \subseteq lrCallbacks
          BY <2>1, <4>2 DEF KindOK, LrMapped
        <5> QED BY <4>1, <5>1, <5>2, <5>3
      <4> HIDE DEF heard
      <4>4. \A l \in lrDue : lrTold'[l] = lrValue
        BY <1>1, <4>1, <4>3 DEF LrTell, LrTypeOK
      <4> QED BY <1>1, <3>4, <4>4
    <3> QED BY <3>3, <3>4
  <2> QED BY <2>2, <2>3 DEF LrSound
<1> QED BY <1>3, <1>4 DEF LrInv

LEMMA ServiceOK == LrInv /\ (LrServiceDies \/ LrServiceBack) => LrInv'
<1> SUFFICES ASSUME LrInv, LrServiceDies \/ LrServiceBack PROVE LrInv'
  OBVIOUS
<1>1. LrTypeOK'
  BY DEF LrInv, LrTypeOK, LrServiceDies, LrServiceBack, lrUsers, lrFlow
<1>2. lrExcused'
  BY DEF LrInv, LrSound, LrKnown, LrServiceDies, LrServiceBack
<1> QED BY <1>1, <1>2 DEF LrInv

LEMMA LrStutters == LrInv /\ UNCHANGED lrVars => LrInv'
<1> SUFFICES ASSUME LrInv, UNCHANGED lrVars PROVE LrInv'
  OBVIOUS
<1>1. LrThreads' = LrThreads /\ LrScript' = LrScript
  BY DEF LrThreads, LrScript, lrVars
<1>2. LrTypeOK'
  BY DEF LrInv, LrTypeOK, lrVars
<1>3. LrKnown => LrKnown'
  BY <1>1 DEF LrKnown, LrSizes, LrIdle, lrVars
<1>4. (LrMapped => LrMapped') /\ (LrOnItsWay => LrOnItsWay')
  BY <1>1 DEF LrMapped, LrOnItsWay, LrLast, lrVars
<1> QED BY <1>2, <1>3, <1>4 DEF LrInv, LrSound, lrVars

LEMMA LrStepOK == LrInv /\ [LrNext]_lrVars => LrInv'
<1> SUFFICES ASSUME LrInv, [LrNext]_lrVars PROVE LrInv'
  OBVIOUS
<1>1. ASSUME NEW t \in LrThreads, NEW l \in LrListeners, LrRegister(t, l) PROVE LrInv'
  BY <1>1, RegisterOK
<1>2. ASSUME NEW t \in LrThreads, NEW l \in LrListeners, LrUnregister(t, l) PROVE LrInv'
  BY <1>2, UnregisterOK
<1>3. ASSUME NEW t \in LrThreads, LrReadSize(t) \/ LrSendSize(t) \/ LrMap(t) PROVE LrInv'
  BY <1>3, GoesOnOK
<1>4. CASE LrChange
  BY <1>4, ChangeOK
<1>5. CASE LrDeliver
  BY <1>5, DeliverOK
<1>6. CASE LrRunTask
  BY <1>6, RunTaskOK
<1>7. CASE LrRunScript
  BY <1>7, RunScriptOK
<1>8. ASSUME NEW who \in {"own", "other"}, LrFindsNone(who) \/ LrStarts(who) PROVE LrInv'
  BY <1>8, StartsOK
<1>9. CASE LrServiceDies \/ LrServiceBack
  BY <1>9, ServiceOK
<1>10. CASE UNCHANGED lrVars
  BY <1>10, LrStutters
<1> QED BY <1>1, <1>2, <1>3, <1>4, <1>5, <1>6, <1>7, <1>8, <1>9, <1>10 DEF LrNext

LEMMA LrInvHolds == LrSpec => []LrInv
BY LrInitOK, LrStepOK, PTL DEF LrSpec

-----------------------------------------------------------------------------
(* For every kind of list and any number of changes: the service knows that the
   application listens exactly when somebody does, and JavaScript's callbacks are
   the listeners of native code (Register- and Unregister...Listener).          *)
THEOREM ListAgreesWithService == LrSpec => []LrAgreed
<1>1. LrInv => LrAgreed
  <2> SUFFICES ASSUME LrInv, LrAllIdle, ~lrExcused
               PROVE  /\ lrKind.on.agent # "own" => (lrServed <=> lrList # {})
                      /\ LrScript /\ ~lrKind.on.one => lrCallbacks = lrList
    BY DEF LrAgreed
  <2>1. LrTypeOK /\ LrKnown /\ LrMapped /\ KindOK(lrKind)
    BY KindFacts DEF LrInv, LrSound
  <2>2. lrKind.on.agent # "own" => (lrServed <=> lrList # {})
    <3>1. CASE lrKind.on.agent = "flag"
      BY <2>1, <3>1 DEF LrKnown, LrSizes, LrAllIdle, LrIdle
    <3>2. CASE lrKind.on.agent \in {"kept", "must"}
      BY <2>1, <3>2 DEF LrKnown
    <3> QED BY <2>1, <3>1, <3>2 DEF KindOK
  <2>3. LrScript => ~lrCall["t"].on
    BY <2>1, ThreadsOK DEF LrAllIdle, LrIdle, LrTypeOK
  <2> QED BY <2>1, <2>2, <2>3 DEF LrMapped
<1> QED BY <1>1, LrInvHolds, PTL

(* For every kind of list and any number of changes: who was registered at the last
   change and still is has been told of it once nothing is on its way, from the
   service's message over the list's thread to the thread of JavaScript.         *)
THEOREM ListenersToldLast == LrSpec => []LrToldLast
<1>1. LrInv => LrToldLast
  <2> SUFFICES ASSUME LrInv, ~lrExcused, lrWire \o lrTasks \o lrJsTasks = <<>>, NEW l \in lrDue
               PROVE  lrTold[l] = lrValue
    BY DEF LrToldLast
  <2>1. LrTypeOK /\ LrOnItsWay
    BY DEF LrInv, LrSound
  <2>2. lrWire = <<>> /\ lrTasks = <<>> /\ lrJsTasks = <<>>
    <3> DEFINE Things == Nat \cup [to : SUBSET LrListeners, value : Nat]
    <3>1. lrWire \in Seq(Things) /\ lrTasks \in Seq(Things) /\ lrJsTasks \in Seq(Things)
      BY <2>1 DEF LrTypeOK, LrTasksOK
    <3> HIDE DEF Things
    <3>2. Len(lrWire \o lrTasks \o lrJsTasks) = Len(lrWire) + Len(lrTasks) + Len(lrJsTasks)
      BY <3>1
    <3>3. Len(lrWire) = 0 /\ Len(lrTasks) = 0 /\ Len(lrJsTasks) = 0
      BY <3>1, <3>2
    <3> QED BY <3>1, <3>3
  <2> QED BY <2>1, <2>2 DEF LrOnItsWay
<1> QED BY <1>1, LrInvHolds, PTL
=============================================================================
