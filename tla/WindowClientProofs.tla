--------------------------- MODULE WindowClientProofs ---------------------------
(* Proofs about WindowClient, and about JsWindow over it. *)
EXTENDS JsWindow, TLAPS

WcOps      == {"create", "show", "hide", "destroy", "set"}
WcPcs      == {"server", "return", "floats", "done"}
WcStates   == {"INITIAL", "CREATED", "SHOWN", "HIDDEN", "FROZEN", "DESTROYED"}
WcMessages == {m \in [w : WcWindows, what : {"NotifyDestroy", "FROZEN", "SHOWN"}] :
                 m.what = "NotifyDestroy" => WcKindOf[m.w] = "dialog"}

WcCallOK == \/ wcCall = NoWcCall
            \/ /\ wcCall.op # "none" /\ wcCall.pc \in WcPcs /\ wcCall.w \in wcUsed
               /\ wcCall.op \in WcOps \/ wcCall.pc = "done"
               /\ wcCall.pc = "server" => wcCall.ret = "OK"
               /\ wcCall = [op |-> wcCall.op, w |-> wcCall.w, pc |-> wcCall.pc, ret |-> wcCall.ret,
                            from |-> wcCall.from, old |-> wcCall.old]
WcTypeOK == /\ wcState \in [WcWindows -> WcStates] /\ wcMap \subseteq wcUsed /\ wcListed \subseteq wcMap
            /\ wcUsed \subseteq WcWindows /\ wcOvertaken \subseteq WcWindows
            /\ wcMissed \in BOOLEAN
            /\ wcInbox \in Seq(WcMessages)
            /\ wcServer \in [WcWindows -> {"none", "created", "shown"}]
            /\ WcCallOK
            /\ wcOf # "none" => wcUsed = {wcOf} /\ wcSetter \in WcSetters

WcOn(op, pcs) == wcCall.op = op /\ wcCall.pc \in pcs
WcWaitsFor(op) == WcOn(op, {"server", "return"})
Destroying(w) == WcOn("destroy", {"floats"}) /\ wcCall.w = w

(* the maps, also in the middle of a call *)
WcMapped == \A w \in WcWindows : ~Destroying(w) => (w \in wcMap <=> IsWindowValid(w) /\ w \notin wcOvertaken)
WcUnder  == /\ WcMain \notin wcListed
            /\ wcListed # {} => WcMain \in wcMap \/ Destroying(WcMain)
            /\ WcOn("destroy", {"floats"}) =>
                 /\ wcCall.w = WcMain /\ WcMain \notin wcMap
                 /\ \A c \in wcListed : WcKindOf[c] # "sub"
WcWaiting == /\ WcWaitsFor("create") => /\ wcCall.w \notin wcMap /\ wcState[wcCall.w] = "INITIAL"
                                        /\ wcCall.w \notin wcOvertaken
                                        /\ WcKindOf[wcCall.w] = "sub" => WcMain \in wcMap
             /\ WcWaitsFor("show") \/ WcWaitsFor("hide") => wcState[wcCall.w] # "INITIAL"
WcMapInv == WcTypeOK /\ WcMapped /\ WcUnder /\ WcWaiting

(* what the service has of the one window *)
Answered(op) == WcOn(op, {"return"}) /\ wcCall.ret = "OK"
WcTells(i) == wcInbox[i] = [w |-> wcOf, what |-> "NotifyDestroy"]
WcTold     == \E i \in DOMAIN wcInbox : WcTells(i)
WcToldOnce == \A i, j \in DOMAIN wcInbox : WcTells(i) /\ WcTells(j) => i = j
WcHeld == /\ wcServer[wcOf] # "none" => wcOf \in wcMap \/ Answered("create")
          /\ WcTold => wcServer[wcOf] = "none" /\ (wcOf \in wcMap \/ Answered("create"))
          /\ WcToldOnce
          /\ Answered("destroy") => wcServer[wcOf] = "none" /\ ~WcTold
WcAgree == /\ ~wcMissed /\ wcServer[wcOf] = "shown" =>
                IF WcWaitsFor("set") /\ ~Answered("set") THEN wcServerValue = wcCall.old ELSE wcServerValue = wcValue
           /\ Answered("show") \/ Answered("set") => wcServerValue = wcValue
           /\ WcWaitsFor("create") => wcServer[wcOf] # "shown"
WcInv == WcMapInv /\ (wcOf # "none" => WcHeld /\ WcAgree)

WcResting == wcCall.op = "none" \/ wcCall.pc = "done"

LEMMA WcRestFacts ==
    ASSUME WcResting
    PROVE  \A op, w : /\ op # "none" => ~WcWaitsFor(op) /\ ~Answered(op)
                      /\ ~WcOn("destroy", {"floats"}) /\ ~Destroying(w)
BY DEF WcResting, WcWaitsFor, Answered, WcOn, Destroying

LEMMA WcMainIs ==
    /\ WcMain \in WcWindows
    /\ \A w \in WcWindows : WcKindOf[w] = "main" <=> w = WcMain
    /\ \A w \in WcWindows : WcKindOf[w] \in {"main", "sub", "float", "dialog"}
BY WcAssumption DEF WcMain, WcWindows

LEMMA WcSetterFacts == \A s \in WcSetters : "SHOWN" \in s.sends
<1>1. "SHOWN" \in Unhidden /\ "SHOWN" \in Everywhere
  BY DEF Unhidden, Everywhere
<1>2. /\ "SHOWN" \in SetFocusable.sends
      /\ "SHOWN" \in SetTouchable.sends
      /\ "SHOWN" \in SetKeepScreenOn.sends
      /\ "SHOWN" \in SetTurnScreenOn.sends
      /\ "SHOWN" \in SetBrightness.sends
      /\ "SHOWN" \in SetRequestedOrientation.sends
  BY <1>1 DEF Setter, SetFocusable, SetTouchable, SetKeepScreenOn, SetTurnScreenOn, SetBrightness, SetRequestedOrientation
<1>3. /\ "SHOWN" \in SetWindowFlags.sends
      /\ "SHOWN" \in SetSystemBarProperty.sends
      /\ "SHOWN" \in MoveTo.sends
      /\ "SHOWN" \in Resize.sends
      /\ "SHOWN" \in Drag.sends
  BY <1>1 DEF Setter, SetWindowFlags, SetSystemBarProperty, MoveTo, Resize, Drag
<1>4. /\ "SHOWN" \in SetCallingWindow.sends
      /\ "SHOWN" \in SetTransform.sends
      /\ "SHOWN" \in SetPrivacyMode.sends
      /\ "SHOWN" \in SetTouchHotAreas.sends
      /\ "SHOWN" \in SetWindowMode.sends
  BY <1>1 DEF Setter, SetCallingWindow, SetTransform, SetPrivacyMode, SetTouchHotAreas, SetWindowMode
<1> QED BY <1>2, <1>3, <1>4 DEF WcSetters

(* the invariant of a state at rest *)
WcAtRest == /\ WcTypeOK
            /\ \A w \in WcWindows : w \in wcMap <=> IsWindowValid(w) /\ w \notin wcOvertaken
            /\ WcMain \notin wcListed /\ (wcListed # {} => WcMain \in wcMap)
            /\ wcOf # "none" => /\ wcServer[wcOf] # "none" => wcOf \in wcMap
                                /\ WcTold => wcServer[wcOf] = "none" /\ wcOf \in wcMap
                                /\ WcToldOnce
                                /\ ~wcMissed /\ wcServer[wcOf] = "shown" => wcServerValue = wcValue

LEMMA WcRestIs == WcResting => (WcInv <=> WcAtRest)
<1> SUFFICES ASSUME WcResting PROVE WcInv <=> WcAtRest
  OBVIOUS
<1>1. ~WcWaitsFor("create") /\ ~WcWaitsFor("show") /\ ~WcWaitsFor("hide") /\ ~WcWaitsFor("set")
  BY WcRestFacts
<1>2. ~Answered("create") /\ ~Answered("show") /\ ~Answered("set") /\ ~Answered("destroy")
  BY WcRestFacts
<1>3. ~WcOn("destroy", {"floats"}) /\ \A w : ~Destroying(w)
  BY WcRestFacts
<1>4. WcMapInv <=> /\ WcTypeOK /\ \A w \in WcWindows : w \in wcMap <=> IsWindowValid(w) /\ w \notin wcOvertaken
                   /\ WcMain \notin wcListed /\ (wcListed # {} => WcMain \in wcMap)
  BY <1>1, <1>3 DEF WcMapInv, WcMapped, WcUnder, WcWaiting
<1>5. WcHeld <=> /\ wcServer[wcOf] # "none" => wcOf \in wcMap
                 /\ WcTold => wcServer[wcOf] = "none" /\ wcOf \in wcMap
                 /\ WcToldOnce
  BY <1>2 DEF WcHeld
<1>6. WcAgree <=> (~wcMissed /\ wcServer[wcOf] = "shown" => wcServerValue = wcValue)
  BY <1>1, <1>2 DEF WcAgree
<1> QED BY <1>4, <1>5, <1>6 DEF WcInv, WcAtRest

LEMMA WcToldKept == ASSUME UNCHANGED <<wcOf, wcInbox>> PROVE (WcTold' <=> WcTold) /\ (WcToldOnce' <=> WcToldOnce)
BY DEF WcTold, WcTells, WcToldOnce

LEMMA WcToldSent ==
    ASSUME wcInbox \in Seq(WcMessages), NEW m \in WcMessages, wcInbox' = Append(wcInbox, m), UNCHANGED wcOf
    PROVE  /\ m # [w |-> wcOf, what |-> "NotifyDestroy"] =>
                (WcTold' => WcTold) /\ (WcToldOnce => WcToldOnce')
           /\ ~WcTold => WcToldOnce'
<1>1. /\ DOMAIN wcInbox' = DOMAIN wcInbox \cup {Len(wcInbox) + 1}
      /\ \A i \in DOMAIN wcInbox : wcInbox'[i] = wcInbox[i]
      /\ wcInbox'[Len(wcInbox) + 1] = m
  OBVIOUS
<1>2. m # [w |-> wcOf, what |-> "NotifyDestroy"] => (WcTold' => WcTold) /\ (WcToldOnce => WcToldOnce')
  BY <1>1 DEF WcTold, WcToldOnce, WcTells
<1>3. ~WcTold => WcToldOnce'
  BY <1>1 DEF WcTold, WcToldOnce, WcTells
<1> QED BY <1>2, <1>3

LEMMA WcToldTaken ==
    ASSUME wcInbox \in Seq(WcMessages), wcInbox # <<>>, wcInbox' = Tail(wcInbox), UNCHANGED wcOf
    PROVE  (WcTold' => WcTold) /\ (WcToldOnce => WcToldOnce')
<1>1. \A i \in DOMAIN wcInbox' : i \in Nat /\ i + 1 \in DOMAIN wcInbox /\ wcInbox'[i] = wcInbox[i + 1]
  OBVIOUS
<1>2. \A i \in DOMAIN wcInbox' : WcTells(i)' <=> WcTells(i + 1)
  BY <1>1 DEF WcTells
<1> QED BY <1>1, <1>2 DEF WcTold, WcToldOnce

LEMMA WcRestStays == WcResting' /\ WcAtRest' => WcInv'
BY WcRestIs, PTL

LEMMA WcInitOK == WcInit => WcInv
<1> SUFFICES ASSUME WcInit PROVE WcInv
  OBVIOUS
<1>1. WcResting
  BY DEF WcInit, WcResting, NoWcCall
<1>2. WcTypeOK
  <2>1. wcUsed \subseteq WcWindows /\ (wcOf # "none" => wcUsed = {wcOf} /\ wcSetter \in WcSetters)
    BY WcMainIs DEF WcInit
  <2>2. WcCallOK /\ wcInbox \in Seq(WcMessages)
    BY DEF WcInit, WcCallOK
  <2>3. wcState \in [WcWindows -> WcStates]
    BY DEF WcInit, WcStates
  <2>4. wcMap = {} /\ wcListed = {} /\ wcOvertaken = {} /\ wcMissed \in BOOLEAN
    BY DEF WcInit
  <2>5. wcServer \in [WcWindows -> {"none", "created", "shown"}]
    BY DEF WcInit
  <2> QED BY <2>1, <2>2, <2>3, <2>4, <2>5 DEF WcTypeOK
<1>3. WcAtRest
  <2>1. ~WcTold /\ WcToldOnce
    BY DEF WcInit, WcTold, WcToldOnce
  <2> QED BY <1>2, <2>1 DEF WcInit, WcAtRest, IsWindowValid
<1> QED BY <1>1, <1>3, WcRestIs

LEMMA WcStutters == ASSUME WcInv, UNCHANGED wcVars PROVE WcInv'
BY DEF wcVars, WcInv, WcMapInv, WcTypeOK, WcMapped, WcUnder, WcWaiting, WcHeld, WcAgree, WcCallOK, WcTold, WcTells, WcToldOnce,
       WcOn, WcWaitsFor, Destroying, Answered, IsWindowValid

(* the steps of the main thread that begin a call *)
LEMMA WcCreateOK == ASSUME WcInv, WcResting, NEW w \in wcUsed, NEW from, Create(w, from) PROVE WcInv'
<1> USE DEF Create, wcChosen, wcService, wcClient, Ends, Goes
<1>1. WcAtRest
  BY WcRestIs
<1>2. w \in WcWindows
  BY <1>1 DEF WcAtRest, WcTypeOK
<1>3. CASE w \in wcMap \/ (WcKindOf[w] = "sub" /\ WcMain \notin wcMap)
  <2>1. WcResting'
    BY <1>3 DEF WcResting
  <2>2. WcCallOK'
    BY <1>1, <1>3 DEF WcCallOK, WcOps, WcPcs
  <2>3. WcAtRest'
    BY <1>1, <1>3, <2>2 DEF WcAtRest, WcTypeOK, WcTold, WcTells, WcToldOnce, IsWindowValid
  <2> QED BY <2>1, <2>3, WcRestStays
<1>4. CASE ~(w \in wcMap \/ (WcKindOf[w] = "sub" /\ WcMain \notin wcMap))
  <2>1. WcCallOK'
    BY <1>1, <1>4 DEF WcCallOK, WcOps, WcPcs
  <2>2. wcState' = [wcState EXCEPT ![w] = "INITIAL"]
    BY <1>4 DEF Sets
  <2>3. WcTypeOK'
    BY <1>1, <1>2, <1>4, <2>1, <2>2 DEF WcAtRest, WcTypeOK, WcStates
  <2>4. WcMapped' /\ WcUnder' /\ WcWaiting'
    BY <1>1, <1>2, <1>4, <2>2 DEF WcAtRest, WcTypeOK, WcMapped, WcUnder, WcWaiting, Destroying, WcOn, WcWaitsFor, IsWindowValid
  <2>5. ASSUME wcOf # "none" PROVE WcHeld' /\ WcAgree'
    <3>1. w = wcOf
      BY <1>1, <2>5 DEF WcAtRest, WcTypeOK
    <3> QED BY <1>1, <1>4, <2>5, <3>1 DEF WcAtRest, WcTypeOK, WcHeld, WcAgree, WcTold, WcTells, WcToldOnce, Answered, WcOn, WcWaitsFor
  <2>6. wcOf' = wcOf
    OBVIOUS
  <2> QED BY <2>3, <2>4, <2>5, <2>6 DEF WcInv, WcMapInv
<1> QED BY <1>3, <1>4

(* a call that is answered at once *)
LEMMA WcEndsOK ==
    ASSUME WcInv, WcResting, NEW op, op # "none", NEW w \in wcUsed, NEW ret, NEW from, Ends(op, w, ret, from),
           UNCHANGED <<wcClient, wcService>>
    PROVE  WcInv'
<1>1. WcAtRest
  BY WcRestIs
<1>2. WcResting'
  BY DEF Ends, Goes, WcResting
<1>3. WcCallOK'
  BY <1>1 DEF Ends, Goes, WcCallOK, WcPcs, WcAtRest, wcClient, wcChosen
<1>4. WcAtRest'
  BY <1>1, <1>3 DEF WcAtRest, WcTypeOK, WcTold, WcTells, WcToldOnce, IsWindowValid, wcClient, wcService, wcChosen
<1> QED BY <1>2, <1>4, WcRestStays

(* a call that goes to the service with nothing changed yet *)
LEMMA WcAsksOK ==
    ASSUME WcInv, WcResting, NEW op \in {"show", "hide", "destroy"}, NEW w \in wcUsed, NEW from,
           Goes(op, w, "server", "OK", from), wcState[w] # "INITIAL",
           UNCHANGED <<wcClient, wcService>>
    PROVE  WcInv'
<1>1. WcAtRest
  BY WcRestIs
<1>2. WcCallOK'
  BY <1>1 DEF Goes, WcCallOK, WcPcs, WcOps, WcAtRest, wcClient, wcChosen
<1>3. WcTypeOK'
  BY <1>1, <1>2 DEF WcAtRest, WcTypeOK, wcClient, wcService, wcChosen
<1>4. WcMapped' /\ WcUnder' /\ WcWaiting'
  BY <1>1 DEF WcAtRest, Goes, WcMapped, WcUnder, WcWaiting, Destroying, WcOn, WcWaitsFor, IsWindowValid, wcClient
<1>5. wcOf # "none" => WcHeld' /\ WcAgree'
  BY <1>1 DEF WcAtRest, Goes, WcHeld, WcAgree, WcTold, WcTells, WcToldOnce, Answered, WcOn, WcWaitsFor, wcClient, wcService, wcChosen
<1>6. wcOf' = wcOf
  BY DEF wcClient, wcChosen
<1> QED BY <1>3, <1>4, <1>5, <1>6 DEF WcInv, WcMapInv

(* a call that ends at once with another valid state *)
LEMMA WcTurnsOK ==
    ASSUME WcInv, WcResting, NEW op, op # "none", NEW w \in wcUsed, NEW ret, NEW from, NEW state,
           IsWindowValid(w), state \in {"SHOWN", "HIDDEN", "FROZEN"},
           Ends(op, w, ret, from), Sets(w, state), Quiet
    PROVE  WcInv'
<1>1. WcAtRest
  BY WcRestIs
<1>2. WcResting'
  BY DEF Ends, Goes, WcResting
<1>3. WcCallOK'
  BY <1>1 DEF Ends, Goes, WcCallOK, WcPcs, WcAtRest, Quiet, wcChosen
<1>4. wcState' \in [WcWindows -> WcStates]
  BY <1>1 DEF WcAtRest, WcTypeOK, Sets, WcStates
<1>5. \A v \in WcWindows : IsWindowValid(v)' <=> IsWindowValid(v)
  BY <1>1 DEF WcAtRest, WcTypeOK, Sets, IsWindowValid
<1>6. WcAtRest'
  BY <1>1, <1>3, <1>4, <1>5 DEF WcAtRest, WcTypeOK, WcTold, WcTells, WcToldOnce, Quiet, wcService, wcChosen
<1> QED BY <1>2, <1>6, WcRestStays

LEMMA WcShowOK ==
    ASSUME WcInv, WcResting, NEW w \in wcUsed, NEW reason, NEW from, Show(w, reason, from) PROVE WcInv'
<1>1. CASE UNCHANGED wcState
  <2>1. UNCHANGED <<wcClient, wcService>>
    BY <1>1 DEF Show, Quiet, wcClient
  <2>2. CASE Goes("show", w, "server", "OK", from) /\ wcState[w] \in {"CREATED", "HIDDEN"}
    BY <2>1, <2>2, WcAsksOK
  <2>3. CASE \E ret : Ends("show", w, ret, from)
    BY <2>1, <2>3, WcEndsOK
  <2>4. Show(w, reason, from) => \/ Goes("show", w, "server", "OK", from) /\ wcState[w] \in {"CREATED", "HIDDEN"}
                                 \/ \E ret : Ends("show", w, ret, from)
    BY DEF Show
  <2> QED BY <2>2, <2>3, <2>4
<1>2. CASE ~UNCHANGED wcState
  <2>1. IsWindowValid(w) /\ Sets(w, "SHOWN") /\ Ends("show", w, "OK", from) /\ Quiet
    BY <1>2 DEF Show
  <2> QED BY <2>1, WcTurnsOK
<1> QED BY <1>1, <1>2

LEMMA WcHideOK ==
    ASSUME WcInv, WcResting, NEW w \in wcUsed, NEW reason, NEW from, Hide(w, reason, from) PROVE WcInv'
<1>1. CASE UNCHANGED wcState
  <2>1. UNCHANGED <<wcClient, wcService>>
    BY <1>1 DEF Hide, Quiet, wcClient
  <2>2. CASE Goes("hide", w, "server", "OK", from) /\ wcState[w] \in {"SHOWN", "FROZEN"}
    BY <2>1, <2>2, WcAsksOK
  <2>3. CASE \E ret : Ends("hide", w, ret, from)
    BY <2>1, <2>3, WcEndsOK
  <2>4. Hide(w, reason, from) => \/ Goes("hide", w, "server", "OK", from) /\ wcState[w] \in {"SHOWN", "FROZEN"}
                                 \/ \E ret : Ends("hide", w, ret, from)
    BY DEF Hide
  <2> QED BY <2>2, <2>3, <2>4
<1>2. CASE ~UNCHANGED wcState
  <2>1. /\ IsWindowValid(w) /\ Ends("hide", w, "OK", from) /\ Quiet
        /\ Sets(w, IF reason = "KEYGUARD" THEN "FROZEN" ELSE "HIDDEN")
    BY <1>2 DEF Hide
  <2> QED BY <2>1, WcTurnsOK
<1> QED BY <1>1, <1>2

LEMMA WcDestroyOK ==
    ASSUME WcInv, WcResting, NEW w \in wcUsed, NEW from, Destroy(w, from) PROVE WcInv'
<1>1. CASE IsWindowValid(w)
  <2>1. wcState[w] # "INITIAL"
    BY <1>1 DEF IsWindowValid
  <2> QED BY <1>1, <2>1, WcAsksOK DEF Destroy
<1>2. CASE ~IsWindowValid(w)
  BY <1>2, WcEndsOK DEF Destroy
<1> QED BY <1>1, <1>2

LEMMA WcSetOK ==
    ASSUME WcInv, WcResting, wcOf # "none", NEW value, NEW from, Set(wcOf, value, from) PROVE WcInv'
<1>1. WcAtRest /\ wcOf \in wcUsed
  BY WcRestIs DEF WcAtRest, WcTypeOK
<1>2. "SHOWN" \in wcSetter.sends
  BY <1>1, WcSetterFacts DEF WcAtRest, WcTypeOK
<1>3. /\ UNCHANGED <<wcState, wcMap, wcListed, wcUsed, wcSetter, wcOf, wcOvertaken>>
      /\ UNCHANGED <<wcServer, wcServerValue, wcUp, wcInbox, wcDied>>
  BY DEF Set, wcChosen, wcService
<1>4. CASE \E ret : Ends("set", wcOf, ret, from)
  <2>1. WcResting' /\ WcCallOK'
    BY <1>1, <1>3, <1>4 DEF Ends, Goes, WcResting, WcCallOK, WcPcs
  <2>2. /\ wcMissed' \in BOOLEAN
        /\ \/ UNCHANGED <<wcValue, wcMissed>>
           \/ /\ wcState[wcOf] \notin wcSetter.sends
              /\ wcMissed' = (wcMissed \/ (wcServer[wcOf] = "shown" /\ wcState[wcOf] # "SHOWN"))
    <3>1. \/ UNCHANGED <<wcValue, wcMissed>>
          \/ /\ wcState[wcOf] \notin wcSetter.sends
             /\ wcMissed' = (wcMissed \/ (wcServer[wcOf] = "shown" /\ wcState[wcOf] # "SHOWN"))
      BY <1>4 DEF Set, Ends, Goes
    <3> QED BY <1>1, <3>1 DEF WcAtRest, WcTypeOK
  <2>3. WcTypeOK'
    BY <1>1, <1>3, <2>1, <2>2 DEF WcAtRest, WcTypeOK
  <2>4. ~wcMissed' /\ wcServer[wcOf] = "shown" => wcServerValue = wcValue'
    BY <1>1, <1>2, <2>2 DEF WcAtRest
  <2>5. WcAtRest'
    BY <1>1, <1>3, <2>3, <2>4 DEF WcAtRest, WcTold, WcTells, WcToldOnce, IsWindowValid
  <2> QED BY <2>1, <2>5, WcRestStays
<1>5. CASE Goes("set", wcOf, "server", "OK", from) /\ UNCHANGED wcMissed
  <2>1. WcCallOK'
    BY <1>1, <1>3, <1>5 DEF Goes, WcCallOK, WcPcs, WcOps
  <2>2. WcTypeOK'
    BY <1>1, <1>3, <1>5, <2>1 DEF WcAtRest, WcTypeOK
  <2>3. WcMapped' /\ WcUnder' /\ WcWaiting'
    BY <1>1, <1>3, <1>5 DEF WcAtRest, Goes, WcMapped, WcUnder, WcWaiting, Destroying, WcOn, WcWaitsFor, IsWindowValid
  <2>4. WcHeld' /\ WcAgree'
    BY <1>1, <1>3, <1>5 DEF WcAtRest, Goes, WcHeld, WcAgree, WcTold, WcTells, WcToldOnce, Answered, WcOn, WcWaitsFor
  <2> QED BY <2>2, <2>3, <2>4 DEF WcInv, WcMapInv
<1>6. (\E ret : Ends("set", wcOf, ret, from)) \/ (Goes("set", wcOf, "server", "OK", from) /\ UNCHANGED wcMissed)
  BY DEF Set
<1> QED BY <1>4, <1>5, <1>6

(* a call that has begun *)
LEMMA WcCallFacts ==
    ASSUME WcInv, wcCall.op # "none", wcCall.pc # "done"
    PROVE  /\ wcCall.op \in WcOps /\ wcCall.pc \in WcPcs /\ wcCall.w \in wcUsed /\ wcCall.w \in WcWindows
           /\ wcOf # "none" => wcCall.w = wcOf /\ wcOf \in WcWindows
           /\ wcCall.pc = "server" => wcCall.ret = "OK"
           /\ wcCall = [op |-> wcCall.op, w |-> wcCall.w, pc |-> wcCall.pc, ret |-> wcCall.ret,
                        from |-> wcCall.from, old |-> wcCall.old]
BY DEF WcInv, WcMapInv, WcTypeOK, WcCallOK, NoWcCall

(* the answer of the service: what it does not change *)
LEMMA WcAnswers ==
    ASSUME WcInv, WcWaits, NEW ret, wcCall' = [wcCall EXCEPT !.pc = "return", !.ret = ret], UNCHANGED wcClient,
           UNCHANGED wcInbox, wcServer' \in [WcWindows -> {"none", "created", "shown"}]
    PROVE  WcMapInv' /\ wcCall' = [op |-> wcCall.op, w |-> wcCall.w, pc |-> "return", ret |-> ret,
                                   from |-> wcCall.from, old |-> wcCall.old]
<1>1. wcCall.op # "none" /\ wcCall.pc = "server"
  BY DEF WcWaits
<1>2. wcCall' = [op |-> wcCall.op, w |-> wcCall.w, pc |-> "return", ret |-> ret, from |-> wcCall.from, old |-> wcCall.old]
  BY <1>1, WcCallFacts
<1>3. WcCallOK'
  <2>1. wcCall'.op \in WcOps /\ wcCall'.w \in wcUsed' /\ wcCall'.pc = "return"
    BY <1>1, <1>2, WcCallFacts DEF wcClient, wcChosen
  <2> QED BY <1>2, <2>1 DEF WcCallOK, WcPcs, WcOps
<1>4. WcTypeOK'
  BY <1>3 DEF WcInv, WcMapInv, WcTypeOK, wcClient, wcChosen
<1>5. WcMapped' /\ WcUnder' /\ WcWaiting'
  BY <1>1, <1>2 DEF WcInv, WcMapInv, WcMapped, WcUnder, WcWaiting, WcOn, WcWaitsFor, Destroying, IsWindowValid,
                    wcClient
<1> QED BY <1>2, <1>4, <1>5 DEF WcMapInv

LEMMA WcServeOK == ASSUME WcInv, WcServe PROVE WcInv'
<1> DEFINE w == wcCall.w
<1>1. /\ WcWaits /\ wcUp /\ wcCall.op # "none" /\ wcCall.pc = "server" /\ UNCHANGED <<wcClient, wcInbox>>
      /\ wcCall' = [wcCall EXCEPT !.pc = "return"]
  BY DEF WcServe, WcWaits, Accepts
<1>2. wcCall.op \in WcOps /\ w \in WcWindows /\ (wcOf # "none" => w = wcOf) /\ wcCall.ret = "OK"
  BY <1>1, WcCallFacts
<1>3. wcCall' = [op |-> wcCall.op, w |-> wcCall.w, pc |-> "return", ret |-> wcCall.ret,
                 from |-> wcCall.from, old |-> wcCall.old]
  BY <1>1, WcCallFacts
<1>4. wcCall' = [wcCall EXCEPT !.pc = "return", !.ret = wcCall.ret]
  BY <1>1, <1>3, WcCallFacts
<1>5. wcServer' \in [WcWindows -> {"none", "created", "shown"}]
  <2>1. wcServer \in [WcWindows -> {"none", "created", "shown"}]
    BY DEF WcInv, WcMapInv, WcTypeOK
  <2> QED BY <1>2, <2>1 DEF WcServe, WcOps
<1>6. WcMapInv'
  BY <1>1, <1>4, <1>5, WcAnswers
<1>7. ASSUME wcOf # "none" PROVE WcHeld' /\ WcAgree'
  <2>1. WcHeld /\ WcAgree /\ wcServer \in [WcWindows -> {"none", "created", "shown"}] /\ UNCHANGED <<wcOf, wcMap, wcMissed, wcValue>>
    BY <1>1, <1>7 DEF WcInv, WcMapInv, WcTypeOK, wcClient, wcChosen
  <2>2. (WcTold' <=> WcTold) /\ WcToldOnce'
    BY <1>1, <2>1, WcToldKept DEF WcHeld
  <2>3. wcServer[wcOf] # "none" => wcOf \in wcMap
    BY <1>1, <2>1 DEF WcHeld, Answered, WcOn
  <2>4. CASE wcCall.op = "create"
    <3>1. ~WcTold
      BY <1>1, <1>2, <1>7, <2>1, <2>4 DEF WcHeld, WcInv, WcMapInv, WcWaiting, WcWaitsFor, WcOn, Answered
    <3>2. wcServer'[wcOf] = "created"
      BY <1>2, <1>7, <2>1, <2>4 DEF WcServe
    <3> QED BY <1>1, <1>2, <1>3, <1>7, <2>1, <2>2, <2>4, <3>1, <3>2 DEF WcHeld, WcAgree, Answered, WcOn, WcWaitsFor
  <2>5. CASE wcCall.op = "show"
    <3>1. wcServer[wcOf] # "none" /\ wcServer'[wcOf] = "shown" /\ wcServerValue' = wcValue
      BY <1>2, <1>7, <2>1, <2>5 DEF WcServe, Accepts, Copied
    <3> QED BY <1>1, <1>3, <1>7, <2>1, <2>2, <2>3, <2>5, <3>1 DEF WcHeld, WcAgree, Answered, WcOn, WcWaitsFor
  <2>6. CASE wcCall.op = "set"
    <3>1. wcServer' = wcServer /\ wcServerValue' = wcValue
      BY <1>2, <1>7, <2>1, <2>6 DEF WcServe, Copied
    <3> QED BY <1>1, <1>2, <1>3, <1>7, <2>1, <2>2, <2>3, <2>6, <3>1 DEF WcHeld, WcAgree, Answered, WcOn, WcWaitsFor
  <2>7. CASE wcCall.op = "hide"
    <3>1. wcServer[wcOf] = "shown" /\ wcServer'[wcOf] = "created" /\ wcServerValue' = wcServerValue
      BY <1>2, <1>7, <2>1, <2>7 DEF WcServe, Accepts
    <3> QED BY <1>1, <1>3, <1>7, <2>1, <2>2, <2>3, <2>7, <3>1 DEF WcHeld, WcAgree, Answered, WcOn, WcWaitsFor
  <2>8. CASE wcCall.op = "destroy"
    <3>1. wcServer[wcOf] # "none" /\ wcServer'[wcOf] = "none" /\ wcServerValue' = wcServerValue
      BY <1>2, <1>7, <2>1, <2>8 DEF WcServe, Accepts
    <3> QED BY <1>1, <1>3, <1>7, <2>1, <2>2, <2>3, <2>8, <3>1 DEF WcHeld, WcAgree, Answered, WcOn, WcWaitsFor
  <2> QED BY <1>2, <2>4, <2>5, <2>6, <2>7, <2>8 DEF WcOps
<1>8. wcOf' = wcOf
  BY <1>1 DEF wcClient, wcChosen
<1> QED BY <1>6, <1>7, <1>8 DEF WcInv

LEMMA WcRefuseOK == ASSUME WcInv, WcRefuse PROVE WcInv'
<1>1. /\ WcWaits /\ wcCall.op # "none" /\ wcCall.pc = "server" /\ UNCHANGED <<wcClient, wcService, wcInbox>>
      /\ wcCall' = [wcCall EXCEPT !.pc = "return", !.ret = "ERROR"]
  BY DEF WcRefuse, WcWaits, wcService
<1>2. wcServer' \in [WcWindows -> {"none", "created", "shown"}]
  BY <1>1 DEF WcInv, WcMapInv, WcTypeOK, wcService
<1>3. WcMapInv' /\ wcCall' = [op |-> wcCall.op, w |-> wcCall.w, pc |-> "return", ret |-> "ERROR",
                              from |-> wcCall.from, old |-> wcCall.old]
  BY <1>1, <1>2, WcAnswers
<1>4. wcOf # "none" => WcHeld' /\ WcAgree'
  BY <1>1, <1>3 DEF WcInv, WcHeld, WcAgree, WcTold, WcTells, WcToldOnce, Answered, WcOn, WcWaitsFor, wcClient, wcService, wcChosen
<1>5. wcOf' = wcOf
  BY <1>1 DEF wcClient, wcChosen
<1> QED BY <1>3, <1>4, <1>5 DEF WcInv

(* the main thread takes an answer and has finished *)
LEMMA WcFinishes ==
    ASSUME WcInv, wcCall.op # "none", wcCall.pc # "done", UNCHANGED wcUsed, NEW ret,
           wcCall' = [wcCall EXCEPT !.pc = "done", !.ret = ret]
    PROVE  WcResting' /\ WcCallOK'
<1>1. wcCall' = [op |-> wcCall.op, w |-> wcCall.w, pc |-> "done", ret |-> ret, from |-> wcCall.from, old |-> wcCall.old]
  BY WcCallFacts
<1>2. wcCall'.op # "none" /\ wcCall'.w \in wcUsed'
  BY <1>1, WcCallFacts
<1> QED BY <1>1, <1>2 DEF WcResting, WcCallOK, WcPcs

LEMMA WcFinishedIs ==
    ASSUME WcInv, wcCall.op # "none", wcCall.pc # "done", UNCHANGED wcUsed, Finished
    PROVE  WcResting' /\ WcCallOK'
<1>1. wcCall' = [wcCall EXCEPT !.pc = "done", !.ret = wcCall.ret]
  <2>1. wcCall = [op |-> wcCall.op, w |-> wcCall.w, pc |-> wcCall.pc, ret |-> wcCall.ret,
                  from |-> wcCall.from, old |-> wcCall.old]
    BY WcCallFacts
  <2> QED BY <2>1 DEF Finished
<1> QED BY <1>1, WcFinishes

(* an answer after which nothing of the client changes *)
LEMMA WcLeavesOK ==
    ASSUME WcInv, NEW op, WcReturns(op), op \in WcOps, Finished, UNCHANGED <<wcClient, wcService>>,
           op = "set" => FALSE, op = "destroy" \/ op = "create" => wcCall.ret # "OK"
    PROVE  WcInv'
<1>1. wcCall.op = op /\ wcCall.pc = "return" /\ op # "none" /\ wcUsed' = wcUsed
  BY DEF WcReturns, WcOps, wcClient, wcChosen
<1>2. WcResting' /\ WcCallOK'
  BY <1>1, WcFinishedIs
<1>3. WcTypeOK'
  BY <1>2 DEF WcInv, WcMapInv, WcTypeOK, wcClient, wcService, wcChosen
<1>4. WcAtRest'
  BY <1>1, <1>3, WcToldKept DEF WcInv, WcMapInv, WcMapped, WcUnder, WcHeld, WcAgree, WcAtRest, IsWindowValid, Destroying, WcOn,
                    WcWaitsFor, Answered, wcClient, wcService, wcChosen
<1> QED BY <1>2, <1>4, WcRestStays

LEMMA WcReturnCreateOK == ASSUME WcInv, ReturnCreate PROVE WcInv'
<1> DEFINE w == wcCall.w
<1>1. WcReturns("create") /\ wcCall.op = "create" /\ wcCall.pc = "return" /\ Finished /\ UNCHANGED wcService
  BY DEF ReturnCreate, WcReturns
<1>2. CASE wcCall.ret # "OK"
  BY <1>1, <1>2, WcLeavesOK DEF ReturnCreate, WcOps
<1>3. CASE wcCall.ret = "OK"
  <2>1. /\ wcMap' = wcMap \cup {w} /\ wcState' = [wcState EXCEPT ![w] = "CREATED"]
        /\ \/ wcListed' = wcListed
           \/ wcListed' = wcListed \cup {w} /\ (WcKindOf[w] = "sub" \/ (WcKindOf[w] \in {"float", "dialog"} /\ WcMain \in wcMap))
        /\ UNCHANGED <<wcValue, wcUsed, wcSetter, wcOf, wcMissed, wcOvertaken>>
        /\ UNCHANGED <<wcServer, wcServerValue, wcInbox>>
    BY <1>1, <1>3 DEF ReturnCreate, Sets, wcChosen, wcService
  <2>2. w \in wcUsed /\ w \in WcWindows /\ (wcOf # "none" => w = wcOf)
    BY <1>1, WcCallFacts
  <2>3. WcResting' /\ WcCallOK'
    BY <1>1, <2>1, WcFinishedIs
  <2>4. WcTypeOK'
    BY <2>1, <2>2, <2>3 DEF WcInv, WcMapInv, WcTypeOK, WcStates
  <2>5. \A v \in WcWindows : v \in wcMap' <=> IsWindowValid(v)' /\ v \notin wcOvertaken'
    BY <1>1, <2>1, <2>2 DEF WcInv, WcMapInv, WcTypeOK, WcMapped, WcWaiting, WcWaitsFor, Destroying, WcOn, IsWindowValid
  <2>6. WcMain \notin wcListed' /\ (wcListed' # {} => WcMain \in wcMap')
    BY <1>1, <2>1, <2>2, WcMainIs DEF WcInv, WcMapInv, WcUnder, WcWaiting, WcWaitsFor, WcOn, Destroying
  <2>7. wcOf # "none" => /\ wcServer'[wcOf] # "none" => wcOf \in wcMap'
                         /\ WcTold' => wcServer'[wcOf] = "none" /\ wcOf \in wcMap'
                         /\ WcToldOnce'
                         /\ ~wcMissed' /\ wcServer'[wcOf] = "shown" => wcServerValue' = wcValue'
    BY <1>1, <2>1, <2>2, WcToldKept DEF WcInv, WcHeld, WcAgree, WcWaitsFor, WcOn
  <2>8. WcAtRest'
    BY <2>1, <2>4, <2>5, <2>6, <2>7 DEF WcAtRest
  <2> QED BY <2>3, <2>8, WcRestStays
<1> QED BY <1>2, <1>3

(* an answer that is written over the state *)
LEMMA WcOvertakesOK ==
    ASSUME WcInv, NEW op \in {"show", "hide"}, NEW state \in {"SHOWN", "HIDDEN"}, WcReturns(op), Finished,
           Sets(wcCall.w, state), Overtaken(wcCall.w), UNCHANGED <<wcMap, wcListed, wcValue, wcChosen, wcService>>,
           \/ wcMissed' = wcMissed
           \/ wcMissed' = (wcMissed /\ wcCall.w # wcOf) /\ Answered("show")
    PROVE  WcInv'
<1> DEFINE w == wcCall.w
<1>1. wcCall.op = op /\ wcCall.pc = "return" /\ op \in {"show", "hide"} /\ op # "none"
  BY DEF WcReturns
<1>2. w \in wcUsed /\ w \in WcWindows /\ (wcOf # "none" => w = wcOf)
  BY <1>1, WcCallFacts
<1>3. WcResting' /\ WcCallOK'
  BY <1>1, WcFinishedIs DEF wcChosen
<1>4. wcState' = [wcState EXCEPT ![w] = state]
  BY DEF Sets
<1>5. wcOvertaken' = IF wcState[w] = "DESTROYED" THEN wcOvertaken \cup {w} ELSE wcOvertaken
  BY DEF Overtaken
<1>6. wcMissed' \in BOOLEAN
  BY DEF WcInv, WcMapInv, WcTypeOK
<1>7. WcTypeOK'
  BY <1>2, <1>3, <1>4, <1>5, <1>6 DEF WcInv, WcMapInv, WcTypeOK, WcStates, wcChosen, wcService
<1>8. \A v \in WcWindows : v \in wcMap' <=> IsWindowValid(v)' /\ v \notin wcOvertaken'
  <2>1. wcState \in [WcWindows -> WcStates] /\ wcState[w] # "INITIAL"
    BY <1>1 DEF WcInv, WcMapInv, WcTypeOK, WcWaiting, WcWaitsFor, WcOn
  <2>2. \A v \in WcWindows : v \in wcMap <=> IsWindowValid(v) /\ v \notin wcOvertaken
    BY <1>1 DEF WcInv, WcMapInv, WcMapped, Destroying, WcOn
  <2> QED BY <1>2, <1>4, <1>5, <2>1, <2>2 DEF IsWindowValid, WcStates
<1>9. WcMain \notin wcListed' /\ (wcListed' # {} => WcMain \in wcMap')
  BY <1>1 DEF WcInv, WcMapInv, WcUnder, Destroying, WcOn
<1>10. wcOf # "none" => /\ wcServer'[wcOf] # "none" => wcOf \in wcMap'
                        /\ WcTold' => wcServer'[wcOf] = "none" /\ wcOf \in wcMap'
                        /\ WcToldOnce'
                        /\ ~wcMissed' /\ wcServer'[wcOf] = "shown" => wcServerValue' = wcValue'
  BY <1>1, <1>2, WcToldKept DEF WcInv, WcHeld, WcAgree, WcWaitsFor, WcOn, Answered, wcService, wcChosen
<1>11. WcAtRest'
  BY <1>7, <1>8, <1>9, <1>10 DEF WcAtRest, wcChosen
<1> QED BY <1>3, <1>11, WcRestStays

LEMMA WcReturnShowOK == ASSUME WcInv, ReturnShow PROVE WcInv'
<1>1. CASE wcCall.ret = "OK"
  <2>1. Answered("show")
    BY <1>1 DEF ReturnShow, WcReturns, Answered, WcOn
  <2> QED BY <1>1, <2>1, WcOvertakesOK DEF ReturnShow
<1>2. CASE wcCall.ret # "OK"
  BY <1>2, WcLeavesOK DEF ReturnShow, WcOps
<1> QED BY <1>1, <1>2

LEMMA WcReturnHideOK == ASSUME WcInv, ReturnHide PROVE WcInv'
<1>1. CASE wcCall.ret = "OK"
  BY <1>1, WcOvertakesOK DEF ReturnHide
<1>2. CASE wcCall.ret # "OK"
  BY <1>2, WcLeavesOK DEF ReturnHide, WcOps
<1> QED BY <1>1, <1>2

LEMMA WcReturnSetOK == ASSUME WcInv, ReturnSet PROVE WcInv'
<1>1. wcCall.op = "set" /\ wcCall.pc = "return" /\ UNCHANGED <<wcState, wcMap, wcListed, wcChosen, wcOvertaken, wcService>>
  BY DEF ReturnSet, WcReturns
<1>2. UNCHANGED <<wcUsed, wcSetter, wcOf, wcServer, wcServerValue, wcInbox>>
  BY <1>1 DEF wcChosen, wcService
<1>3. WcResting' /\ WcCallOK'
  <2>1. PICK ret : wcCall' = [wcCall EXCEPT !.pc = "done", !.ret = ret]
    <3>1. wcCall = [op |-> wcCall.op, w |-> wcCall.w, pc |-> wcCall.pc, ret |-> wcCall.ret,
                    from |-> wcCall.from, old |-> wcCall.old]
      BY <1>1, WcCallFacts
    <3>2. wcCall' = [wcCall EXCEPT !.pc = "done", !.ret = IF wcSetter.tells THEN @ ELSE "OK"]
      BY DEF ReturnSet
    <3>3. wcCall' = [wcCall EXCEPT !.pc = "done", !.ret = IF wcSetter.tells THEN wcCall.ret ELSE "OK"]
      BY <3>1, <3>2
    <3> QED BY <3>3
  <2> QED BY <1>1, <1>2, <2>1, WcFinishes
<1>4. wcMissed' \in BOOLEAN
  <2>1. wcMissed \in BOOLEAN
    BY DEF WcInv, WcMapInv, WcTypeOK
  <2>2. wcMissed' = FALSE \/ wcMissed' = (wcMissed \/ ~wcSetter.undo)
    BY DEF ReturnSet
  <2> QED BY <2>1, <2>2
<1>5. WcTypeOK'
  BY <1>1, <1>2, <1>3, <1>4 DEF WcInv, WcMapInv, WcTypeOK
<1>6. \A v \in WcWindows : v \in wcMap' <=> IsWindowValid(v)' /\ v \notin wcOvertaken'
  BY <1>1 DEF WcInv, WcMapInv, WcMapped, Destroying, WcOn, IsWindowValid
<1>7. WcMain \notin wcListed' /\ (wcListed' # {} => WcMain \in wcMap')
  BY <1>1 DEF WcInv, WcMapInv, WcUnder, Destroying, WcOn
<1>8. ASSUME wcOf # "none" PROVE ~wcMissed' /\ wcServer'[wcOf] = "shown" => wcServerValue' = wcValue'
  <2>1. CASE wcCall.ret = "OK"
    BY <1>1, <1>2, <1>8, <2>1 DEF WcInv, WcAgree, ReturnSet, Answered, WcOn
  <2>2. CASE wcCall.ret # "OK"
    <3>1. wcMissed' = (wcMissed \/ ~wcSetter.undo) /\ wcValue' = IF wcSetter.undo THEN wcCall.old ELSE wcValue
      BY <2>2 DEF ReturnSet
    <3>2. ~wcMissed /\ wcServer[wcOf] = "shown" => wcServerValue = wcCall.old
      BY <1>1, <1>8, <2>2 DEF WcInv, WcAgree, WcWaitsFor, WcOn, Answered
    <3> QED BY <1>2, <3>1, <3>2
  <2> QED BY <2>1, <2>2
<1>9. wcOf # "none" => /\ wcServer'[wcOf] # "none" => wcOf \in wcMap'
                       /\ WcTold' => wcServer'[wcOf] = "none" /\ wcOf \in wcMap'
                       /\ WcToldOnce'
  BY <1>1, <1>2, WcToldKept DEF WcInv, WcHeld, Answered, WcOn
<1>10. WcAtRest'
  BY <1>2, <1>5, <1>6, <1>7, <1>8, <1>9 DEF WcAtRest
<1> QED BY <1>3, <1>10, WcRestStays

(* the windows of ws leave the maps, and with w the destruction is over *)
LEMMA WcForgetsOK ==
    ASSUME WcInv, WcOn("destroy", {"return", "floats"}), Finished, NEW ws, Forgets(ws), wcCall.w \in ws,
           \A c \in wcListed \ ws : WcMain \notin ws,
           wcServer' \in [WcWindows -> {"none", "created", "shown"}], UNCHANGED wcInbox,
           wcOf # "none" => Answered("destroy") /\ UNCHANGED <<wcServer, wcServerValue>>
    PROVE  WcInv'
<1>1. /\ wcCall.op = "destroy" /\ wcCall.op # "none" /\ wcCall.pc # "done" /\ wcCall.pc \in {"return", "floats"}
      /\ wcUsed' = wcUsed /\ wcOf' = wcOf /\ wcSetter' = wcSetter
  BY DEF WcOn, Forgets, wcChosen
<1>2. WcResting' /\ WcCallOK'
  BY <1>1, WcFinishedIs
<1>3. wcState' \in [WcWindows -> WcStates]
  BY DEF Forgets, WcInv, WcMapInv, WcTypeOK, WcStates
<1>4. WcTypeOK'
  BY <1>1, <1>2, <1>3 DEF Forgets, WcInv, WcMapInv, WcTypeOK
<1>5. \A v \in WcWindows : v \in wcMap' <=> IsWindowValid(v)' /\ v \notin wcOvertaken'
  BY <1>1 DEF Forgets, WcInv, WcMapInv, WcMapped, Destroying, WcOn, IsWindowValid
<1>6. WcMain \notin wcListed' /\ (wcListed' # {} => WcMain \in wcMap')
  BY <1>1 DEF Forgets, WcInv, WcMapInv, WcUnder, Destroying, WcOn
<1>7. ASSUME wcOf # "none"
      PROVE  /\ wcServer'[wcOf] # "none" => wcOf \in wcMap'
             /\ WcTold' => wcServer'[wcOf] = "none" /\ wcOf \in wcMap'
             /\ WcToldOnce'
             /\ ~wcMissed' /\ wcServer'[wcOf] = "shown" => wcServerValue' = wcValue'
  <2>1. wcServer'[wcOf] = "none" /\ ~WcTold /\ WcToldOnce
    BY <1>7 DEF WcInv, WcHeld
  <2>2. ~WcTold' /\ WcToldOnce'
    BY <1>1, <2>1, WcToldKept
  <2> QED BY <2>1, <2>2
<1>8. WcAtRest'
  BY <1>1, <1>4, <1>5, <1>6, <1>7 DEF WcAtRest
<1> QED BY <1>2, <1>8, WcRestStays

LEMMA WcReturnDestroyOK == ASSUME WcInv, ReturnDestroy PROVE WcInv'
<1> DEFINE w == wcCall.w
<1>1. WcReturns("destroy") /\ wcCall.op = "destroy" /\ wcCall.pc = "return" /\ UNCHANGED wcService
  BY DEF ReturnDestroy, WcReturns
<1>2. CASE wcCall.ret # "OK"
  <2>1. Finished /\ UNCHANGED wcClient
    BY <1>2 DEF ReturnDestroy
  <2> QED BY <1>1, <1>2, <2>1, WcLeavesOK DEF WcOps
<1>3. CASE wcCall.ret = "OK" /\ DestroyFloatingWindow(w) = {}
  <2> DEFINE ws == {w} \cup DestroySubWindow(w) \cup DestroyDialogWindow(w)
  <2>1. Finished /\ Forgets(ws)
    BY <1>3 DEF ReturnDestroy
  <2>2. \A c \in wcListed \ ws : WcMain \notin ws
    <3> SUFFICES ASSUME NEW c \in wcListed, c \notin ws, WcMain \in ws PROVE FALSE
      OBVIOUS
    <3>1. WcMain \notin wcListed /\ wcListed \subseteq WcWindows
      BY DEF WcInv, WcMapInv, WcTypeOK, WcUnder
    <3>2. w = WcMain
      BY <3>1 DEF DestroySubWindow, DestroyDialogWindow, ChildrenOf
    <3>3. WcKindOf[c] \in {"sub", "float", "dialog"}
      BY <3>1, WcMainIs
    <3> QED BY <1>3, <3>2, <3>3 DEF DestroySubWindow, DestroyDialogWindow, DestroyFloatingWindow, ChildrenOf
  <2>3. Answered("destroy") /\ WcOn("destroy", {"return", "floats"})
    BY <1>1, <1>3 DEF Answered, WcOn
  <2>4. UNCHANGED <<wcServer, wcServerValue, wcInbox>> /\ wcServer \in [WcWindows -> {"none", "created", "shown"}]
    BY <1>1 DEF wcService, WcInv, WcMapInv, WcTypeOK
  <2> HIDE DEF ws
  <2>5. w \in ws
    BY DEF ws
  <2> QED BY <2>1, <2>2, <2>3, <2>4, <2>5, WcForgetsOK
<1>4. CASE wcCall.ret = "OK" /\ DestroyFloatingWindow(w) # {}
  <2>1. /\ wcMap' = wcMap \ ({w} \cup DestroySubWindow(w)) /\ wcListed' = wcListed \ DestroySubWindow(w)
        /\ wcState' = [c \in WcWindows |-> IF c \in DestroySubWindow(w) THEN "DESTROYED" ELSE wcState[c]]
        /\ wcCall' = [wcCall EXCEPT !.pc = "floats"]
        /\ UNCHANGED <<wcValue, wcUsed, wcSetter, wcOf, wcMissed, wcOvertaken>>
        /\ UNCHANGED <<wcServer, wcServerValue, wcInbox>>
    BY <1>1, <1>4 DEF ReturnDestroy, wcChosen, wcService
  <2>2. /\ w \in wcUsed /\ w \in WcWindows
        /\ wcCall = [op |-> wcCall.op, w |-> wcCall.w, pc |-> wcCall.pc, ret |-> wcCall.ret,
                     from |-> wcCall.from, old |-> wcCall.old]
    BY <1>1, WcCallFacts
  <2>3. wcCall' = [op |-> "destroy", w |-> w, pc |-> "floats", ret |-> wcCall.ret,
                   from |-> wcCall.from, old |-> wcCall.old]
    BY <1>1, <2>1, <2>2
  <2>4. w = WcMain /\ WcMain \notin wcListed /\ DestroySubWindow(w) = {c \in wcListed : WcKindOf[c] = "sub"}
    BY <1>4 DEF DestroyFloatingWindow, DestroySubWindow, ChildrenOf, WcInv, WcMapInv, WcUnder
  <2>5. WcCallOK'
    BY <2>1, <2>2, <2>3 DEF WcCallOK, WcOps, WcPcs
  <2>6. WcTypeOK'
    <3>1. wcState' \in [WcWindows -> WcStates]
      BY <2>1 DEF WcInv, WcMapInv, WcTypeOK, WcStates
    <3>2. wcListed' \subseteq wcMap'
      BY <2>1, <2>4 DEF WcInv, WcMapInv, WcTypeOK
    <3> QED BY <2>1, <2>5, <3>1, <3>2 DEF WcInv, WcMapInv, WcTypeOK
  <2>7. WcMapped'
    BY <1>1, <2>1, <2>2, <2>3 DEF WcInv, WcMapInv, WcMapped, Destroying, WcOn, IsWindowValid
  <2>8. WcUnder' /\ WcWaiting'
    BY <1>1, <2>1, <2>2, <2>3, <2>4 DEF WcInv, WcMapInv, WcUnder, WcWaiting, WcWaitsFor, Destroying, WcOn
  <2>9. wcOf = "none"
    <3>1. wcListed # {} /\ wcListed \subseteq wcUsed /\ (wcOf # "none" => wcUsed = {wcOf})
      BY <1>4 DEF DestroyFloatingWindow, ChildrenOf, WcInv, WcMapInv, WcTypeOK
    <3> QED BY <2>2, <2>4, <3>1
  <2> QED BY <2>1, <2>6, <2>7, <2>8, <2>9 DEF WcInv, WcMapInv
<1> QED BY <1>2, <1>3, <1>4

LEMMA WcNextFloatOK == ASSUME WcInv, DestroyNextFloat PROVE WcInv'
<1>1. wcCall.op = "destroy" /\ wcCall.pc = "floats" /\ UNCHANGED <<wcServerValue, wcUp, wcInbox, wcDied>>
  BY DEF DestroyNextFloat
<1>2. PICK f \in DestroyFloatingWindow(wcCall.w) :
         IF Accepts("destroy", f)
         THEN /\ wcServer' = [wcServer EXCEPT ![f] = "none"]
              /\ IF DestroyFloatingWindow(wcCall.w) = {f}
                 THEN Finished /\ Forgets({f, wcCall.w} \cup DestroyDialogWindow(wcCall.w))
                 ELSE UNCHANGED wcCall /\ Forgets({f})
         ELSE UNCHANGED <<wcClient, wcServer, wcCall>>
  BY DEF DestroyNextFloat
<1>3. /\ wcCall.w = WcMain /\ f \in wcListed /\ WcKindOf[f] = "float" /\ WcMain \notin wcListed /\ WcMain \notin wcMap
      /\ wcListed \subseteq wcUsed /\ wcListed \subseteq WcWindows /\ WcMain \in wcUsed /\ wcCall.w \in WcWindows
      /\ \A c \in wcListed : WcKindOf[c] # "sub"
  BY <1>1, <1>2, WcCallFacts DEF DestroyFloatingWindow, ChildrenOf, WcInv, WcMapInv, WcTypeOK, WcUnder, WcOn
<1>4. wcOf = "none"
  BY <1>3 DEF WcInv, WcMapInv, WcTypeOK
<1>5. CASE ~Accepts("destroy", f)
  <2>1. UNCHANGED wcVars
    BY <1>1, <1>2, <1>5 DEF wcVars, wcClient, wcChosen
  <2> QED BY <2>1, WcStutters
<1>6. Accepts("destroy", f) => wcServer' \in [WcWindows -> {"none", "created", "shown"}]
  BY <1>2 DEF WcInv, WcMapInv, WcTypeOK
<1>7. CASE Accepts("destroy", f) /\ DestroyFloatingWindow(wcCall.w) = {f}
  <2> DEFINE ws == {f, wcCall.w} \cup DestroyDialogWindow(wcCall.w)
  <2>1. Finished /\ Forgets(ws) /\ wcCall.w \in ws
    BY <1>2, <1>7
  <2>2. wcListed \ ws = {}
    <3>1. \A c \in wcListed : WcKindOf[c] \in {"float", "dialog"}
      BY <1>3, WcMainIs
    <3> QED BY <1>3, <1>7, <3>1 DEF DestroyDialogWindow, DestroyFloatingWindow, ChildrenOf
  <2>3. WcOn("destroy", {"return", "floats"})
    BY <1>1 DEF WcOn
  <2> HIDE DEF ws
  <2> QED BY <1>1, <1>4, <1>6, <1>7, <2>1, <2>2, <2>3, WcForgetsOK
<1>8. CASE Accepts("destroy", f) /\ DestroyFloatingWindow(wcCall.w) # {f}
  <2>1. UNCHANGED wcCall /\ Forgets({f})
    BY <1>2, <1>8
  <2>2. UNCHANGED <<wcUsed, wcSetter, wcOf>>
    BY <2>1 DEF Forgets, wcChosen
  <2>3. WcTypeOK'
    <3>1. wcState' \in [WcWindows -> WcStates]
      BY <2>1 DEF Forgets, WcInv, WcMapInv, WcTypeOK, WcStates
    <3> QED BY <1>1, <1>6, <1>8, <2>1, <2>2, <3>1 DEF Forgets, WcInv, WcMapInv, WcTypeOK, WcCallOK
  <2>4. WcMapped'
    BY <1>1, <2>1 DEF Forgets, WcInv, WcMapInv, WcMapped, Destroying, WcOn, IsWindowValid
  <2>5. WcUnder'
    BY <1>1, <1>3, <2>1 DEF Forgets, WcInv, WcMapInv, WcUnder, Destroying, WcOn
  <2>6. WcWaiting'
    BY <1>1, <2>1 DEF WcWaiting, WcWaitsFor, WcOn
  <2> QED BY <1>4, <2>2, <2>3, <2>4, <2>5, <2>6 DEF WcInv, WcMapInv
<1> QED BY <1>5, <1>7, <1>8

LEMMA WcDoneOK == ASSUME WcInv, WcResting, wcCall' = NoWcCall, UNCHANGED <<wcClient, wcService>> PROVE WcInv'
<1>1. WcAtRest
  BY WcRestIs
<1>2. WcResting' /\ WcCallOK'
  BY DEF WcResting, WcCallOK, NoWcCall
<1>3. WcAtRest'
  BY <1>1, <1>2 DEF WcAtRest, WcTypeOK, WcTold, WcTells, WcToldOnce, IsWindowValid, wcClient, wcService, wcChosen
<1> QED BY <1>2, <1>3, WcRestStays

(* what the parts about the client say when only the service has moved *)
LEMMA WcClientKept ==
    ASSUME WcInv, UNCHANGED <<wcClient, wcCall>>, wcInbox' \in Seq(WcMessages),
           wcServer' \in [WcWindows -> {"none", "created", "shown"}]
    PROVE  WcMapInv'
BY DEF WcInv, WcMapInv, WcTypeOK, WcCallOK, WcMapped, WcUnder, WcWaiting, WcWaitsFor, Destroying, WcOn,
       IsWindowValid, wcClient, wcChosen

LEMMA WcStateSentOK == ASSUME WcInv, WcStateSent PROVE WcInv'
<1>1. PICK w \in WcWindows, state \in {"FROZEN", "SHOWN"} : wcInbox' = Append(wcInbox, [w |-> w, what |-> state])
  BY DEF WcStateSent, Tells
<1>2. UNCHANGED <<wcClient, wcCall, wcServer, wcServerValue>> /\ UNCHANGED wcOf
  BY DEF WcStateSent, wcClient, wcChosen
<1>3. wcInbox \in Seq(WcMessages) /\ [w |-> w, what |-> state] \in WcMessages
  BY DEF WcInv, WcMapInv, WcTypeOK, WcMessages
<1>4. wcInbox' \in Seq(WcMessages)
  BY <1>1, <1>3
<1>5. WcMapInv'
  BY <1>2, <1>4, WcClientKept DEF WcInv, WcMapInv, WcTypeOK
<1>6. (WcTold' => WcTold) /\ (WcToldOnce => WcToldOnce')
  BY <1>1, <1>2, <1>3, WcToldSent
<1>7. wcOf # "none" => WcHeld' /\ WcAgree'
  BY <1>2, <1>6 DEF WcInv, WcHeld, WcAgree, WcWaitsFor, WcOn, Answered, wcClient, wcChosen
<1> QED BY <1>2, <1>5, <1>7 DEF WcInv

LEMMA WcDialogGoesOK == ASSUME WcInv, WcDialogGoes PROVE WcInv'
<1>1. PICK w \in WcWindows : /\ WcKindOf[w] = "dialog" /\ wcServer[w] # "none"
                             /\ wcServer' = [wcServer EXCEPT ![w] = "none"]
                             /\ wcInbox' = Append(wcInbox, [w |-> w, what |-> "NotifyDestroy"])
  BY DEF WcDialogGoes, Tells
<1>2. UNCHANGED <<wcClient, wcCall, wcServerValue>> /\ UNCHANGED wcOf
  BY DEF WcDialogGoes, wcClient, wcChosen
<1>3. wcInbox \in Seq(WcMessages) /\ [w |-> w, what |-> "NotifyDestroy"] \in WcMessages
  BY <1>1 DEF WcInv, WcMapInv, WcTypeOK, WcMessages
<1>4. wcInbox' \in Seq(WcMessages)
  BY <1>1, <1>3
<1>5. wcServer' \in [WcWindows -> {"none", "created", "shown"}]
  BY <1>1 DEF WcInv, WcMapInv, WcTypeOK
<1>6. WcMapInv'
  BY <1>2, <1>4, <1>5, WcClientKept
<1>7. /\ w # wcOf => (WcTold' => WcTold) /\ (WcToldOnce => WcToldOnce')
      /\ ~WcTold => WcToldOnce'
  BY <1>1, <1>2, <1>3, WcToldSent
<1>8. wcOf # "none" => wcServer'[wcOf] = (IF w = wcOf THEN "none" ELSE wcServer[wcOf])
  <2>1. wcOf # "none" => wcOf \in WcWindows
    BY DEF WcInv, WcMapInv, WcTypeOK
  <2> QED BY <1>1, <2>1 DEF WcInv, WcMapInv, WcTypeOK
<1>9. wcOf # "none" => WcHeld' /\ WcAgree'
  BY <1>1, <1>2, <1>7, <1>8 DEF WcInv, WcHeld, WcAgree, WcWaitsFor, WcOn, Answered, wcClient, wcChosen
<1> QED BY <1>2, <1>6, <1>9 DEF WcInv

LEMMA WcServiceDiesOK == ASSUME WcInv, WcServiceDies PROVE WcInv'
<1>1. /\ UNCHANGED <<wcClient, wcCall, wcServerValue>> /\ UNCHANGED wcOf
      /\ wcInbox' = <<>> /\ wcServer' = [w \in WcWindows |-> "none"]
  BY DEF WcServiceDies, wcClient, wcChosen
<1>2. WcMapInv'
  BY <1>1, WcClientKept
<1>3. ~WcTold' /\ WcToldOnce'
  BY <1>1 DEF WcTold, WcToldOnce
<1>4. wcOf # "none" => wcServer'[wcOf] = "none"
  BY <1>1 DEF WcInv, WcMapInv, WcTypeOK
<1>5. wcOf # "none" => WcHeld' /\ WcAgree'
  BY <1>1, <1>3, <1>4 DEF WcInv, WcHeld, WcAgree, WcWaitsFor, WcOn, Answered, wcClient, wcChosen
<1> QED BY <1>1, <1>2, <1>5 DEF WcInv

LEMMA WcServiceRestartsOK == ASSUME WcInv, WcServiceRestarts PROVE WcInv'
<1>1. UNCHANGED <<wcClient, wcCall, wcServer, wcServerValue, wcInbox>> /\ UNCHANGED wcOf
  BY DEF WcServiceRestarts, wcClient, wcChosen
<1>2. WcMapInv'
  BY <1>1, WcClientKept DEF WcInv, WcMapInv, WcTypeOK
<1>3. wcOf # "none" => WcHeld' /\ WcAgree'
  BY <1>1, WcToldKept DEF WcInv, WcHeld, WcAgree, WcWaitsFor, WcOn, Answered, wcClient, wcChosen
<1> QED BY <1>1, <1>2, <1>3 DEF WcInv

LEMMA WcReceiveOK == ASSUME WcInv, WcReceive PROVE WcInv'
<1> DEFINE m == Head(wcInbox)
<1>1. /\ wcInbox # <<>> /\ wcInbox' = Tail(wcInbox) /\ UNCHANGED <<wcCall, wcServer, wcServerValue, wcUp, wcDied>>
      /\ wcInbox \in Seq(WcMessages)
  BY DEF WcReceive, WcInv, WcMapInv, WcTypeOK
<1>2. m \in WcMessages /\ wcInbox' \in Seq(WcMessages)
  BY <1>1
<1>3. m.w \in WcWindows /\ m.what \in {"NotifyDestroy", "FROZEN", "SHOWN"} /\ (m.what = "NotifyDestroy" => WcKindOf[m.w] = "dialog")
  BY <1>2 DEF WcMessages
<1>5. wcServer \in [WcWindows -> {"none", "created", "shown"}]
  BY DEF WcInv, WcMapInv, WcTypeOK
<1> DEFINE v == m.w
<1>6. CASE UNCHANGED wcClient
  <2>1. WcMapInv'
    BY <1>1, <1>2, <1>5, <1>6, WcClientKept
  <2>2. UNCHANGED <<wcOf, wcMap, wcValue, wcMissed>>
    BY <1>6 DEF wcClient, wcChosen
  <2>3. (WcTold' => WcTold) /\ (WcToldOnce => WcToldOnce')
    BY <1>1, <2>2, WcToldTaken
  <2>4. wcOf # "none" => WcHeld' /\ WcAgree'
    BY <1>1, <2>2, <2>3 DEF WcInv, WcHeld, WcAgree, WcWaitsFor, WcOn, Answered
  <2> QED BY <2>1, <2>2, <2>4 DEF WcInv
<1>7. CASE m.what # "NotifyDestroy" /\ IsWindowValid(v) /\ ~UNCHANGED wcClient
  <2>1. PICK state \in {"FROZEN", "SHOWN"} : wcState' = [wcState EXCEPT ![v] = state]
    BY <1>7 DEF WcReceive, UpdateWindowState, Sets
  <2>2. UNCHANGED <<wcMap, wcListed, wcValue, wcUsed, wcSetter, wcOf, wcMissed, wcOvertaken>>
    BY <1>7 DEF WcReceive, UpdateWindowState, wcChosen
  <2>3. WcTypeOK'
    <3>1. wcState' \in [WcWindows -> WcStates]
      BY <1>3, <2>1 DEF WcInv, WcMapInv, WcTypeOK, WcStates
    <3> QED BY <1>1, <1>2, <1>5, <2>2, <3>1 DEF WcInv, WcMapInv, WcTypeOK, WcCallOK
  <2>4. \A u \in WcWindows : IsWindowValid(u)' <=> IsWindowValid(u)
    BY <1>3, <1>7, <2>1 DEF WcInv, WcMapInv, WcTypeOK, IsWindowValid
  <2>5. WcMapped'
    BY <1>1, <2>2, <2>4 DEF WcInv, WcMapInv, WcMapped, Destroying, WcOn
  <2>6. WcUnder'
    BY <1>1, <2>2 DEF WcInv, WcMapInv, WcUnder, Destroying, WcOn
  <2>7. WcWaiting'
    BY <1>1, <1>3, <1>7, <2>1, <2>2 DEF WcInv, WcMapInv, WcTypeOK, WcWaiting, WcWaitsFor, WcOn, IsWindowValid
  <2>8. (WcTold' => WcTold) /\ (WcToldOnce => WcToldOnce')
    BY <1>1, <2>2, WcToldTaken
  <2>9. wcOf # "none" => WcHeld' /\ WcAgree'
    BY <1>1, <2>2, <2>8 DEF WcInv, WcHeld, WcAgree, WcWaitsFor, WcOn, Answered
  <2> QED BY <2>2, <2>3, <2>5, <2>6, <2>7, <2>9 DEF WcInv, WcMapInv
<1>8. CASE m.what = "NotifyDestroy" /\ IsWindowValid(v)
  <2>1. Forgets({v})
    BY <1>8 DEF WcReceive, NotifyDestroy
  <2>2. UNCHANGED <<wcValue, wcUsed, wcSetter, wcOf, wcMissed, wcOvertaken>>
    BY <2>1 DEF Forgets, wcChosen
  <2>3. v # WcMain
    BY <1>3, <1>8, WcMainIs
  <2>4. WcTypeOK'
    <3>1. wcState' \in [WcWindows -> WcStates]
      BY <2>1 DEF Forgets, WcInv, WcMapInv, WcTypeOK, WcStates
    <3> QED BY <1>1, <1>2, <1>5, <2>1, <2>2, <3>1 DEF Forgets, WcInv, WcMapInv, WcTypeOK, WcCallOK
  <2>5. WcMapped'
    BY <1>1, <2>1 DEF Forgets, WcInv, WcMapInv, WcMapped, Destroying, WcOn, IsWindowValid
  <2>6. WcUnder'
    BY <1>1, <2>1, <2>3 DEF Forgets, WcInv, WcMapInv, WcUnder, Destroying, WcOn
  <2>7. WcWaiting'
    <3>1. WcWaitsFor("create") => v # wcCall.w
      BY <1>8 DEF WcInv, WcMapInv, WcWaiting, IsWindowValid
    <3>2. wcCall.op \in {"create", "show", "hide"} /\ wcCall.pc # "done" => wcCall.w \in WcWindows
      BY WcCallFacts
    <3> QED BY <1>1, <2>1, <2>3, <3>1, <3>2 DEF Forgets, WcInv, WcMapInv, WcWaiting, WcWaitsFor, WcOn
  <2>8. (WcTold' => WcTold) /\ (WcToldOnce => WcToldOnce')
    BY <1>1, <2>2, WcToldTaken
  <2>9. v = wcOf => WcTold
    <3>1. m = [w |-> v, what |-> "NotifyDestroy"] /\ m = wcInbox[1] /\ 1 \in DOMAIN wcInbox
      BY <1>1, <1>2, <1>8 DEF WcMessages
    <3> QED BY <3>1 DEF WcTold, WcTells, WcToldOnce
  <2>10. ASSUME wcOf # "none" PROVE WcHeld' /\ WcAgree'
    <3>1. CASE v = wcOf
      <4>1. wcServer[wcOf] = "none" /\ WcToldOnce /\ WcTells(1)
        <5>1. WcTells(1)
          BY <1>1, <1>2, <1>8, <3>1 DEF WcTells, WcMessages
        <5> QED BY <2>9, <2>10, <3>1, <5>1 DEF WcInv, WcHeld
      <4>2. ~WcTold'
        BY <1>1, <2>2, <4>1 DEF WcTold, WcTells, WcToldOnce
      <4>3. ~Answered("create")
        <5>1. Answered("create") => wcCall.w = wcOf
          BY <2>10, WcCallFacts DEF Answered, WcOn
        <5> QED BY <1>8, <3>1, <5>1 DEF WcInv, WcMapInv, WcWaiting, WcWaitsFor, WcOn, Answered, IsWindowValid
      <4> QED BY <1>1, <2>1, <2>2, <2>10, <4>1, <4>2, <4>3 DEF WcInv, WcHeld, WcAgree, WcToldOnce, WcTells, WcWaitsFor, WcOn, Answered
    <3>2. CASE v # wcOf
      BY <1>1, <2>1, <2>2, <2>8, <2>10, <3>2 DEF Forgets, WcInv, WcHeld, WcAgree, WcWaitsFor, WcOn, Answered
    <3> QED BY <3>1, <3>2
  <2> QED BY <2>2, <2>4, <2>5, <2>6, <2>7, <2>10 DEF WcInv, WcMapInv
<1>9. \/ UNCHANGED wcClient
      \/ m.what # "NotifyDestroy" /\ IsWindowValid(v)
      \/ m.what = "NotifyDestroy" /\ IsWindowValid(v)
  BY DEF WcReceive, NotifyDestroy, UpdateWindowState
<1> QED BY <1>6, <1>7, <1>8, <1>9

LEMMA WcBeginOK == ASSUME WcInv, NEW from, WcBegin(from) PROVE WcInv'
<1>1. WcResting
  BY DEF WcBegin, WcIdle, NoWcCall, WcResting
<1>2. PICK w \in wcUsed :
         \/ Create(w, from)
         \/ \E reason \in {"NORMAL", "KEYGUARD", "TOGGLING"} : Show(w, reason, from) \/ Hide(w, reason, from)
         \/ Destroy(w, from)
         \/ w = wcOf /\ \E value \in {0, 1} : Set(w, value, from)
         \/ Hide(w, "NORMAL", from)
  BY DEF WcBegin, Minimize, Close
<1>3. wcUsed \subseteq WcWindows /\ w # "none"
  BY WcAssumption DEF WcInv, WcMapInv, WcTypeOK, WcWindows
<1>4. CASE Create(w, from)
  BY <1>1, <1>4, WcCreateOK
<1>5. CASE \E reason \in {"NORMAL", "KEYGUARD", "TOGGLING"} : Show(w, reason, from) \/ Hide(w, reason, from)
  BY <1>1, <1>5, WcShowOK, WcHideOK
<1>6. CASE Destroy(w, from)
  BY <1>1, <1>6, WcDestroyOK
<1>7. CASE w = wcOf /\ \E value \in {0, 1} : Set(w, value, from)
  BY <1>1, <1>3, <1>7, WcSetOK
<1>8. CASE Hide(w, "NORMAL", from)
  BY <1>1, <1>8, WcHideOK
<1> QED BY <1>2, <1>4, <1>5, <1>6, <1>7, <1>8

LEMMA WcStepsOK == ASSUME WcInv, WcStep PROVE WcInv'
<1>1. CASE WcServe
  BY <1>1, WcServeOK
<1>2. CASE WcRefuse
  BY <1>2, WcRefuseOK
<1>3. CASE WcReturn
  BY <1>3, WcReturnCreateOK, WcReturnShowOK, WcReturnHideOK, WcReturnSetOK, WcReturnDestroyOK, WcNextFloatOK
     DEF WcReturn
<1>4. CASE WcDone
  BY <1>4, WcDoneOK DEF WcDone, WcResting
<1> QED BY <1>1, <1>2, <1>3, <1>4 DEF WcStep

LEMMA WcNextOK == WcInv /\ [WcNext]_wcVars => WcInv'
<1> SUFFICES ASSUME WcInv, [WcNext]_wcVars PROVE WcInv'
  OBVIOUS
<1>1. CASE WcBegin(Native)
  BY <1>1, WcBeginOK
<1>2. CASE WcStep
  BY <1>2, WcStepsOK
<1>3. CASE WcWorld
  BY <1>3, WcDialogGoesOK, WcStateSentOK, WcReceiveOK, WcServiceDiesOK, WcServiceRestartsOK DEF WcWorld
<1>4. CASE UNCHANGED wcVars
  BY <1>4, WcStutters
<1> QED BY <1>1, <1>2, <1>3, <1>4 DEF WcNext

LEMMA WcInvSays == WcInv => WcMapsSound /\ WcServerKnows
<1>1. WcIdle => WcResting
  BY DEF WcIdle, NoWcCall, WcResting
<1>2. WcAtRest => WcMapsSound /\ WcServerKnows
  BY DEF WcAtRest, WcTypeOK, WcMapsSound, WcServerKnows
<1> QED BY <1>1, <1>2, WcRestIs DEF WcMapsSound, WcServerKnows

(* For every set of windows of an application, however many messages wait and
   however often it calls: between calls the windows found by name are the valid
   ones, and what is listed under a main window is valid and outlived by it
   (WindowImpl::Create, Destroy, DestroySubWindow, NotifyDestroy).              *)
THEOREM MapsAreSound == WcSpec => []WcMapsSound
BY WcInitOK, WcNextOK, WcInvSays, PTL DEF WcSpec

(* For every setter: a window that is shown between calls has the value the service
   knows, unless an update failed or was never sent (WindowImpl::UpdateProperty,
   and what Show sends with the window).                                        *)
THEOREM ServerKnowsValue == WcSpec => []WcServerKnows
BY WcInitOK, WcNextOK, WcInvSays, PTL DEF WcSpec

-----------------------------------------------------------------------------
(* What the functions of JavaScript are made of. *)
JsRows == [op : {"show", "hide", "destroy", "set", "bars", "ask", "tell", "refuse"},
           check : {"task", "call", "never", "none"}, beyond : BOOLEAN, stops : BOOLEAN, heeds : BOOLEAN,
           bare : BOOLEAN, loses : BOOLEAN, mute : BOOLEAN, async : BOOLEAN, twice : BOOLEAN]

(* a task that is not known to settle twice stops after a rejection, and those that
   hide and destroy hold a window and heed its answer                            *)
JsRowOK(r) == /\ r \in JsRows
              /\ ~r.twice => r.stops
              /\ r.async /\ r.op \in {"hide", "destroy"} => r.heeds /\ r.check # "none"

LEMMA JsAsyncOK ==
    /\ \A op \in {"show", "hide", "set", "ask", "tell", "refuse"} : JsRowOK(Async(op))
    /\ \A op \in {"set", "ask", "tell"} : JsRowOK(Sync(op)) /\ JsRowOK(Manager(op)) /\ JsRowOK(Mute(op))
<1>1. ASSUME NEW op \in {"show", "hide", "set", "ask", "tell", "refuse"} PROVE JsRowOK(Async(op))
  BY DEF JsRowOK, JsRows, Async
<1>2. ASSUME NEW op \in {"set", "ask", "tell"} PROVE JsRowOK(Sync(op)) /\ JsRowOK(Manager(op)) /\ JsRowOK(Mute(op))
  <2>1. JsRowOK(Sync(op))
    BY DEF JsRowOK, JsRows, Async, Sync
  <2>2. JsRowOK(Manager(op))
    BY DEF JsRowOK, JsRows, Async, Manager
  <2>3. JsRowOK(Mute(op))
    BY DEF JsRowOK, JsRows, Async, Manager, Mute
  <2> QED BY <2>1, <2>2, <2>3
<1> QED BY <1>1, <1>2

LEMMA JsBindOK == \A r \in BindFunctions : JsRowOK(r)
<1>1. JsRowOK(OnShow) /\ JsRowOK(OnHide) /\ JsRowOK(OnMoveTo) /\ JsRowOK(OnResize) /\ JsRowOK(OnSetWindowType) /\
      JsRowOK(OnGetProperties)
  BY JsAsyncOK DEF OnShow, OnHide, OnMoveTo, OnResize, OnSetWindowType, OnGetProperties
<1>2. JsRowOK(OnRegisterWindowCallback) /\ JsRowOK(OnUnregisterWindowCallback) /\ JsRowOK(OnSetFullScreen) /\
      JsRowOK(OnSetLayoutFullScreen) /\ JsRowOK(OnIsShowing) /\ JsRowOK(OnIsSupportWideGamut)
  BY JsAsyncOK DEF OnRegisterWindowCallback, OnUnregisterWindowCallback, OnSetFullScreen, OnSetLayoutFullScreen,
      OnIsShowing, OnIsSupportWideGamut
<1>3. JsRowOK(OnSetBackgroundColor) /\ JsRowOK(OnSetBrightness) /\ JsRowOK(OnSetDimBehind) /\
      JsRowOK(OnSetFocusable) /\ JsRowOK(OnSetKeepScreenOn) /\ JsRowOK(OnSetWakeUpScreen)
  BY JsAsyncOK DEF OnSetBackgroundColor, OnSetBrightness, OnSetDimBehind, OnSetFocusable, OnSetKeepScreenOn,
      OnSetWakeUpScreen
<1>4. JsRowOK(OnSetOutsideTouchable) /\ JsRowOK(OnSetTouchable) /\ JsRowOK(OnSetTransparent) /\
      JsRowOK(OnSetCallingWindow) /\ JsRowOK(OnDisableWindowDecor) /\ JsRowOK(OnSetColorSpace)
  BY JsAsyncOK DEF OnSetOutsideTouchable, OnSetTouchable, OnSetTransparent, OnSetCallingWindow,
      OnDisableWindowDecor, OnSetColorSpace
<1>5. JsRowOK(OnGetColorSpace) /\ JsRowOK(OnDump) /\ JsRowOK(OnSetForbidSplitMove) /\ JsRowOK(OnSnapshot) /\
      JsRowOK(OnSetSnapshotSkip) /\ JsRowOK(OnOpacity)
  BY JsAsyncOK DEF OnGetColorSpace, OnDump, OnSetForbidSplitMove, OnSnapshot, OnSetSnapshotSkip, OnOpacity
<1>6. JsRowOK(OnScale) /\ JsRowOK(OnRotate) /\ JsRowOK(OnTranslate) /\ JsRowOK(OnGetTransitionController) /\
      JsRowOK(OnSetCornerRadius) /\ JsRowOK(OnSetShadow)
  BY JsAsyncOK DEF OnScale, OnRotate, OnTranslate, OnGetTransitionController, OnSetCornerRadius, OnSetShadow
<1>7. JsRowOK(OnSetBlur) /\ JsRowOK(OnSetBackdropBlur) /\ JsRowOK(OnSetBackdropBlurStyle)
  BY JsAsyncOK DEF OnSetBlur, OnSetBackdropBlur, OnSetBackdropBlurStyle
<1>8. JsRowOK(OnShowWithAnimation)
  BY DEF OnShowWithAnimation, JsRowOK, JsRows, Async
<1>9. JsRowOK(OnDestroy)
  BY DEF OnDestroy, JsRowOK, JsRows, Async
<1>10. JsRowOK(OnHideWithAnimation)
  BY DEF OnHideWithAnimation, JsRowOK, JsRows, Async
<1>11. JsRowOK(OnSetWindowMode)
  BY DEF OnSetWindowMode, JsRowOK, JsRows, Async, Beyond
<1>12. JsRowOK(OnBindDialogTarget)
  BY DEF OnBindDialogTarget, JsRowOK, JsRows, Async, Beyond
<1>13. JsRowOK(OnLoadContent)
  BY DEF OnLoadContent, JsRowOK, JsRows, Async
<1>14. JsRowOK(OnSetSystemBarEnable)
  BY DEF OnSetSystemBarEnable, JsRowOK, JsRows, Async
<1>15. JsRowOK(OnSetSystemBarProperties)
  BY DEF OnSetSystemBarProperties, JsRowOK, JsRows, Async, Twice
<1>16. JsRowOK(OnGetAvoidArea)
  BY DEF OnGetAvoidArea, JsRowOK, JsRows, Async, Careless
<1>17. JsRowOK(OnSetPreferredOrientation)
  BY DEF OnSetPreferredOrientation, JsRowOK, JsRows, Async, Careless
<1>18. JsRowOK(OnSetPrivacyMode)
  BY DEF OnSetPrivacyMode, JsRowOK, JsRows, Async, Careless
<1> QED BY <1>1, <1>2, <1>3, <1>4, <1>5, <1>6, <1>7, <1>8, <1>9, <1>10, <1>11, <1>12, <1>13, <1>14, <1>15, <1>16,
      <1>17, <1>18 DEF BindFunctions

LEMMA JsStageOK == \A r \in JsStageFunctions : JsRowOK(r)
<1>1. JsRowOK(StageSetUIContent) /\ JsRowOK(StageOnEvent) /\ JsRowOK(StageSetShowOnLockScreen) /\
      JsRowOK(StageDisableWindowDecor) /\ JsRowOK(CompleteShown) /\ JsRowOK(CompleteHidden)
  BY JsAsyncOK DEF StageSetUIContent, StageOnEvent, StageSetShowOnLockScreen, StageDisableWindowDecor,
      CompleteShown, CompleteHidden
<1>2. JsRowOK(StageGetMainWindow)
  BY DEF StageGetMainWindow, JsRowOK, JsRows, Async, Beyond, Manager
<1>3. JsRowOK(StageOffEvent)
  BY DEF StageOffEvent, JsRowOK, JsRows, Async, Beyond, Manager, Sync
<1>4. JsRowOK(StageLoadContent)
  BY DEF StageLoadContent, JsRowOK, JsRows, Async, Beyond, Manager
<1>5. JsRowOK(StageGetWindowMode)
  BY DEF StageGetWindowMode, JsRowOK, JsRows, Async, Beyond, Manager
<1>6. JsRowOK(StageCreateSubWindow)
  BY DEF StageCreateSubWindow, JsRowOK, JsRows, Async, Beyond, Manager
<1>7. JsRowOK(StageGetSubWindow)
  BY DEF StageGetSubWindow, JsRowOK, JsRows, Async, Beyond, Manager
<1> QED BY <1>1, <1>2, <1>3, <1>4, <1>5, <1>6, <1>7 DEF JsStageFunctions

LEMMA JsManagerOK == \A r \in JsManagerFunctions : JsRowOK(r)
<1>1. JsRowOK(OnFindWindow) /\ JsRowOK(OnMinimizeAll) /\ JsRowOK(OnToggleShownStateForAllAppWindows) /\
      JsRowOK(OnRegisterWindowMangerCallback) /\ JsRowOK(OnUnregisterWindowManagerCallback) /\
      JsRowOK(OnSetWindowLayoutMode)
  BY JsAsyncOK DEF OnFindWindow, OnMinimizeAll, OnToggleShownStateForAllAppWindows, OnRegisterWindowMangerCallback,
      OnUnregisterWindowManagerCallback, OnSetWindowLayoutMode
<1>2. JsRowOK(OnGetDefaultDisplaySync) /\ JsRowOK(OnRegisterDisplayManagerCallback) /\
      JsRowOK(OnUnregisterDisplayManagerCallback) /\ JsRowOK(OnHasPrivateWindow) /\ JsRowOK(OnGetAllScreens) /\
      JsRowOK(OnRegisterScreenMangerCallback)
  BY JsAsyncOK DEF OnGetDefaultDisplaySync, OnRegisterDisplayManagerCallback, OnUnregisterDisplayManagerCallback,
      OnHasPrivateWindow, OnGetAllScreens, OnRegisterScreenMangerCallback
<1>3. JsRowOK(OnUnregisterScreenManagerCallback) /\ JsRowOK(OnMakeMirror) /\ JsRowOK(OnMakeExpand) /\
      JsRowOK(OnCreateVirtualScreen) /\ JsRowOK(OnDestroyVirtualScreen) /\ JsRowOK(OnSetVirtualScreenSurface)
  BY JsAsyncOK DEF OnUnregisterScreenManagerCallback, OnMakeMirror, OnMakeExpand, OnCreateVirtualScreen,
      OnDestroyVirtualScreen, OnSetVirtualScreenSurface
<1>4. JsRowOK(OnIsScreenRotationLocked) /\ JsRowOK(OnSetScreenRotationLocked) /\ JsRowOK(OnGetVirtualScreenRecorder)
  BY JsAsyncOK DEF OnIsScreenRotationLocked, OnSetScreenRotationLocked, OnGetVirtualScreenRecorder
<1>5. JsRowOK(OnCreateWindow)
  BY DEF OnCreateWindow, JsRowOK, JsRows, Async, Bare, Manager
<1>6. JsRowOK(OnGetTopWindow)
  BY DEF OnGetTopWindow, JsRowOK, JsRows, Async, Bare, Manager
<1>7. JsRowOK(OnGetDefaultDisplay)
  BY DEF OnGetDefaultDisplay, JsRowOK, JsRows, Async, Twice, Manager
<1>8. JsRowOK(OnGetAllDisplay)
  BY DEF OnGetAllDisplay, JsRowOK, JsRows, Async, Twice, Manager
<1>9. JsRowOK(OnGetCutoutInfo)
  BY DEF OnGetCutoutInfo, JsRowOK, JsRows, Async, Bare, Manager
<1>10. JsRowOK(OnSetOrientation)
  BY DEF OnSetOrientation, JsRowOK, JsRows, Async, Bare, Manager
<1>11. JsRowOK(OnSetScreenActiveMode)
  BY DEF OnSetScreenActiveMode, JsRowOK, JsRows, Async, Bare, Manager
<1>12. JsRowOK(OnSetDensityDpi)
  BY DEF OnSetDensityDpi, JsRowOK, JsRows, Async, Bare, Manager
<1>13. JsRowOK(OnGetInputSurface)
  BY DEF OnGetInputSurface, JsRowOK, JsRows, Async, Bare, Manager
<1>14. JsRowOK(OnStart)
  BY DEF OnStart, JsRowOK, JsRows, Async, Bare, Manager
<1>15. JsRowOK(OnStop)
  BY DEF OnStop, JsRowOK, JsRows, Async, Bare, Manager
<1> QED BY <1>1, <1>2, <1>3, <1>4, <1>5, <1>6, <1>7, <1>8, <1>9, <1>10, <1>11, <1>12, <1>13, <1>14, <1>15 DEF
      JsManagerFunctions

-----------------------------------------------------------------------------
(* The promises of the tasks. *)
JsTask == [row : JsRows, weak : {"none", "window", "old"}, own : BOOLEAN, bad : {"no", "argc", "value"},
           pc : {"pending", "first", "running", "done"}, settled : Nat, ok : BOOLEAN]

JsTaskOK(t) == /\ t \in JsTask /\ JsRowOK(t.row) /\ t.row.async
               /\ t.pc = "pending" => t.settled = 0
               /\ t.pc \in {"first", "running"} => t.settled = 0 \/ (t.settled = 1 /\ t.row.twice)
               /\ t.pc = "done" => t.settled >= 1
               /\ ~t.row.twice => t.settled <= 1
JsGoodTasks == {t \in JsTask : JsTaskOK(t)}

JsInv == /\ JsRowOK(jsRow) /\ jsToken \in {"none", "window", "old"}
         /\ jsTasks \in Seq(JsGoodTasks)

LEMMA JsInitOK == JsInit => JsInv
<1> SUFFICES ASSUME JsInit PROVE JsInv
  OBVIOUS
<1>1. JsRowOK(jsRow)
  BY JsBindOK, JsStageOK, JsManagerOK DEF JsInit
<1> QED BY <1>1 DEF JsInit, JsInv

LEMMA JsScriptCalls == ASSUME JsInv PROVE \A r \in ScriptCalls : JsRowOK(r)
BY JsBindOK DEF JsInv, ScriptCalls, BindFunctions

(* a step that changes one task *)
LEMMA JsOneTask ==
    ASSUME JsInv, NEW i \in 1 .. Len(jsTasks), NEW t, JsTaskOK(t), jsTasks' = [jsTasks EXCEPT ![i] = t]
    PROVE  jsTasks' \in Seq(JsGoodTasks)
<1>1. t \in JsGoodTasks
  BY DEF JsTaskOK, JsGoodTasks
<1> QED BY <1>1 DEF JsInv

LEMMA JsTaskIs == ASSUME JsInv, NEW i \in 1 .. Len(jsTasks) PROVE JsTaskOK(jsTasks[i])
<1>1. jsTasks[i] \in JsGoodTasks
  BY DEF JsInv
<1> QED BY <1>1 DEF JsGoodTasks

LEMMA JsSettlesTask ==
    ASSUME JsInv, NEW i \in 1 .. Len(jsTasks), jsTasks[i].pc # "done", jsTasks[i].settled = 0 \/ jsTasks[i].row.twice,
           NEW ok \in BOOLEAN, Settles(i, ok)
    PROVE  jsTasks' \in Seq(JsGoodTasks)
<1> DEFINE t == jsTasks[i]
<1>1. JsTaskOK(t) /\ t \in JsTask
  BY JsTaskIs DEF JsTaskOK
<1> DEFINE u == Settled(t, ok)
<1>2. jsTasks' = [jsTasks EXCEPT ![i] = u]
  BY DEF Settles
<1>3. u \in JsTask /\ u.row = t.row /\ u.pc = "done" /\ u.settled = t.settled + 1
  <2>1. t.settled + 1 \in Nat
    BY <1>1 DEF JsTask
  <2> QED BY <1>1, <2>1 DEF JsTask, Settled
<1>4. JsTaskOK(u)
  BY <1>1, <1>3 DEF JsTaskOK, JsTask
<1> HIDE DEF u
<1> QED BY <1>2, <1>4, JsOneTask

LEMMA JsRunsTask ==
    ASSUME JsInv, NEW i \in 1 .. Len(jsTasks), NEW pc \in {"first", "running", "done"}, NEW settled \in Nat,
           jsTasks[i].pc # "done", pc = "done" => settled >= 1,
           settled = 0 \/ ((pc = "done" \/ settled = 1) /\ jsTasks[i].row.twice), Runs(i, pc, settled)
    PROVE  jsTasks' \in Seq(JsGoodTasks)
<1> DEFINE t == jsTasks[i]
<1>1. JsTaskOK(t) /\ t \in JsTask
  BY JsTaskIs DEF JsTaskOK
<1> DEFINE u == [t EXCEPT !.pc = pc, !.settled = settled]
<1>2. jsTasks' = [jsTasks EXCEPT ![i] = u]
  BY DEF Runs
<1>3. u \in JsTask /\ u.row = t.row /\ u.pc = pc /\ u.settled = settled
  BY <1>1 DEF JsTask
<1>4. JsTaskOK(u)
  BY <1>1, <1>3 DEF JsTaskOK, JsTask
<1> HIDE DEF u
<1> QED BY <1>2, <1>4, JsOneTask

LEMMA JsFrame ==
    ASSUME JsInv, UNCHANGED jsRow, jsToken' \in {"none", "window", "old"}, jsTasks' \in Seq(JsGoodTasks)
    PROVE  JsInv'
BY DEF JsInv

LEMMA JsCallOK == ASSUME JsInv, JsCall PROVE JsInv'
<1>1. PICK row \in {r \in ScriptCalls : r.async}, args \in {"argc", "value", "no"} :
         LET null == jsToken = "none"
             bad  == IF args = "no" /\ row.check = "call" /\ null THEN "value" ELSE args IN
         jsTasks' = Append(jsTasks, [row |-> row, weak |-> jsToken, own |-> TRUE, bad |-> bad,
                                     pc |-> "pending", settled |-> 0, ok |-> FALSE])
  BY DEF JsCall
<1>2. JsRowOK(row) /\ row.async
  BY JsScriptCalls
<1> DEFINE bad == IF args = "no" /\ row.check = "call" /\ jsToken = "none" THEN "value" ELSE args
           t   == [row |-> row, weak |-> jsToken, own |-> TRUE, bad |-> bad, pc |-> "pending", settled |-> 0, ok |-> FALSE]
<1>3. t \in JsGoodTasks
  <2>1. t \in JsTask
    BY <1>2 DEF JsTask, JsRowOK, JsInv
  <2>2. JsTaskOK(t)
    BY <1>2, <2>1 DEF JsTaskOK
  <2> QED BY <2>1, <2>2 DEF JsGoodTasks
<1>4. jsTasks' \in Seq(JsGoodTasks)
  BY <1>1, <1>3 DEF JsInv
<1> QED BY <1>4 DEF JsInv, JsCall

LEMMA JsForgetOK == ASSUME JsInv, ForgetTask PROVE JsInv'
<1>1. PICK i \in 1 .. Len(jsTasks) :
         jsTasks' = [j \in 1 .. Len(jsTasks) - 1 |-> jsTasks[IF j < i THEN j ELSE j + 1]]
  BY DEF ForgetTask
<1>2. jsTasks \in Seq(JsGoodTasks) /\ Len(jsTasks) \in Nat
  BY DEF JsInv
<1>3. \A j \in 1 .. Len(jsTasks) - 1 : jsTasks[IF j < i THEN j ELSE j + 1] \in JsGoodTasks
  BY <1>2
<1>4. jsTasks' \in [1 .. Len(jsTasks) - 1 -> JsGoodTasks] /\ Len(jsTasks) - 1 \in Nat
  BY <1>1, <1>2, <1>3
<1>5. jsTasks' \in Seq(JsGoodTasks)
  BY <1>4
<1> QED BY <1>5 DEF JsInv, ForgetTask

LEMMA JsRunOK == ASSUME JsInv, NEW i \in 1 .. Len(jsTasks), JsRun(i) PROVE JsInv'
<1> DEFINE t == jsTasks[i]
<1>1. PICK there \in BOOLEAN : JsReject(i, there) \/ JsRejectAndGoOn(i, there) \/ JsAnswer(i, there) \/ JsStart(i, there)
  BY DEF JsRun
<1>2. t.pc = "pending" /\ UNCHANGED <<jsRow, jsToken>> /\ jsToken' \in {"none", "window", "old"}
  BY DEF JsRun, JsInv
<1>3. JsTaskOK(t) /\ JsRowOK(t.row) /\ t.settled = 0
  BY <1>2, JsTaskIs DEF JsTaskOK
<1>4. CASE JsReject(i, there)
  BY <1>2, <1>3, <1>4, JsSettlesTask, JsFrame DEF JsReject
<1>5. CASE JsRejectAndGoOn(i, there)
  <2>1. t.row.twice /\ (Runs(i, "first", 1) \/ Runs(i, "done", 2))
    BY <1>3, <1>5 DEF JsRowOK, JsRejectAndGoOn
  <2> QED BY <1>2, <2>1, JsRunsTask, JsFrame
<1>6. CASE JsAnswer(i, there)
  <2>1. PICK ok \in BOOLEAN : Settles(i, ok \/ ~t.row.heeds)
    BY <1>6 DEF JsAnswer
  <2>2. (ok \/ ~t.row.heeds) \in BOOLEAN
    OBVIOUS
  <2> QED BY <1>2, <1>3, <2>1, <2>2, JsSettlesTask, JsFrame
<1>7. CASE JsStart(i, there)
  <2>1. Runs(i, Running(t.row.op), 0) /\ Running(t.row.op) \in {"first", "running"}
    BY <1>7 DEF JsStart, Running
  <2> QED BY <1>2, <2>1, JsRunsTask, JsFrame
<1> QED BY <1>1, <1>4, <1>5, <1>6, <1>7

LEMMA JsSecondBarOK == ASSUME JsInv, NEW i \in 1 .. Len(jsTasks), JsSecondBar(i) PROVE JsInv'
<1>1. jsTasks[i].pc = "first" /\ Runs(i, "running", jsTasks[i].settled) /\ UNCHANGED <<jsRow, jsToken>>
  BY DEF JsSecondBar
<1>2. jsTasks[i].settled \in Nat /\ (jsTasks[i].settled = 0 \/ (jsTasks[i].settled = 1 /\ jsTasks[i].row.twice))
  BY <1>1, JsTaskIs DEF JsTaskOK, JsTask
<1>3. jsTasks' \in Seq(JsGoodTasks)
  BY <1>1, <1>2, JsRunsTask
<1> QED BY <1>1, <1>3 DEF JsInv

LEMMA JsSettleOK == ASSUME JsInv, NEW i \in 1 .. Len(jsTasks), JsSettle(i) PROVE JsInv'
<1>1. jsTasks[i].pc = "running" /\ UNCHANGED jsRow /\ jsToken' \in {"none", "window", "old"}
  BY DEF JsSettle, JsInv
<1>2. PICK ok \in BOOLEAN : Settles(i, ok)
  BY DEF JsSettle
<1>3. jsTasks[i].settled = 0 \/ jsTasks[i].row.twice
  BY <1>1, JsTaskIs DEF JsTaskOK
<1> QED BY <1>1, <1>2, <1>3, JsSettlesTask, JsFrame

LEMMA JsObjectOK == ASSUME JsInv, CreateJsWindowObject PROVE JsInv'
<1>1. UNCHANGED jsRow /\ jsToken' = "window"
      /\ jsTasks' = [i \in 1 .. Len(jsTasks) |-> [jsTasks[i] EXCEPT !.own = FALSE]]
  BY DEF CreateJsWindowObject
<1>2. jsTasks \in Seq(JsGoodTasks) /\ Len(jsTasks) \in Nat
  BY DEF JsInv
<1>3. ASSUME NEW i \in 1 .. Len(jsTasks) PROVE jsTasks'[i] \in JsGoodTasks
  <2> DEFINE t == jsTasks[i]
             u == [t EXCEPT !.own = FALSE]
  <2>1. jsTasks'[i] = u
    BY <1>1
  <2>2. JsTaskOK(t) /\ t \in JsTask
    BY JsTaskIs DEF JsTaskOK
  <2>3. u \in JsTask /\ u.row = t.row /\ u.pc = t.pc /\ u.settled = t.settled
    BY <2>2 DEF JsTask
  <2>4. JsTaskOK(u)
    BY <2>2, <2>3 DEF JsTaskOK
  <2> QED BY <2>1, <2>3, <2>4 DEF JsGoodTasks
<1>4. jsTasks' \in [1 .. Len(jsTasks) -> JsGoodTasks]
  BY <1>1, <1>3
<1>5. jsTasks' \in Seq(JsGoodTasks)
  BY <1>2, <1>4
<1> QED BY <1>1, <1>5, JsFrame

LEMMA JsNativeOK == ASSUME JsInv, JsNative PROVE JsInv'
<1>1. UNCHANGED jsRow /\ jsToken' \in {"none", "window", "old"}
  BY DEF JsNative, JsInv
<1>2. CASE UNCHANGED jsTasks
  BY <1>1, <1>2 DEF JsInv
<1>3. CASE jsTasks' = [i \in 1 .. Len(jsTasks) |-> [jsTasks[i] EXCEPT !.weak = IF @ = "window" THEN "old" ELSE @]]
  <2>1. jsTasks \in Seq(JsGoodTasks) /\ Len(jsTasks) \in Nat
    BY DEF JsInv
  <2>2. ASSUME NEW i \in 1 .. Len(jsTasks) PROVE jsTasks'[i] \in JsGoodTasks
    <3> DEFINE t == jsTasks[i]
               u == [t EXCEPT !.weak = IF t.weak = "window" THEN "old" ELSE t.weak]
    <3>1. jsTasks'[i] = u
      BY <1>3
    <3>2. JsTaskOK(t) /\ t \in JsTask
      BY JsTaskIs DEF JsTaskOK
    <3>3. u \in JsTask /\ u.row = t.row /\ u.pc = t.pc /\ u.settled = t.settled
      BY <3>2 DEF JsTask
    <3>4. JsTaskOK(u)
      BY <3>2, <3>3 DEF JsTaskOK
    <3> QED BY <3>1, <3>3, <3>4 DEF JsGoodTasks
  <2>3. jsTasks' \in [1 .. Len(jsTasks) -> JsGoodTasks]
    BY <1>3, <2>2
  <2>4. jsTasks' \in Seq(JsGoodTasks)
    BY <2>1, <2>3
  <2> QED BY <1>1, <2>4 DEF JsInv
<1> QED BY <1>2, <1>3 DEF JsNative

LEMMA JsStepOK == JsInv /\ [JsNext]_<<jsVars, wcVars>> => JsInv'
<1> SUFFICES ASSUME JsInv, [JsNext]_<<jsVars, wcVars>> PROVE JsInv'
  OBVIOUS
<1>1. CASE CreateJsWindowObject \/ ReplaceNative \/ Finalizer \/ JsWorld
  BY <1>1, JsObjectOK DEF ReplaceNative, Finalizer, JsWorld, JsInv
<1>2. CASE ForgetTask
  BY <1>2, JsForgetOK
<1>3. CASE JsCall
  BY <1>3, JsCallOK
<1>4. CASE JsCallSync
  BY <1>4 DEF JsCallSync, JsInv
<1>5. CASE JsNative
  BY <1>5, JsNativeOK
<1>6. ASSUME NEW i \in 1 .. JsTasksMax, JsTaskStep(i) PROVE JsInv'
  <2>1. i \in 1 .. Len(jsTasks)
    BY <1>6 DEF JsTaskStep, JsInv
  <2> QED BY <1>6, <2>1, JsRunOK, JsSecondBarOK, JsSettleOK DEF JsTaskStep
<1>7. CASE UNCHANGED jsVars
  BY <1>7 DEF jsVars, JsInv
<1> QED BY <1>1, <1>2, <1>3, <1>4, <1>5, <1>6, <1>7 DEF JsNext, JsWindowStep

LEMMA JsInvSays == JsInv => JsSettlesOnce
BY JsTaskIs DEF JsSettlesOnce, JsTaskOK

(* the window of the script is the one window, and stays it *)
LEMMA JsOfKept == [JsNext]_<<jsVars, wcVars>> => UNCHANGED wcOf
<1> SUFFICES ASSUME [JsNext]_<<jsVars, wcVars>> PROVE UNCHANGED wcOf
  OBVIOUS
<1> USE DEF wcVars, wcClient, wcChosen
<1>1. CASE CreateJsWindowObject \/ ForgetTask \/ JsCall \/ ReplaceNative \/ Finalizer
  BY <1>1 DEF CreateJsWindowObject, ForgetTask, JsCall, ReplaceNative, Finalizer
<1>2. \A w, from, value : Set(w, value, from) => UNCHANGED wcOf
  BY DEF Set
<1>3. \A w, from, reason : Show(w, reason, from) \/ Hide(w, reason, from) => UNCHANGED wcOf
  BY DEF Show, Hide, Quiet
<1>4. \A w, from : Create(w, from) \/ Destroy(w, from) => UNCHANGED wcOf
  BY DEF Create, Destroy
<1>5. CASE JsCallSync
  BY <1>2, <1>5 DEF JsCallSync
<1>6. CASE JsNative
  BY <1>3, <1>4, <1>6 DEF JsNative
<1>7. \A op \in Calls : \A i, weak : Begins(op, i, weak) => UNCHANGED wcOf
  BY <1>2, <1>3, <1>4 DEF Begins, Calls
<1>8. ASSUME NEW i, JsTaskStep(i) PROVE UNCHANGED wcOf
  <2>1. CASE JsRun(i)
    <3>1. \A there : JsReject(i, there) \/ JsAnswer(i, there) => UNCHANGED wcOf
      BY DEF JsReject, JsAnswer
    <3>2. \A there : JsRejectAndGoOn(i, there) => UNCHANGED wcOf
      BY <1>7 DEF JsRejectAndGoOn, Calls
    <3>3. \A there : JsStart(i, there) => UNCHANGED wcOf
      BY <1>7 DEF JsStart
    <3> QED BY <2>1, <3>1, <3>2, <3>3 DEF JsRun
  <2>2. CASE JsSecondBar(i)
    BY <1>2, <1>7, <2>2 DEF JsSecondBar, Calls
  <2>3. CASE JsSettle(i)
    BY <2>3 DEF JsSettle
  <2> QED BY <1>8, <2>1, <2>2, <2>3 DEF JsTaskStep
<1>9. CASE WcStep
  <2>1. CASE WcServe \/ WcRefuse \/ WcDone
    BY <2>1 DEF WcServe, WcRefuse, WcDone
  <2>2. CASE ReturnCreate \/ ReturnShow \/ ReturnHide \/ ReturnSet
    BY <2>2 DEF ReturnCreate, ReturnShow, ReturnHide, ReturnSet
  <2>3. CASE ReturnDestroy \/ DestroyNextFloat
    BY <2>3 DEF ReturnDestroy, DestroyNextFloat, Forgets
  <2> QED BY <1>9, <2>1, <2>2, <2>3 DEF WcStep, WcReturn
<1>10. CASE JsWorld
  <2>1. CASE WcDialogGoes \/ WcStateSent \/ WcServiceDies \/ WcServiceRestarts
    BY <2>1 DEF WcDialogGoes, WcStateSent, WcServiceDies, WcServiceRestarts
  <2>2. CASE WcReceive
    BY <2>2 DEF WcReceive, NotifyDestroy, UpdateWindowState, Forgets
  <2> QED BY <1>10, <2>1, <2>2 DEF JsWorld, WcWorld
<1> QED BY <1>1, <1>5, <1>6, <1>8, <1>9, <1>10 DEF JsNext, JsWindowStep

LEMMA JsBeginsOK ==
    ASSUME WcInv, WcResting, wcOf # "none", NEW op \in Calls, NEW i, NEW weak, Begins(op, i, weak)
    PROVE  WcInv'
<1>1. wcOf \in wcUsed /\ op # "none"
  BY DEF WcInv, WcMapInv, WcTypeOK, Calls
<1>2. CASE weak = "old"
  BY <1>1, <1>2, WcEndsOK DEF Begins, JsOf
<1>3. CASE weak # "old"
  <2>1. Show(wcOf, "NORMAL", i) \/ Hide(wcOf, "NORMAL", i) \/ Destroy(wcOf, i) \/ Set(wcOf, 1, i)
    BY <1>3 DEF Begins, JsOf, Calls
  <2> QED BY <1>1, <2>1, WcShowOK, WcHideOK, WcDestroyOK, WcSetOK
<1> QED BY <1>2, <1>3

JsClientInv == WcInv /\ wcOf # "none"

LEMMA JsClientOK == JsClientInv /\ [JsNext]_<<jsVars, wcVars>> => JsClientInv'
<1> SUFFICES ASSUME WcInv, wcOf # "none", [JsNext]_<<jsVars, wcVars>> PROVE WcInv'
  BY JsOfKept DEF JsClientInv
<1>1. CASE UNCHANGED wcVars
  BY <1>1, WcStutters
<1>2. CASE CreateJsWindowObject \/ ForgetTask \/ JsCall \/ ReplaceNative \/ Finalizer
  BY <1>1, <1>2 DEF CreateJsWindowObject, ForgetTask, JsCall, ReplaceNative, Finalizer
<1>3. WcIdle => WcResting
  BY DEF WcIdle, NoWcCall, WcResting
<1>4. wcOf \in wcUsed
  BY DEF WcInv, WcMapInv, WcTypeOK
<1>5. CASE JsCallSync
  <2>1. WcIdle /\ (UNCHANGED wcVars \/ Set(wcOf, 1, Native))
    BY <1>5 DEF JsCallSync, JsOf
  <2> QED BY <1>1, <1>3, <2>1, WcSetOK
<1>6. CASE JsNative
  <2>1. WcIdle /\ (Create(wcOf, Native) \/ Show(wcOf, "NORMAL", Native) \/ Destroy(wcOf, Native))
    BY <1>6 DEF JsNative, JsOf
  <2> QED BY <1>3, <1>4, <2>1, WcCreateOK, WcShowOK, WcDestroyOK
<1>7. ASSUME NEW i, JsTaskStep(i) PROVE WcInv'
  <2>1. CASE JsRun(i)
    <3>1. PICK there \in BOOLEAN : JsReject(i, there) \/ JsRejectAndGoOn(i, there) \/ JsAnswer(i, there) \/ JsStart(i, there)
      BY <2>1 DEF JsRun
    <3>2. WcResting
      BY <1>3, <2>1 DEF JsRun
    <3>3. CASE JsReject(i, there) \/ JsAnswer(i, there)
      BY <1>1, <3>3 DEF JsReject, JsAnswer
    <3>4. CASE JsRejectAndGoOn(i, there)
      BY <1>1, <3>2, <3>4, JsBeginsOK DEF JsRejectAndGoOn, Calls
    <3>5. CASE JsStart(i, there)
      BY <3>2, <3>5, JsBeginsOK DEF JsStart
    <3> QED BY <3>1, <3>3, <3>4, <3>5
  <2>2. CASE JsSecondBar(i)
    <3>1. WcResting /\ "set" \in Calls /\ (Begins("set", i, jsTasks[i].weak) \/ Set(wcOf, 0, i))
      BY <2>2 DEF JsSecondBar, JsReturned, WcResting, Calls, JsOf
    <3> QED BY <1>4, <3>1, JsBeginsOK, WcSetOK
  <2>3. CASE JsSettle(i)
    <3>1. WcResting /\ wcCall' = NoWcCall /\ UNCHANGED <<wcClient, wcService>>
      BY <2>3 DEF JsSettle, JsReturned, WcResting
    <3> QED BY <3>1, WcDoneOK
  <2> QED BY <1>7, <2>1, <2>2, <2>3 DEF JsTaskStep
<1>8. CASE WcStep \/ JsWorld
  BY <1>8, WcStepsOK, WcDialogGoesOK, WcStateSentOK, WcReceiveOK, WcServiceDiesOK, WcServiceRestartsOK DEF JsWorld, WcWorld
<1>9. CASE UNCHANGED <<jsVars, wcVars>>
  BY <1>1, <1>9
<1> QED BY <1>2, <1>5, <1>6, <1>7, <1>8, <1>9 DEF JsNext, JsWindowStep

-----------------------------------------------------------------------------
(* The names and the answers of hide and destroy. *)

(* a shown window takes itself to be hidden only while its show is answered *)
JsHidden == /\ wcServer[wcOf] = "shown" /\ wcState[wcOf] \in {"HIDDEN", "CREATED"} => Answered("show")
            /\ WcOn("hide", {"return", "done"}) /\ wcCall.ret = "OK" => wcServer[wcOf] # "shown"

(* a call of the window begins: nothing the service or the map has is changed *)
Begun(op, from) ==
    /\ wcCall'.op = op /\ wcCall'.from = from /\ wcCall'.pc \in {"server", "done"}
    /\ UNCHANGED <<wcMap, wcServer, wcOf>>
    /\ wcState'[wcOf] \in {wcState[wcOf], "INITIAL"}
    /\ op = "hide" /\ wcCall'.pc = "done" /\ wcCall'.ret = "OK" => wcState[wcOf] \in {"HIDDEN", "CREATED"}

LEMMA JsNativeBegun ==
    ASSUME WcInv, wcOf # "none", NEW from
    PROVE  /\ Create(wcOf, from) => Begun("create", from)
           /\ Show(wcOf, "NORMAL", from) => Begun("show", from)
           /\ Hide(wcOf, "NORMAL", from) => Begun("hide", from)
           /\ Destroy(wcOf, from) => /\ Begun("destroy", from)
                                     /\ wcCall'.pc = "done" => ~IsWindowValid(wcOf)
           /\ \A value : Set(wcOf, value, from) => Begun("set", from)
<1> USE DEF Begun, Ends, Goes, wcClient, wcService, wcChosen
<1>1. Create(wcOf, from) => Begun("create", from)
  <2>1. wcOf \in WcWindows /\ wcState \in [WcWindows -> WcStates]
    BY DEF WcInv, WcMapInv, WcTypeOK
  <2> QED BY <2>1 DEF Create, Sets
<1>2. Show(wcOf, "NORMAL", from) => Begun("show", from)
  BY DEF Show, Quiet
<1>3. Hide(wcOf, "NORMAL", from) => Begun("hide", from)
  BY DEF Hide, Quiet
<1>4. Destroy(wcOf, from) => Begun("destroy", from) /\ (wcCall'.pc = "done" => ~IsWindowValid(wcOf))
  BY DEF Destroy
<1>5. ASSUME NEW value, Set(wcOf, value, from) PROVE Begun("set", from)
  BY <1>5 DEF Set
<1> QED BY <1>1, <1>2, <1>3, <1>4, <1>5

LEMMA JsTaskBegun ==
    ASSUME WcInv, wcOf # "none", NEW op \in Calls, NEW i, NEW weak, Begins(op, i, weak)
    PROVE  /\ Begun(wcCall'.op, i) /\ wcCall'.op = (IF op = "bars" /\ weak # "old" THEN "set" ELSE op)
           /\ op = "destroy" /\ weak # "old" /\ wcCall'.pc = "done" => ~IsWindowValid(wcOf)
<1>1. CASE weak = "old"
  <2>1. Ends(op, wcOf, IF op = "destroy" THEN "OK" ELSE "INVALID_WINDOW", i) /\ UNCHANGED <<wcClient, wcService>>
    BY <1>1 DEF Begins, JsOf
  <2> QED BY <1>1, <2>1 DEF Begun, Ends, Goes, wcClient, wcService, wcChosen
<1>2. CASE weak # "old"
  <2>1. CASE op = "show"
    <3>1. Show(wcOf, "NORMAL", i)
      BY <1>2, <2>1 DEF Begins, JsOf
    <3> QED BY <2>1, <3>1, JsNativeBegun DEF Begun
  <2>2. CASE op = "hide"
    <3>1. Hide(wcOf, "NORMAL", i)
      BY <1>2, <2>2 DEF Begins, JsOf
    <3> QED BY <2>2, <3>1, JsNativeBegun DEF Begun
  <2>3. CASE op = "destroy"
    <3>1. Destroy(wcOf, i)
      BY <1>2, <2>3 DEF Begins, JsOf
    <3> QED BY <1>2, <2>3, <3>1, JsNativeBegun DEF Begun
  <2>4. CASE op \in {"set", "bars"}
    <3>1. Set(wcOf, 1, i)
      BY <1>2, <2>4 DEF Begins, JsOf
    <3> QED BY <1>2, <2>4, <3>1, JsNativeBegun DEF Begun
  <2> QED BY <2>1, <2>2, <2>3, <2>4 DEF Calls
<1> QED BY <1>1, <1>2

LEMMA JsHiddenBegun ==
    ASSUME JsHidden, WcResting, NEW op, NEW from, Begun(op, from)
    PROVE  JsHidden'
<1>1. ~Answered("show")
  BY WcRestFacts
<1>2. ~(wcServer[wcOf] = "shown" /\ wcState[wcOf] \in {"HIDDEN", "CREATED"})
  BY <1>1 DEF JsHidden
<1> QED BY <1>2 DEF JsHidden, Begun, WcOn, Answered

(* steps that keep the answer or take the window away *)
LEMMA JsHiddenKept ==
    ASSUME JsHidden, UNCHANGED wcOf, wcState'[wcOf] \in {wcState[wcOf], "SHOWN", "FROZEN", "DESTROYED"},
           wcServer'[wcOf] \in {wcServer[wcOf], "none"},
           Answered("show") => Answered("show")' \/ wcState'[wcOf] \notin {"HIDDEN", "CREATED"},
           WcOn("hide", {"return", "done"})' /\ wcCall'.ret = "OK" => WcOn("hide", {"return", "done"}) /\ wcCall.ret = "OK"
    PROVE  JsHidden'
BY DEF JsHidden

(* the end of a call of the one window: it may be destroyed, nothing else *)
LEMMA WcForgetsOne ==
    ASSUME WcInv, wcOf # "none", NEW ws, Forgets(ws)
    PROVE  /\ UNCHANGED wcOf /\ wcState'[wcOf] \in {wcState[wcOf], "DESTROYED"} /\ wcMap' \subseteq wcMap
           /\ wcOf \in wcMap /\ wcOf \notin wcMap' => wcState'[wcOf] = "DESTROYED"
<1>1. wcOf \in WcWindows
  BY DEF WcInv, WcMapInv, WcTypeOK
<1> QED BY <1>1 DEF Forgets, wcChosen

LEMMA JsHiddenStep == ASSUME WcInv, wcOf # "none", JsHidden, WcStep PROVE JsHidden'
<1>1. /\ wcUsed = {wcOf} /\ wcOf \in WcWindows /\ WcCallOK
      /\ wcState \in [WcWindows -> WcStates] /\ wcServer \in [WcWindows -> {"none", "created", "shown"}]
  BY DEF WcInv, WcMapInv, WcTypeOK
<1>2. wcCall.op # "none" => wcCall.w = wcOf
  BY <1>1 DEF WcCallOK, NoWcCall
<1>3. CASE WcServe
  <2>1. UNCHANGED wcOf /\ UNCHANGED wcState /\ wcCall' = [wcCall EXCEPT !.pc = "return"] /\ wcCall.op # "none"
        /\ wcCall.pc = "server" /\ wcCall.ret = "OK" /\ wcCall.w = wcOf /\ wcCall.op \in WcOps
    BY <1>1, <1>2, <1>3 DEF WcServe, WcWaits, wcClient, wcChosen, WcCallOK, NoWcCall
  <2>2. wcCall'.op = wcCall.op /\ wcCall'.pc = "return" /\ wcCall'.ret = "OK"
    BY <1>1, <2>1 DEF WcCallOK, NoWcCall
  <2>3. CASE wcCall.op = "create"
    <3>1. wcState[wcOf] = "INITIAL"
      BY <2>1, <2>3 DEF WcInv, WcMapInv, WcWaiting, WcWaitsFor, WcOn
    <3> QED BY <2>1, <2>2, <2>3, <3>1 DEF JsHidden, WcOn
  <2>4. CASE wcCall.op = "show"
    BY <2>1, <2>2, <2>4 DEF JsHidden, WcOn, Answered
  <2>5. CASE wcCall.op = "set"
    <3>1. UNCHANGED wcServer
      BY <1>3, <2>5 DEF WcServe
    <3> QED BY <2>1, <2>2, <2>5, <3>1 DEF JsHidden, WcOn, Answered
  <2>6. CASE wcCall.op = "hide"
    <3>1. wcServer'[wcOf] = "created"
      BY <1>1, <1>3, <2>1, <2>6 DEF WcServe
    <3> QED BY <2>1, <3>1 DEF JsHidden
  <2>7. CASE wcCall.op = "destroy"
    <3>1. wcServer'[wcOf] = "none"
      BY <1>1, <1>3, <2>1, <2>7 DEF WcServe
    <3> QED BY <2>1, <3>1 DEF JsHidden
  <2> QED BY <2>1, <2>3, <2>4, <2>5, <2>6, <2>7 DEF WcOps
<1>4. CASE WcRefuse
  <2>1. wcCall'.ret = "ERROR" /\ UNCHANGED <<wcOf, wcState, wcServer>> /\ ~Answered("show")
    BY <1>1, <1>4 DEF WcRefuse, WcWaits, WcCallOK, NoWcCall, wcClient, wcService, wcChosen, Answered, WcOn
  <2> QED BY <2>1 DEF JsHidden, WcOn
<1>5. CASE ReturnCreate
  <2>1. wcCall.op = "create" /\ wcCall'.op = "create" /\ UNCHANGED <<wcOf, wcServer>> /\ ~Answered("show")
    BY <1>1, <1>5 DEF ReturnCreate, WcReturns, Finished, WcCallOK, NoWcCall, wcClient, wcService, wcChosen, Answered, WcOn
  <2>2. wcServer[wcOf] # "shown"
    BY <1>5 DEF WcInv, WcAgree, WcWaitsFor, WcOn, ReturnCreate, WcReturns
  <2> QED BY <2>1, <2>2 DEF JsHidden, WcOn
<1>6. CASE ReturnShow
  <2>1. /\ wcCall'.op = "show" /\ UNCHANGED <<wcOf, wcServer>> /\ wcCall.w = wcOf
        /\ wcCall.ret = "OK" => wcState'[wcOf] = "SHOWN"
        /\ wcCall.ret # "OK" => UNCHANGED wcState
    BY <1>1, <1>2, <1>6 DEF ReturnShow, WcReturns, Finished, WcCallOK, NoWcCall, Sets, wcClient, wcService, wcChosen
  <2> QED BY <2>1 DEF JsHidden, WcOn, Answered
<1>7. CASE ReturnHide
  <2>1. /\ wcCall.op = "hide" /\ wcCall.pc = "return" /\ wcCall'.op = "hide" /\ wcCall'.ret = wcCall.ret
        /\ UNCHANGED <<wcOf, wcServer>> /\ (wcCall.ret # "OK" => UNCHANGED wcState)
    BY <1>1, <1>7 DEF ReturnHide, WcReturns, Finished, WcCallOK, NoWcCall, wcClient, wcService, wcChosen
  <2> QED BY <2>1 DEF JsHidden, WcOn, Answered
<1>8. CASE ReturnSet
  <2>1. wcCall.op = "set" /\ wcCall'.op = "set" /\ UNCHANGED <<wcOf, wcServer, wcState>>
    BY <1>1, <1>8 DEF ReturnSet, WcReturns, WcCallOK, NoWcCall, wcService, wcChosen
  <2> QED BY <2>1 DEF JsHidden, WcOn, Answered
<1>9. CASE ReturnDestroy
  <2>1. wcCall.op = "destroy" /\ wcCall'.op = "destroy" /\ UNCHANGED <<wcOf, wcServer>>
    BY <1>1, <1>9 DEF ReturnDestroy, WcReturns, Finished, WcCallOK, NoWcCall, wcClient, wcService, wcChosen, Forgets
  <2>2. wcState'[wcOf] \in {wcState[wcOf], "DESTROYED"}
    BY <1>1, <1>9 DEF ReturnDestroy, wcClient, Forgets
  <2> QED BY <2>1, <2>2, JsHiddenKept DEF WcOn, Answered
<1>10. CASE DestroyNextFloat
  <2>1. wcCall.op = "destroy" /\ wcCall'.op = "destroy"
    BY <1>1, <1>10 DEF DestroyNextFloat, Finished, WcCallOK, NoWcCall
  <2>2. PICK f : \/ /\ wcServer' = [wcServer EXCEPT ![f] = "none"]
                    /\ Forgets({f, wcCall.w} \cup DestroyDialogWindow(wcCall.w)) \/ Forgets({f})
                 \/ UNCHANGED <<wcClient, wcServer>>
    BY <1>10 DEF DestroyNextFloat
  <2>3. UNCHANGED wcOf /\ wcState'[wcOf] \in {wcState[wcOf], "DESTROYED"} /\ wcServer'[wcOf] \in {wcServer[wcOf], "none"}
    BY <1>1, <2>2, WcForgetsOne DEF wcClient, wcChosen
  <2> QED BY <2>1, <2>3, JsHiddenKept DEF WcOn, Answered
<1>11. CASE WcDone
  <2>1. wcCall' = NoWcCall /\ wcCall.pc = "done" /\ UNCHANGED <<wcOf, wcState, wcServer>>
    BY <1>11 DEF WcDone, wcClient, wcService, wcChosen
  <2> QED BY <2>1, JsHiddenKept DEF WcOn, Answered, NoWcCall
<1> QED BY <1>3, <1>4, <1>5, <1>6, <1>7, <1>8, <1>9, <1>10, <1>11 DEF WcStep, WcReturn

(* what the service sends and does on its own *)
LEMMA WcWorldOne ==
    ASSUME WcInv, wcOf # "none", WcWorld
    PROVE  /\ UNCHANGED <<wcOf, wcCall>> /\ wcMap' \subseteq wcMap
           /\ wcState'[wcOf] \in {wcState[wcOf], "SHOWN", "FROZEN", "DESTROYED"}
           /\ wcServer'[wcOf] \in {wcServer[wcOf], "none"}
           /\ wcOf \in wcMap /\ wcOf \notin wcMap' => IsWindowValid(wcOf) /\ wcState'[wcOf] = "DESTROYED"
<1>1. /\ wcOf \in WcWindows /\ wcState \in [WcWindows -> WcStates]
      /\ wcServer \in [WcWindows -> {"none", "created", "shown"}]
  BY DEF WcInv, WcMapInv, WcTypeOK
<1>2. CASE WcDialogGoes \/ WcStateSent \/ WcServiceDies \/ WcServiceRestarts
  BY <1>1, <1>2 DEF WcDialogGoes, WcStateSent, WcServiceDies, WcServiceRestarts, wcClient, wcChosen
<1>3. CASE WcReceive
  <2>1. UNCHANGED <<wcCall, wcServer>>
    BY <1>3 DEF WcReceive
  <2>2. PICK w : NotifyDestroy(w) \/ \E state : UpdateWindowState(w, state)
    BY <1>3 DEF WcReceive
  <2>3. CASE UNCHANGED wcClient
    BY <2>1, <2>3 DEF wcClient, wcChosen
  <2>4. CASE IsWindowValid(w) /\ Forgets({w})
    <3>1. wcOf \in wcMap /\ wcOf \notin wcMap' => w = wcOf
      BY <2>4 DEF Forgets
    <3> QED BY <2>1, <2>4, <3>1, WcForgetsOne
  <2>5. CASE \E state : Sets(w, IF state = "FROZEN" THEN "FROZEN" ELSE "SHOWN") /\ UNCHANGED <<wcMap, wcChosen>>
    <3>1. wcState'[wcOf] \in {wcState[wcOf], "SHOWN", "FROZEN"} /\ UNCHANGED <<wcMap, wcOf>>
      BY <1>1, <2>5 DEF Sets, wcChosen
    <3> QED BY <2>1, <3>1
  <2> QED BY <2>2, <2>3, <2>4, <2>5 DEF NotifyDestroy, UpdateWindowState
<1> QED BY <1>2, <1>3 DEF WcWorld

LEMMA JsHiddenWorld == ASSUME WcInv, wcOf # "none", JsHidden, WcWorld PROVE JsHidden'
<1>1. UNCHANGED wcCall /\ UNCHANGED wcOf
  BY WcWorldOne
<1>2. Answered("show")' = Answered("show") /\ WcOn("hide", {"return", "done"})' = WcOn("hide", {"return", "done"})
  BY <1>1 DEF Answered, WcOn
<1> QED BY <1>1, <1>2, WcWorldOne, JsHiddenKept

(* a step of a call keeps the caller; only a destroy takes the name away, and one
   that is done leaves nothing                                                  *)
LEMMA WcStepOne ==
    ASSUME WcInv, wcOf # "none", WcStep
    PROVE  /\ UNCHANGED wcOf
           /\ \/ wcCall' = NoWcCall /\ wcCall.from = Native
              \/ wcCall'.op = wcCall.op /\ wcCall'.from = wcCall.from /\ wcCall.op # "none" /\ wcCall.pc # "done"
           /\ wcOf \in wcMap /\ wcOf \notin wcMap' => wcCall.op = "destroy" /\ wcCall.pc # "done"
           /\ WcOn("destroy", {"done"})' /\ wcCall'.ret = "OK" => wcServer'[wcOf] = "none" /\ wcOf \notin wcMap'
<1>1. /\ wcUsed = {wcOf} /\ wcOf \in WcWindows /\ WcCallOK
      /\ wcServer \in [WcWindows -> {"none", "created", "shown"}]
  BY DEF WcInv, WcMapInv, WcTypeOK
<1>2. wcCall.op # "none" => wcCall.w = wcOf
  BY <1>1 DEF WcCallOK, NoWcCall
<1>3. CASE WcServe
  <2>1. UNCHANGED <<wcOf, wcMap>> /\ wcCall' = [wcCall EXCEPT !.pc = "return"] /\ wcCall.op # "none" /\ wcCall.pc = "server"
    BY <1>3 DEF WcServe, WcWaits, wcClient, wcChosen
  <2> QED BY <1>1, <2>1 DEF WcCallOK, WcOn, NoWcCall
<1>4. CASE WcRefuse
  <2>1. UNCHANGED <<wcOf, wcMap>> /\ wcCall' = [wcCall EXCEPT !.pc = "return", !.ret = "ERROR"]
        /\ wcCall.op # "none" /\ wcCall.pc = "server"
    BY <1>4 DEF WcRefuse, WcWaits, wcClient, wcChosen
  <2> QED BY <1>1, <2>1 DEF WcCallOK, WcOn, NoWcCall
<1>5. CASE ReturnCreate \/ ReturnShow \/ ReturnHide \/ ReturnSet
  <2>1. UNCHANGED wcOf /\ wcMap \subseteq wcMap' /\ wcCall.op \in {"create", "show", "hide", "set"} /\ wcCall.pc = "return"
    BY <1>5 DEF ReturnCreate, ReturnShow, ReturnHide, ReturnSet, WcReturns, wcClient, wcChosen
  <2>2. wcCall'.op = wcCall.op /\ wcCall'.from = wcCall.from
    BY <1>1, <1>5, <2>1 DEF ReturnCreate, ReturnShow, ReturnHide, ReturnSet, Finished, WcCallOK, NoWcCall
  <2> QED BY <2>1, <2>2 DEF WcOn
<1>6. CASE ReturnDestroy
  <2>1. UNCHANGED <<wcOf, wcServer>> /\ wcCall.op = "destroy" /\ wcCall.pc = "return" /\ wcCall.w = wcOf
    BY <1>2, <1>6 DEF ReturnDestroy, WcReturns, wcClient, wcService, wcChosen, Forgets
  <2>2. wcCall'.op = wcCall.op /\ wcCall'.from = wcCall.from /\ wcCall'.ret = wcCall.ret
    BY <1>1, <1>6, <2>1 DEF ReturnDestroy, Finished, WcCallOK, NoWcCall
  <2>3. wcCall.ret = "OK" => wcServer[wcOf] = "none"
    BY <2>1 DEF WcInv, WcHeld, Answered, WcOn
  <2>4. wcCall.ret = "OK" => wcOf \notin wcMap'
    BY <1>6, <2>1 DEF ReturnDestroy, Forgets
  <2> QED BY <2>1, <2>2, <2>3, <2>4 DEF WcOn
<1>7. CASE DestroyNextFloat
  <2>1. wcCall.op = "destroy" /\ wcCall.pc = "floats" /\ wcCall'.op = wcCall.op /\ wcCall'.from = wcCall.from
    BY <1>1, <1>7 DEF DestroyNextFloat, Finished, WcCallOK, NoWcCall
  <2>2. PICK f : \/ /\ wcServer' = [wcServer EXCEPT ![f] = "none"]
                    /\ Forgets({f, wcCall.w} \cup DestroyDialogWindow(wcCall.w)) \/ Forgets({f})
                 \/ UNCHANGED <<wcClient, wcServer>>
    BY <1>7 DEF DestroyNextFloat
  <2>3. wcOf \notin wcMap
    BY <1>2, <2>1 DEF WcInv, WcMapInv, WcUnder, WcOn
  <2>4. wcServer[wcOf] = "none"
    BY <1>1, <2>1, <2>3 DEF WcInv, WcHeld, Answered, WcOn
  <2>5. UNCHANGED wcOf /\ wcMap' \subseteq wcMap /\ wcServer'[wcOf] \in {wcServer[wcOf], "none"}
    BY <1>1, <2>2, WcForgetsOne DEF wcClient, wcChosen
  <2> QED BY <2>1, <2>3, <2>4, <2>5
<1>8. CASE WcDone
  <2>1. wcCall' = NoWcCall /\ wcCall.from = Native /\ UNCHANGED <<wcOf, wcMap>>
    BY <1>8 DEF WcDone, wcClient, wcChosen
  <2> QED BY <2>1 DEF WcOn, NoWcCall
<1> QED BY <1>3, <1>4, <1>5, <1>6, <1>7, <1>8 DEF WcStep, WcReturn

(* the call of a task belongs to it *)
JsLinked == \/ wcCall.op = "none" \/ wcCall.from = Native
            \/ /\ wcCall.from \in 1 .. Len(jsTasks)
               /\ jsTasks[wcCall.from].pc \in {"first", "running"}
               /\ jsTasks[wcCall.from].pc = "first" => jsTasks[wcCall.from].row.op = "bars"
               /\ jsTasks[wcCall.from].row.op \in {"hide", "destroy"} => wcCall.op = jsTasks[wcCall.from].row.op
JsNamed == jsObject = "mapped" /\ ~jsLeft
OldCall == wcCall.from \in 1 .. Len(jsTasks) /\ jsTasks[wcCall.from].weak = "old"
(* an object whose name leads to its window loses the name before a destroy of the
   window begins; a task of it holds no other window; a destroy leaves nothing    *)
JsNameKept == JsNamed => jsToken = "window" /\ wcOf \in wcMap
JsNameGoes == JsNamed /\ wcCall.op = "destroy" => wcCall.pc = "done" /\ OldCall
JsOwn      == \A i \in 1 .. Len(jsTasks) : jsTasks[i].own => jsTasks[i].weak \in {"none", jsToken} \/ jsToken = "none"
JsGone     == WcOn("destroy", {"done"}) /\ wcCall.ret = "OK" /\ ~OldCall => wcServer[wcOf] = "none" /\ wcOf \notin wcMap
JsNames    == JsLinked /\ JsNameKept /\ JsNameGoes /\ JsOwn /\ JsGone

(* steps of the script between calls that leave the window alone *)
LEMMA JsNamesIdle ==
    ASSUME WcIdle, UNCHANGED wcVars, JsNameKept', JsOwn' PROVE JsNames'
BY DEF WcIdle, NoWcCall, wcVars, JsNames, JsLinked, JsNameGoes, JsGone, WcOn

LEMMA JsNamesClientStep == ASSUME WcInv, wcOf # "none", JsNames, JsWindowStep PROVE JsNames'
<1>1. WcStep /\ UNCHANGED <<jsToken, jsTasks, jsObject, jsLeft>>
  BY DEF JsWindowStep, jsVars, jsMap
<1>2. JsOwn' /\ (JsNamed' <=> JsNamed)
  BY <1>1 DEF JsNames, JsOwn, JsNamed
<1>3. JsNameKept'
  BY <1>1, <1>2, WcStepOne DEF JsNames, JsNameKept, JsNameGoes
<1>4. CASE wcCall' = NoWcCall
  BY <1>2, <1>3, <1>4 DEF JsNames, JsLinked, JsNameGoes, JsGone, WcOn, NoWcCall
<1>5. CASE wcCall'.op = wcCall.op /\ wcCall'.from = wcCall.from /\ wcCall.op # "none" /\ wcCall.pc # "done"
  <2>1. JsLinked' /\ JsNameGoes'
    BY <1>1, <1>2, <1>5 DEF JsNames, JsLinked, JsNameGoes, OldCall
  <2>2. JsGone'
    BY <1>1, WcStepOne DEF JsGone
  <2> QED BY <1>2, <1>3, <2>1, <2>2 DEF JsNames
<1> QED BY <1>1, <1>4, <1>5, WcStepOne

LEMMA JsNamesWorld == ASSUME WcInv, wcOf # "none", JsNames, JsWorld PROVE JsNames'
<1>1. WcWorld /\ UNCHANGED <<jsToken, jsObject, jsTasks>> /\ jsLeft' = (jsLeft \/ (Listened /\ wcState'[wcOf] = "DESTROYED"))
  BY DEF JsWorld, JsOf
<1>2. UNCHANGED wcCall /\ UNCHANGED wcOf /\ (OldCall' <=> OldCall)
  BY <1>1, WcWorldOne DEF OldCall
<1>3. JsLinked' /\ JsOwn' /\ (JsNamed' => JsNamed)
  BY <1>1, <1>2 DEF JsNames, JsLinked, JsOwn, JsNamed
<1>4. JsNameGoes'
  BY <1>2, <1>3 DEF JsNames, JsNameGoes
<1>5. JsGone'
  BY <1>1, <1>2, WcWorldOne DEF JsNames, JsGone, WcOn
<1>6. JsNameKept'
  <2> SUFFICES ASSUME JsNamed' PROVE jsToken = "window" /\ wcOf \in wcMap'
    BY <1>1, <1>2 DEF JsNameKept
  <2>1. jsToken = "window" /\ wcOf \in wcMap /\ jsObject = "mapped" /\ ~jsLeft'
    BY <1>1, <1>3 DEF JsNames, JsNameKept, JsNamed
  <2>2. CASE wcOf \notin wcMap'
    <3>1. IsWindowValid(wcOf) /\ wcState'[wcOf] = "DESTROYED"
      BY <1>1, <2>1, <2>2, WcWorldOne
    <3>2. Listened
      BY <2>1, <3>1 DEF Listened, JsOf
    <3> QED BY <1>1, <2>1, <3>1, <3>2
  <2> QED BY <2>1, <2>2
<1> QED BY <1>3, <1>4, <1>5, <1>6 DEF JsNames

LEMMA JsNamesScript ==
    ASSUME JsInv, JsNames, CreateJsWindowObject \/ JsCall \/ ReplaceNative \/ Finalizer \/ ForgetTask
    PROVE  JsNames'
<1>1. /\ jsTasks \in Seq(JsGoodTasks) /\ Len(jsTasks) \in Nat
      /\ \A i \in 1 .. Len(jsTasks) : jsTasks[i] \in JsTask
  BY JsTaskIs DEF JsInv, JsTaskOK
<1>2. CASE CreateJsWindowObject
  <2>1. /\ WcIdle /\ UNCHANGED wcVars /\ wcOf \in wcMap /\ jsToken' = "window"
        /\ jsTasks' = [i \in 1 .. Len(jsTasks) |-> [jsTasks[i] EXCEPT !.own = FALSE]]
    BY <1>2 DEF CreateJsWindowObject, JsOf
  <2>2. ASSUME NEW i \in 1 .. Len(jsTasks') PROVE ~jsTasks'[i].own
    BY <1>1, <2>1 DEF JsTask
  <2>3. JsOwn' /\ JsNameKept'
    BY <2>1, <2>2 DEF JsOwn, JsNameKept, wcVars
  <2> QED BY <2>1, <2>3, JsNamesIdle
<1>3. CASE JsCall
  <2>1. /\ WcIdle /\ UNCHANGED wcVars /\ UNCHANGED <<jsToken, jsObject, jsLeft>>
        /\ \E t : jsTasks' = Append(jsTasks, t) /\ t.weak = jsToken
    BY <1>3 DEF JsCall, jsMap
  <2>2. JsNameKept'
    BY <2>1 DEF JsNames, JsNameKept, JsNamed, wcVars
  <2>3. JsOwn'
    BY <1>1, <2>1 DEF JsNames, JsOwn
  <2> QED BY <2>1, <2>2, <2>3, JsNamesIdle
<1>4. CASE ReplaceNative \/ Finalizer
  <2>1. UNCHANGED <<jsTasks, wcVars>> /\ jsToken' \in {jsToken, "none"} /\ ~JsNamed'
    BY <1>4 DEF ReplaceNative, Finalizer, Unmapped, JsNamed
  <2>2. OldCall' <=> OldCall
    BY <2>1 DEF OldCall, wcVars
  <2>3. JsOwn' /\ JsLinked' /\ JsGone'
    BY <2>1, <2>2 DEF JsNames, JsOwn, JsLinked, JsGone, WcOn, wcVars
  <2> QED BY <2>1, <2>3 DEF JsNames, JsNameKept, JsNameGoes
<1>5. CASE ForgetTask
  <2>1. PICK i \in 1 .. Len(jsTasks) :
           jsTasks' = [j \in 1 .. Len(jsTasks) - 1 |-> jsTasks[IF j < i THEN j ELSE j + 1]]
    BY <1>5 DEF ForgetTask
  <2>2. UNCHANGED wcVars /\ UNCHANGED <<jsToken, jsObject, jsLeft>>
        /\ \A j \in 1 .. Len(jsTasks) : jsTasks[j].pc \in {"pending", "done"}
    BY <1>5 DEF ForgetTask, jsMap
  <2>3. wcCall.op = "none" \/ wcCall.from = Native
    BY <2>2 DEF JsNames, JsLinked
  <2>4. wcCall.op # "none" => ~OldCall /\ ~OldCall'
    BY <2>2, <2>3 DEF OldCall, Native, wcVars
  <2>5. Len(jsTasks') = Len(jsTasks) - 1
    BY <1>1, <2>1
  <2>6. ASSUME NEW j \in 1 .. Len(jsTasks') PROVE \E k \in 1 .. Len(jsTasks) : jsTasks'[j] = jsTasks[k]
    <3>1. j \in 1 .. Len(jsTasks) - 1
      BY <2>5
    <3>2. (IF j < i THEN j ELSE j + 1) \in 1 .. Len(jsTasks)
      BY <1>1, <3>1
    <3>3. jsTasks'[j] = jsTasks[IF j < i THEN j ELSE j + 1]
      BY <2>1, <3>1
    <3> QED BY <3>2, <3>3
  <2>7. JsOwn'
    BY <2>2, <2>6 DEF JsNames, JsOwn
  <2>8. JsLinked' /\ JsNameKept' /\ JsNameGoes' /\ JsGone'
    BY <2>2, <2>3, <2>4 DEF JsNames, JsLinked, JsNameKept, JsNameGoes, JsNamed, JsGone, WcOn, wcVars
  <2> QED BY <2>7, <2>8 DEF JsNames
<1> QED BY <1>2, <1>3, <1>4, <1>5

(* a call begins that is no destroy *)
LEMMA JsNamesBegun ==
    ASSUME JsNames, NEW op, op # "destroy", NEW from, Begun(op, from), JsOwn', UNCHANGED <<jsToken, jsObject, jsLeft>>,
           JsLinked'
    PROVE  JsNames'
BY DEF JsNames, JsNameKept, JsNameGoes, JsNamed, JsGone, Begun, WcOn

(* a destroy begins: what the name led to is out of the map, or another window is meant *)
LEMMA JsNamesDestroyed ==
    ASSUME WcInv, wcOf # "none", WcIdle, JsNames, NEW from, NEW weak \in {"window", "old"}, Begun("destroy", from),
           LeavesMap("destroy", weak), UNCHANGED jsToken, JsOwn', JsLinked',
           weak = "window" /\ wcCall'.pc = "done" => ~IsWindowValid(wcOf),
           weak = "old" => wcCall'.pc = "done" /\ OldCall'
    PROVE  JsNames'
<1>1. WcResting /\ wcOf \in WcWindows
  BY DEF WcIdle, NoWcCall, WcResting, WcInv, WcMapInv, WcTypeOK
<1>2. UNCHANGED <<wcOf, wcMap, wcServer>>
  BY DEF Begun
<1>3. wcOf \in wcMap => IsWindowValid(wcOf)
  BY <1>1, WcRestIs DEF WcAtRest
<1>4. CASE weak = "old"
  <2>1. UNCHANGED <<jsObject, jsLeft>>
    BY <1>4 DEF LeavesMap, jsMap
  <2> QED BY <1>2, <1>4, <2>1 DEF JsNames, JsNameKept, JsNameGoes, JsNamed, JsGone
<1>5. CASE weak = "window"
  <2>1. ~JsNamed'
    <3>1. CASE Listened
      BY <1>5, <3>1 DEF LeavesMap, Unmapped, JsNamed
    <3>2. CASE ~Listened
      BY <1>3, <1>5, <3>2 DEF LeavesMap, jsMap, JsNames, JsNameKept, JsNamed, Listened, JsOf
    <3> QED BY <3>1, <3>2
  <2>2. wcCall'.pc = "done" => wcOf \notin wcMap /\ wcServer[wcOf] = "none"
    <3>1. ~Answered("create")
      BY <1>1, WcRestFacts
    <3> QED BY <1>3, <1>5, <3>1 DEF WcInv, WcHeld
  <2> QED BY <1>2, <2>1, <2>2 DEF JsNames, JsNameKept, JsNameGoes, JsGone, WcOn
<1> QED BY <1>4, <1>5

LEMMA JsNamesNative == ASSUME WcInv, wcOf # "none", JsInv, JsNames, JsNative \/ JsCallSync PROVE JsNames'
<1>1. WcIdle
  BY DEF JsNative, JsCallSync
<1>2. \A op : Begun(op, Native) => JsLinked'
  BY DEF Begun, JsLinked
<1>3. CASE JsCallSync
  <2>1. UNCHANGED <<jsToken, jsObject, jsLeft, jsTasks>> /\ (UNCHANGED wcVars \/ Set(wcOf, 1, Native))
    BY <1>3 DEF JsCallSync, jsMap, JsOf
  <2>2. JsOwn'
    BY <2>1 DEF JsNames, JsOwn
  <2>3. CASE UNCHANGED wcVars
    BY <1>1, <2>1, <2>2, <2>3, JsNamesIdle DEF JsNames, JsNameKept, JsNamed, wcVars
  <2>4. CASE Set(wcOf, 1, Native)
    BY <1>2, <2>1, <2>2, <2>4, JsNativeBegun, JsNamesBegun
  <2> QED BY <2>1, <2>3, <2>4
<1>4. CASE JsNative /\ wcOf \notin wcMap /\ Create(wcOf, Native)
  <2>2. Begun("create", Native)
    BY <1>4, JsNativeBegun
  <2>0. ~Show(wcOf, "NORMAL", Native) /\ ~Destroy(wcOf, Native)
    BY <2>2, JsNativeBegun DEF Begun
  <2>1. /\ UNCHANGED <<jsObject, jsLeft>>
        /\ jsToken' = (IF jsToken = "window" THEN "old" ELSE jsToken)
        /\ jsTasks' = [i \in 1 .. Len(jsTasks) |-> [jsTasks[i] EXCEPT !.weak = IF @ = "window" THEN "old" ELSE @]]
    BY <1>4, <2>0 DEF JsNative, jsMap, JsOf
  <2>3. ~JsNamed' /\ UNCHANGED <<wcOf, wcMap>>
    BY <1>4, <2>1, <2>2 DEF JsNames, JsNameKept, JsNamed, Begun
  <2>4. JsOwn'
    <3>1. \A i \in 1 .. Len(jsTasks) : jsTasks[i] \in JsTask
      BY JsTaskIs DEF JsTaskOK
    <3>2. Len(jsTasks) \in Nat
      BY DEF JsInv
    <3>3. ASSUME NEW i \in 1 .. Len(jsTasks') 
          PROVE  /\ i \in 1 .. Len(jsTasks) /\ jsTasks'[i].own = jsTasks[i].own
                 /\ jsTasks'[i].weak = (IF jsTasks[i].weak = "window" THEN "old" ELSE jsTasks[i].weak)
      BY <2>1, <2>2, <3>1, <3>2 DEF JsTask, Begun
    <3> QED BY <2>1, <2>2, <3>3 DEF JsNames, JsOwn, Begun
  <2>5. JsNameGoes' /\ JsGone' /\ JsNameKept'
    BY <2>2, <2>3 DEF JsNameGoes, JsGone, JsNameKept, WcOn, Begun
  <2> QED BY <1>2, <2>2, <2>4, <2>5 DEF JsNames
<1>5. CASE JsNative /\ Show(wcOf, "NORMAL", Native)
  <2>1. Begun("show", Native)
    BY <1>5, JsNativeBegun
  <2>2. UNCHANGED <<jsObject, jsLeft, jsToken, jsTasks>>
    BY <1>5, <2>1, JsNativeBegun DEF JsNative, jsMap, JsOf, Begun
  <2> QED BY <1>2, <2>1, <2>2, JsNamesBegun DEF JsNames, JsOwn
<1>6. CASE JsNative /\ Destroy(wcOf, Native)
  <2>1. Begun("destroy", Native) /\ (wcCall'.pc = "done" => ~IsWindowValid(wcOf))
    BY <1>6, JsNativeBegun
  <2>2. LeavesMap("destroy", "window") /\ UNCHANGED <<jsToken, jsTasks>>
    BY <1>6, <2>1, JsNativeBegun DEF JsNative, JsOf, Begun
  <2> QED BY <1>1, <1>2, <2>1, <2>2, JsNamesDestroyed DEF JsNames, JsOwn
<1> QED BY <1>3, <1>4, <1>5, <1>6 DEF JsNative, JsOf

(* what a step of one task keeps of the tasks *)
LEMMA JsRunsKeeps ==
    ASSUME JsInv, NEW i \in 1 .. Len(jsTasks), NEW pc, NEW settled, Runs(i, pc, settled)
    PROVE  /\ Len(jsTasks') = Len(jsTasks) /\ jsTasks'[i].pc = pc
           /\ \A j \in 1 .. Len(jsTasks) : /\ jsTasks'[j].own = jsTasks[j].own /\ jsTasks'[j].weak = jsTasks[j].weak
                                           /\ jsTasks'[j].row = jsTasks[j].row
                                           /\ j # i => jsTasks'[j] = jsTasks[j]
<1>1. jsTasks \in Seq(JsGoodTasks) /\ \A j \in 1 .. Len(jsTasks) : jsTasks[j] \in JsTask
  BY JsTaskIs DEF JsInv, JsTaskOK
<1>2. jsTasks' = [jsTasks EXCEPT ![i] = [jsTasks[i] EXCEPT !.pc = pc, !.settled = settled]]
  BY DEF Runs
<1> QED BY <1>1, <1>2 DEF JsTask

LEMMA JsSettlesKeeps ==
    ASSUME JsInv, NEW i \in 1 .. Len(jsTasks), NEW ok, Settles(i, ok)
    PROVE  /\ Len(jsTasks') = Len(jsTasks) /\ jsTasks'[i].weak = "none" /\ jsTasks'[i].ok = ok
           /\ \A j \in 1 .. Len(jsTasks) : j # i => jsTasks'[j] = jsTasks[j]
<1>1. jsTasks \in Seq(JsGoodTasks) /\ \A j \in 1 .. Len(jsTasks) : jsTasks[j] \in JsTask
  BY JsTaskIs DEF JsInv, JsTaskOK
<1>2. jsTasks' = [jsTasks EXCEPT ![i] = Settled(jsTasks[i], ok)]
  BY DEF Settles
<1>3. Settled(jsTasks[i], ok).weak = "none" /\ Settled(jsTasks[i], ok).ok = ok
  BY <1>1 DEF Settled, JsTask
<1> QED BY <1>1, <1>2, <1>3

LEMMA JsNamesRun ==
    ASSUME WcInv, wcOf # "none", JsInv, JsNames, NEW i \in 1 .. Len(jsTasks), JsRun(i) PROVE JsNames'
<1> DEFINE t == jsTasks[i]
<1>1. PICK there \in BOOLEAN :
         /\ IF t.row.check = "none" THEN there
            ELSE (there => MayPromote(t)) /\ (MustPromote(t) => there)
         /\ JsReject(i, there) \/ JsRejectAndGoOn(i, there) \/ JsAnswer(i, there) \/ JsStart(i, there)
  BY DEF JsRun
<1>2. WcIdle /\ UNCHANGED jsToken /\ t \in JsTask /\ JsRowOK(t.row) /\ t.row.async
  BY JsTaskIs DEF JsRun, JsTaskOK
<1>3. CASE JsReject(i, there) \/ JsAnswer(i, there)
  <2>1. UNCHANGED wcVars /\ UNCHANGED <<jsObject, jsLeft>> /\ \E ok : Settles(i, ok)
    BY <1>3 DEF JsReject, JsAnswer, jsMap
  <2>2. JsOwn'
    BY <1>2, <2>1, JsSettlesKeeps DEF JsNames, JsOwn
  <2>3. JsNameKept'
    BY <1>2, <2>1 DEF JsNames, JsNameKept, JsNamed, wcVars
  <2> QED BY <1>2, <2>1, <2>2, <2>3, JsNamesIdle
<1>4. \A pc, settled : Runs(i, pc, settled) => JsOwn'
  BY <1>2, JsRunsKeeps DEF JsNames, JsOwn
<1>5. ASSUME NEW op \in Calls, NEW pc \in {"first", "running"}, NEW settled, Runs(i, pc, settled), Begun(wcCall'.op, i),
             t.row.op \in {"hide", "destroy"} => wcCall'.op = t.row.op, pc = "first" => t.row.op = "bars"
      PROVE  JsLinked'
  BY <1>5, JsRunsKeeps DEF JsLinked, Begun
<1>6. CASE JsRejectAndGoOn(i, there)
  <2>1. UNCHANGED <<jsObject, jsLeft>>
    BY <1>6 DEF JsRejectAndGoOn, jsMap
  <2>2. CASE t.row.op = "bars" /\ Runs(i, "first", 1) /\ Begins("bars", i, t.weak)
    <3>1. Begun(wcCall'.op, i) /\ wcCall'.op \in {"set", "bars"}
      BY <2>2, JsTaskBegun DEF Calls
    <3>2. JsLinked'
      BY <1>5, <2>2, <3>1 DEF Calls
    <3> QED BY <1>2, <1>4, <2>1, <2>2, <3>1, <3>2, JsNamesBegun
  <2>3. CASE Runs(i, "done", 2) /\ UNCHANGED wcVars
    BY <1>2, <1>4, <2>1, <2>3, JsNamesIdle DEF JsNames, JsNameKept, JsNamed, wcVars
  <2> QED BY <1>6, <2>2, <2>3 DEF JsRejectAndGoOn
<1>7. CASE JsStart(i, there)
  <2> DEFINE op == t.row.op
  <2>1. op \in Calls /\ there /\ Runs(i, Running(op), 0) /\ LeavesMap(op, t.weak) /\ Begins(op, i, t.weak)
    BY <1>7 DEF JsStart
  <2>2. /\ Begun(wcCall'.op, i) /\ wcCall'.op = (IF op = "bars" /\ t.weak # "old" THEN "set" ELSE op)
        /\ op = "destroy" /\ t.weak # "old" /\ wcCall'.pc = "done" => ~IsWindowValid(wcOf)
    BY <2>1, JsTaskBegun
  <2>3. Running(op) \in {"first", "running"} /\ (Running(op) = "first" => op = "bars")
    BY DEF Running
  <2>4. JsLinked'
    BY <1>5, <2>1, <2>2, <2>3
  <2>5. JsOwn'
    BY <1>4, <2>1
  <2>6. CASE op # "destroy"
    <3>1. UNCHANGED <<jsObject, jsLeft>> /\ wcCall'.op # "destroy"
      BY <2>1, <2>2, <2>6 DEF LeavesMap, jsMap
    <3> QED BY <1>2, <2>2, <2>4, <2>5, <3>1, JsNamesBegun
  <2>7. CASE op = "destroy"
    <3>1. t.weak \in {"window", "old"}
      BY <1>1, <1>2, <2>1, <2>7 DEF JsRowOK, MayPromote, JsTask
    <3>2. t.weak = "old" => wcCall'.pc = "done" /\ OldCall'
      <4>1. t.weak = "old" => wcCall'.pc = "done"
        BY <2>1, <2>7 DEF Begins, Ends, Goes
      <4>2. wcCall'.from = i /\ i \in 1 .. Len(jsTasks') /\ jsTasks'[i].weak = t.weak
        BY <2>1, <2>2, JsRunsKeeps DEF Begun
      <4> QED BY <4>1, <4>2 DEF OldCall
    <3>3. Begun("destroy", i) /\ LeavesMap("destroy", t.weak)
      BY <2>1, <2>2, <2>7
    <3> HIDE DEF t
    <3> QED BY <1>2, <2>2, <2>4, <2>5, <2>7, <3>1, <3>2, <3>3, JsNamesDestroyed
  <2> QED BY <2>6, <2>7
<1> QED BY <1>1, <1>3, <1>6, <1>7

LEMMA JsNamesSecondBar ==
    ASSUME WcInv, wcOf # "none", JsInv, JsNames, NEW i \in 1 .. Len(jsTasks), JsSecondBar(i) PROVE JsNames'
<1>1. /\ wcCall.op # "none" /\ wcCall.from = i /\ UNCHANGED <<jsToken, jsObject, jsLeft>>
      /\ Runs(i, "running", jsTasks[i].settled) /\ (Begins("set", i, jsTasks[i].weak) \/ Set(wcOf, 0, i))
  BY DEF JsSecondBar, JsReturned, jsMap, JsOf
<1>2. Begun("set", i)
  BY <1>1, JsTaskBegun, JsNativeBegun DEF Calls
<1>3. JsOwn'
  BY <1>1, JsRunsKeeps DEF JsNames, JsOwn
<1>4. jsTasks[i].row.op = "bars"
  <2>1. jsTasks[i].pc = "first" /\ i # Native
    BY DEF JsSecondBar, Native
  <2> QED BY <1>1, <2>1 DEF JsNames, JsLinked
<1>5. JsLinked'
  BY <1>1, <1>2, <1>4, JsRunsKeeps DEF JsLinked, Begun
<1> QED BY <1>1, <1>2, <1>3, <1>5, JsNamesBegun

LEMMA JsNamesSettle ==
    ASSUME WcInv, wcOf # "none", JsInv, JsNames, NEW i \in 1 .. Len(jsTasks), JsSettle(i) PROVE JsNames'
<1> DEFINE t == jsTasks[i]
           ends == t.row.op = "destroy" /\ wcCall.ret = "OK"
<1>1. /\ wcCall.op # "none" /\ wcCall.from = i /\ wcCall.pc = "done" /\ UNCHANGED <<jsObject, jsLeft, wcOf, wcMap>>
      /\ wcCall' = NoWcCall
      /\ jsToken' = IF ends /\ t.own /\ jsObject # "gone" THEN "none" ELSE jsToken
  BY DEF JsSettle, JsReturned, wcClient, wcChosen
<1>2. \E ok : Settles(i, ok)
  BY DEF JsSettle
<1>3. JsOwn'
  BY <1>1, <1>2, JsSettlesKeeps DEF JsNames, JsOwn
<1>4. ASSUME JsNamed PROVE ~(ends /\ t.own)
  <2> SUFFICES ASSUME ends, t.own PROVE FALSE
    OBVIOUS
  <2>1. wcCall.op = "destroy"
    BY <1>1 DEF JsNames, JsLinked, Native
  <2>2. t.weak = "old" /\ jsToken = "window"
    BY <1>1, <1>4, <2>1 DEF JsNames, JsNameGoes, JsNameKept, OldCall
  <2> QED BY <2>2 DEF JsNames, JsOwn
<1>5. JsNameKept'
  BY <1>1, <1>4 DEF JsNames, JsNameKept, JsNamed
<1> QED BY <1>1, <1>3, <1>5 DEF JsNames, JsLinked, JsNameGoes, JsGone, WcOn, NoWcCall

JsScriptInv == JsInv /\ WcInv /\ wcOf # "none" /\ JsHidden /\ JsNames

LEMMA JsHiddenOK == ASSUME JsScriptInv, JsNext PROVE JsHidden'
<1> USE DEF JsScriptInv
<1>1. WcIdle => WcResting
  BY DEF WcIdle, NoWcCall, WcResting
<1>2. CASE UNCHANGED wcVars
  BY <1>2 DEF JsHidden, WcOn, Answered, wcVars
<1>3. CASE CreateJsWindowObject \/ ForgetTask \/ JsCall \/ ReplaceNative \/ Finalizer
  BY <1>2, <1>3 DEF CreateJsWindowObject, ForgetTask, JsCall, ReplaceNative, Finalizer
<1>4. CASE JsCallSync \/ JsNative
  <2>1. WcIdle /\ \/ UNCHANGED wcVars \/ Set(wcOf, 1, Native)
                  \/ Create(wcOf, Native) \/ Show(wcOf, "NORMAL", Native) \/ Destroy(wcOf, Native)
    BY <1>4 DEF JsCallSync, JsNative, JsOf
  <2> QED BY <1>1, <1>2, <2>1, JsNativeBegun, JsHiddenBegun
<1>5. ASSUME NEW i, JsTaskStep(i) PROVE JsHidden'
  <2>1. ASSUME WcResting, NEW op \in Calls, NEW weak, Begins(op, i, weak) PROVE JsHidden'
    BY <2>1, JsTaskBegun, JsHiddenBegun
  <2>2. CASE JsRun(i)
    <3>1. PICK there \in BOOLEAN : JsReject(i, there) \/ JsRejectAndGoOn(i, there) \/ JsAnswer(i, there) \/ JsStart(i, there)
      BY <2>2 DEF JsRun
    <3>2. WcResting
      BY <1>1, <2>2 DEF JsRun
    <3>3. CASE JsReject(i, there) \/ JsAnswer(i, there)
      BY <1>2, <3>3 DEF JsReject, JsAnswer
    <3>4. CASE JsRejectAndGoOn(i, there)
      BY <1>2, <2>1, <3>2, <3>4 DEF JsRejectAndGoOn, Calls
    <3>5. CASE JsStart(i, there)
      BY <2>1, <3>2, <3>5 DEF JsStart
    <3> QED BY <3>1, <3>3, <3>4, <3>5
  <2>3. CASE JsSecondBar(i)
    <3>1. WcResting /\ "set" \in Calls /\ (Begins("set", i, jsTasks[i].weak) \/ Set(wcOf, 0, i))
      BY <2>3 DEF JsSecondBar, JsReturned, WcResting, Calls, JsOf
    <3> QED BY <2>1, <3>1, JsNativeBegun, JsHiddenBegun
  <2>4. CASE JsSettle(i)
    <3>1. wcCall' = NoWcCall /\ wcCall.pc = "done" /\ UNCHANGED <<wcOf, wcState, wcServer>>
      BY <2>4 DEF JsSettle, JsReturned, wcClient, wcService, wcChosen
    <3> QED BY <3>1, JsHiddenKept DEF WcOn, Answered, NoWcCall
  <2> QED BY <1>5, <2>2, <2>3, <2>4 DEF JsTaskStep
<1>6. CASE JsWindowStep \/ JsWorld
  BY <1>6, JsHiddenStep, JsHiddenWorld DEF JsWindowStep, JsWorld
<1> QED BY <1>3, <1>4, <1>5, <1>6 DEF JsNext

LEMMA JsNamesOK == ASSUME JsScriptInv, JsNext PROVE JsNames'
<1> USE DEF JsScriptInv
<1>1. CASE CreateJsWindowObject \/ JsCall \/ ReplaceNative \/ Finalizer \/ ForgetTask
  BY <1>1, JsNamesScript
<1>2. CASE JsNative \/ JsCallSync
  BY <1>2, JsNamesNative
<1>3. ASSUME NEW i \in 1 .. JsTasksMax, JsTaskStep(i) PROVE JsNames'
  <2>1. i \in 1 .. Len(jsTasks)
    BY <1>3 DEF JsTaskStep, JsInv
  <2> QED BY <1>3, <2>1, JsNamesRun, JsNamesSecondBar, JsNamesSettle DEF JsTaskStep
<1>4. CASE JsWindowStep \/ JsWorld
  BY <1>4, JsNamesClientStep, JsNamesWorld
<1> QED BY <1>1, <1>2, <1>3, <1>4 DEF JsNext

LEMMA JsScriptInitOK == WcInit /\ JsInit /\ wcOf # "none" => JsScriptInv
<1> SUFFICES ASSUME WcInit, JsInit, wcOf # "none" PROVE JsScriptInv
  OBVIOUS
<1>1. WcInv /\ JsInv
  BY WcInitOK, JsInitOK
<1>2. wcOf \in WcWindows
  BY <1>1 DEF WcInv, WcMapInv, WcTypeOK
<1>3. JsHidden
  BY <1>2 DEF WcInit, NoWcCall, JsHidden, WcOn
<1>4. JsNames
  BY DEF WcInit, JsInit, NoWcCall, JsNames, JsLinked, JsNameKept, JsNameGoes, JsNamed, JsOwn, JsGone, WcOn
<1> QED BY <1>1, <1>3, <1>4 DEF JsScriptInv

LEMMA JsScriptOK == JsScriptInv /\ [JsNext]_<<jsVars, wcVars>> => JsScriptInv'
<1> SUFFICES ASSUME JsScriptInv, [JsNext]_<<jsVars, wcVars>> PROVE JsScriptInv'
  OBVIOUS
<1>1. JsInv' /\ WcInv' /\ wcOf' # "none"
  BY JsStepOK, JsClientOK DEF JsScriptInv, JsClientInv
<1>2. CASE JsNext
  BY <1>1, <1>2, JsHiddenOK, JsNamesOK DEF JsScriptInv
<1>3. CASE UNCHANGED <<jsVars, wcVars>>
  <2>1. JsHidden'
    BY <1>3 DEF JsScriptInv, JsHidden, WcOn, Answered, wcVars
  <2>2. JsNames'
    BY <1>3 DEF JsScriptInv, JsNames, JsLinked, JsNameKept, JsNameGoes, JsNamed, JsOwn, JsGone, OldCall, WcOn, wcVars,
        jsVars, jsMap
  <2> QED BY <1>1, <2>1, <2>2 DEF JsScriptInv
<1> QED BY <1>2, <1>3

(* the only step that resolves a promise that runs is the one that settles it *)
LEMMA JsResolvesBySettling ==
    ASSUME JsInv, JsNext, NEW i \in 1 .. Len(jsTasks), JsResolves(i) PROVE JsSettle(i)
<1>1. /\ jsTasks \in Seq(JsGoodTasks) /\ Len(jsTasks) \in Nat
      /\ \A j \in 1 .. Len(jsTasks) : jsTasks[j] \in JsTask
  BY JsTaskIs DEF JsInv, JsTaskOK
<1>2. jsTasks[i].pc = "running" /\ jsTasks'[i].pc = "done"
  BY DEF JsResolves
<1>3. CASE CreateJsWindowObject \/ JsNative
  <2>1. \/ UNCHANGED jsTasks
        \/ jsTasks' = [j \in 1 .. Len(jsTasks) |-> [jsTasks[j] EXCEPT !.own = FALSE]]
        \/ jsTasks' = [j \in 1 .. Len(jsTasks) |-> [jsTasks[j] EXCEPT !.weak = IF @ = "window" THEN "old" ELSE @]]
    BY <1>3 DEF CreateJsWindowObject, JsNative
  <2> QED BY <1>1, <1>2, <2>1 DEF JsTask
<1>4. CASE ForgetTask
  BY <1>2, <1>4 DEF ForgetTask
<1>5. CASE JsCall
  <2>1. \E t : jsTasks' = Append(jsTasks, t)
    BY <1>5 DEF JsCall
  <2> QED BY <1>1, <1>2, <2>1
<1>6. CASE JsCallSync \/ ReplaceNative \/ Finalizer \/ JsWindowStep \/ JsWorld
  BY <1>2, <1>6 DEF JsCallSync, ReplaceNative, Finalizer, JsWindowStep, JsWorld, jsVars
<1>7. ASSUME NEW j \in 1 .. JsTasksMax, JsTaskStep(j) PROVE JsSettle(i)
  <2>1. j \in 1 .. Len(jsTasks)
    BY <1>7 DEF JsTaskStep, JsInv
  <2>2. (\E ok : Settles(j, ok)) \/ (\E pc, settled : Runs(j, pc, settled))
    BY <1>7 DEF JsTaskStep, JsRun, JsReject, JsRejectAndGoOn, JsAnswer, JsStart, JsSecondBar, JsSettle
  <2>3. j = i
    BY <1>2, <2>1, <2>2, JsRunsKeeps, JsSettlesKeeps
  <2>4. ~JsRun(i) /\ ~JsSecondBar(i)
    BY <1>2 DEF JsRun, JsSecondBar
  <2> QED BY <1>7, <2>3, <2>4 DEF JsTaskStep
<1> QED BY <1>3, <1>4, <1>5, <1>6, <1>7 DEF JsNext

LEMMA JsDoneSays ==
    ASSUME JsScriptInv, JsNext, NEW i \in 1 .. Len(jsTasks), JsResolves(i)
    PROVE  /\ jsTasks[i].row.op = "hide" => wcServer[JsOf] # "shown"
           /\ jsTasks[i].row.op = "destroy" => /\ wcServer[JsOf] = "none" /\ JsOf \notin wcMap
                                               /\ (jsObject = "mapped" => jsLeft)
<1> DEFINE t == jsTasks[i]
<1>1. JsSettle(i) /\ t.weak = "window"
  BY JsResolvesBySettling DEF JsScriptInv, JsResolves
<1>2. t \in JsTask /\ JsRowOK(t.row) /\ t.row.async
  BY JsTaskIs DEF JsScriptInv, JsTaskOK
<1>3. wcCall.op # "none" /\ wcCall.pc = "done" /\ wcCall.from = i /\ Settles(i, wcCall.ret = "OK" \/ ~t.row.heeds)
  BY <1>1 DEF JsSettle, JsReturned
<1>4. wcCall.ret = "OK" \/ ~t.row.heeds
  BY <1>3, JsSettlesKeeps DEF JsScriptInv, JsResolves
<1>5. ~OldCall
  BY <1>1, <1>3 DEF OldCall
<1>6. ASSUME t.row.op \in {"hide", "destroy"} PROVE wcCall.op = t.row.op /\ wcCall.ret = "OK"
  BY <1>2, <1>3, <1>4, <1>6 DEF JsRowOK, JsScriptInv, JsNames, JsLinked, Native
<1>7. t.row.op = "hide" => wcServer[wcOf] # "shown"
  BY <1>3, <1>6 DEF JsScriptInv, JsHidden, WcOn
<1>8. t.row.op = "destroy" => wcServer[wcOf] = "none" /\ wcOf \notin wcMap
  BY <1>3, <1>5, <1>6 DEF JsScriptInv, JsNames, JsGone, WcOn
<1>9. wcOf \notin wcMap /\ jsObject = "mapped" => jsLeft
  BY DEF JsScriptInv, JsNames, JsNameKept, JsNamed
<1> QED BY <1>7, <1>8, <1>9 DEF JsOf

-----------------------------------------------------------------------------
(* For every function of the objects and any number of calls under way: a promise
   is settled once, but for the three functions that are known to settle it twice
   (the tasks of js_window.cpp, js_display_manager.cpp and the others).         *)
THEOREM PromisesSettleOnce == JsSpec => []JsSettlesOnce
BY JsInitOK, JsStepOK, JsInvSays, PTL DEF JsSpec

(* Whatever objects of a window are made, replaced and collected while tasks of
   theirs run, and whether or not the service refuses its end: a script that asks for
   the window by its name is given an object of the window that lives (g_jsWindowMap,
   CreateJsWindowObject, Finalizer and the listener of js_window.cpp).           *)
THEOREM NamesLeadToLivingWindows == JsSpec => []JsNamesFresh
<1>1. JsScriptInv => JsNamesFresh
  BY DEF JsScriptInv, JsNames, JsNameKept, JsNamed, JsNamesFresh, JsOf
<1> QED BY <1>1, JsScriptInitOK, JsScriptOK, PTL DEF JsSpec

(* A promise of hide or destroy that is resolved is kept: the service does not show the
   window, or has forgotten it, as no name leads to it any more. The invariant behind it
   is that a shown window takes itself to be hidden only while its show is answered. *)
THEOREM ResolvedIsDone == JsSpec => JsDone
<1>1. JsScriptInv /\ [JsNext]_<<jsVars, wcVars>> =>
         [\A i \in 1 .. Len(jsTasks) : JsResolves(i) =>
               /\ jsTasks[i].row.op = "hide" => wcServer[JsOf] # "shown"
               /\ jsTasks[i].row.op = "destroy" => /\ wcServer[JsOf] = "none" /\ JsOf \notin wcMap
                                                   /\ (jsObject = "mapped" => jsLeft)]_<<jsVars, wcVars>>
  <2>1. ASSUME JsScriptInv, JsNext, NEW i \in 1 .. Len(jsTasks), JsResolves(i)
        PROVE  /\ jsTasks[i].row.op = "hide" => wcServer[JsOf] # "shown"
               /\ jsTasks[i].row.op = "destroy" => /\ wcServer[JsOf] = "none" /\ JsOf \notin wcMap
                                                   /\ (jsObject = "mapped" => jsLeft)
    BY <2>1, JsDoneSays
  <2>2. CASE UNCHANGED <<jsVars, wcVars>>
    BY <2>2
  <2> QED BY <2>1, <2>2
<1> QED BY <1>1, JsScriptInitOK, JsScriptOK, PTL DEF JsSpec, JsDone

(* The client keeps its promises whatever scripts do with a window: its maps stay
   sound and the service has its value, also when a task goes on after its window
   was replaced or destroyed.                                                  *)
THEOREM ScriptsKeepMaps == JsSpec => [](WcMapsSound /\ WcServerKnows)
<1>1. WcInit /\ wcOf # "none" => JsClientInv
  BY WcInitOK DEF JsClientInv
<1>2. JsClientInv => WcMapsSound /\ WcServerKnows
  BY WcInvSays DEF JsClientInv
<1> QED BY <1>1, <1>2, JsClientOK, PTL DEF JsSpec
=============================================================================
