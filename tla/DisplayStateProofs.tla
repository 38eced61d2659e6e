-------------------------- MODULE DisplayStateProofs --------------------------
(* The power, the rotation and the layout of the display. For any number of threads and of
   calls: the callback of SetDisplayState is kept, the power listeners heard the
   state last, and no window stays frozen on a display that is on. For every device,
   every orientation and every order of events: as long as the threads do not race,
   the display is turned as the orientation in force and the lock say. And for any
   sizes of the display, bars and windows: the halves and the divider make up the display,
   and every tiled window has its place.                                            *)
EXTENDS DisplayPower, ScreenRotation, WindowLayout, WindowTile, SequenceTheorems, WellFoundedInduction, NaturalsInduction, TLAPS

-----------------------------------------------------------------------------
(* Power. *)
PowerStates == {"ON", "OFF"}
DpPlaces == {"idle", "check", "set", "unlock", "tell", "changed", "clear", "unlocked"}
(* What every variable may hold, and where the system's calls and the others' can be. *)
DpCallsOK ==
  /\ dpCall \in [DpAll -> [pc : DpPlaces, state : PowerStates]]
  /\ \A c \in DpAll : /\ dpCall[c].pc = "unlocked" => c = "sys"
                      /\ dpCall[c].pc = "clear" => c # "sys"
                      /\ dpCall[c].pc = "unlock" => dpCall[c].state = "ON"
DpTypeOK ==
  /\ dpState \in PowerStates \cup {"UNKNOWN"} /\ dpDrawn \in BOOLEAN
  /\ DpCallsOK
  /\ dpSlot \in DpCallers \cup {"none"} /\ dpAnswer \in DpCallers \cup {"none"}
  /\ dpAgent \in BOOLEAN
  /\ dpStateWire \in Seq(PowerStates) /\ dpTasks \in Seq({"freeze", "thaw"})
  /\ dpShown \in BOOLEAN /\ dpFlagged \in BOOLEAN /\ dpFrozen \in BOOLEAN
  /\ dpLost \in BOOLEAN /\ dpForeign \in BOOLEAN /\ dpOverlap \in BOOLEAN /\ dpAwake \in BOOLEAN
  /\ dpReflagged \in BOOLEAN

(* A callback that waits has a call, a message or an answer that will clear it. *)
DpPending == /\ dpAgent <=> dpSlot # "none"
             /\ dpSlot # "none" => dpCall[dpSlot].pc # "idle" \/ dpStateWire # <<>> \/ dpAnswer # "none"
(* Without another process the call, its message and its answer follow one another. *)
DpAloneBut(c) == \A d \in DpCallers : d # c => dpCall[d].pc = "idle"
DpOwnOrder ==
  /\ dpSlot = "none" => DpAloneBut("none") /\ dpStateWire = <<>> /\ dpAnswer = "none"
  /\ dpSlot # "none" => /\ DpAloneBut(dpSlot) /\ (dpAnswer # "none" => dpAnswer = dpSlot)
                        /\ \/ /\ dpCall[dpSlot].pc # "idle" /\ dpCall[dpSlot].state = dpAsked
                              /\ dpStateWire = <<>> /\ dpAnswer = "none"
                           \/ dpCall[dpSlot].pc = "idle" /\ dpStateWire = <<dpAsked>> /\ dpAnswer = "none"
                           \/ dpCall[dpSlot].pc = "idle" /\ dpStateWire = <<>> /\ dpAnswer # "none"
DpKept == DpPending /\ (~dpForeign => ~dpLost /\ DpOwnOrder)

(* Without overlap one call is past its change at a time, and what it has yet to tell
   is the state.                                                                     *)
DpPast == {c \in DpAll : dpCall[c].pc \in {"unlock", "tell", "changed", "unlocked"}}
DpTelling == {c \in DpAll : dpCall[c].pc \in {"unlock", "tell"}}
DpInTurn == /\ \A c, d \in DpPast : c = d
            /\ \A c \in DpTelling : dpCall[c].state = dpState
            /\ DpTelling = {} /\ dpState # "UNKNOWN" => dpHeard = dpState

(* What the tasks will leave of the window. *)
DpToFreeze == IF dpTasks = <<>> THEN dpFrozen /\ ~dpReflagged ELSE dpTasks[Len(dpTasks)] = "freeze"
DpWillThaw == /\ ~dpAwake /\ DpToFreeze /\ dpState = "ON" /\ ~dpDrawn => \E c \in DpAll : dpCall[c].pc = "unlock"
              /\ dpCall["sys"].pc = "unlocked" => ~DpToFreeze
DpFrozenShown == dpFrozen /\ ~dpReflagged => dpShown /\ ~dpFlagged

DpInv == DpTypeOK /\ DpKept /\ DpFrozenShown /\ (~dpOverlap => DpInTurn /\ DpWillThaw)

-----------------------------------------------------------------------------
LEMMA DpInitOK == DpInit => DpInv
<1> SUFFICES ASSUME DpInit PROVE DpInv
  OBVIOUS
<1>1. \A c \in DpAll : dpCall[c] = NoDpCall
  BY DEF DpInit
<1>2. DpTypeOK
  <2>1. NoDpCall \in [pc : DpPlaces, state : PowerStates] /\ NoDpCall.pc = "idle"
    BY DEF NoDpCall, DpPlaces, PowerStates
  <2>2. DpCallsOK
    BY <1>1, <2>1 DEF DpInit, DpCallsOK
  <2>3. dpStateWire \in Seq(PowerStates) /\ dpTasks \in Seq({"freeze", "thaw"})
    BY DEF DpInit
  <2> QED BY <2>2, <2>3 DEF DpInit, DpTypeOK
<1>3. DpKept
  BY <1>1 DEF DpInit, DpKept, DpPending, DpOwnOrder, DpAloneBut, DpAll, NoDpCall
<1>4. DpFrozenShown /\ DpWillThaw
  BY <1>1 DEF DpInit, DpFrozenShown, DpWillThaw, DpToFreeze, DpAll, NoDpCall
<1>5. DpInTurn
  BY <1>1 DEF DpInit, DpInTurn, DpPast, DpTelling, NoDpCall
<1> QED BY <1>2, <1>3, <1>4, <1>5 DEF DpInv

(* What the moves of a caller do: its place changes, and nobody else's. *)
LEMMA DpGoesOK ==
    ASSUME DpCallsOK, NEW c \in DpAll, NEW pc \in DpPlaces, DpGoes(c, pc)
    PROVE  /\ dpCall' \in [DpAll -> [pc : DpPlaces, state : PowerStates]]
           /\ dpCall'[c].pc = pc
           /\ pc # "idle" => dpCall'[c].state = dpCall[c].state
           /\ \A d \in DpAll \ {c} : dpCall'[d] = dpCall[d]
           /\ /\ pc = "unlocked" => c = "sys"
              /\ pc = "clear" => c # "sys"
              /\ pc = "unlock" => dpCall[c].state = "ON"
              => DpCallsOK'
<1> DEFINE r == IF pc = "idle" THEN NoDpCall ELSE [dpCall[c] EXCEPT !.pc = pc]
<1>1. dpCall[c] \in [pc : DpPlaces, state : PowerStates]
  BY DEF DpCallsOK
<1>2. NoDpCall \in [pc : DpPlaces, state : PowerStates] /\ NoDpCall.pc = "idle"
  BY DEF NoDpCall, DpPlaces, PowerStates
<1>3. r \in [pc : DpPlaces, state : PowerStates] /\ r.pc = pc /\ (pc # "idle" => r.state = dpCall[c].state)
  <2>1. CASE pc = "idle"
    BY <1>2, <2>1
  <2>2. CASE pc # "idle"
    BY <1>1, <2>2
  <2> QED BY <2>1, <2>2
<1>4. dpCall' = [dpCall EXCEPT ![c] = r]
  BY DEF DpGoes
<1> HIDE DEF r
<1>5. /\ dpCall' \in [DpAll -> [pc : DpPlaces, state : PowerStates]]
      /\ dpCall'[c] = r /\ \A d \in DpAll \ {c} : dpCall'[d] = dpCall[d]
  BY <1>3, <1>4 DEF DpCallsOK
<1> QED BY <1>3, <1>5 DEF DpCallsOK

LEMMA DpStartsOK ==
    ASSUME DpCallsOK, NEW c \in DpAll, NEW pc \in DpPlaces, NEW s \in PowerStates, DpStarts(c, pc, s)
    PROVE  /\ dpCall' \in [DpAll -> [pc : DpPlaces, state : PowerStates]]
           /\ dpCall'[c].pc = pc /\ dpCall'[c].state = s /\ dpCall[c].pc = "idle"
           /\ \A d \in DpAll \ {c} : dpCall'[d] = dpCall[d]
           /\ pc \notin {"unlock", "clear"} /\ (pc = "unlocked" => c = "sys") => DpCallsOK'
<1>1. /\ dpCall' \in [DpAll -> [pc : DpPlaces, state : PowerStates]]
      /\ dpCall'[c].pc = pc /\ dpCall'[c].state = s /\ dpCall[c].pc = "idle"
      /\ \A d \in DpAll \ {c} : dpCall'[d] = dpCall[d]
  BY DEF DpCallsOK, DpStarts, DpIdle
<1> QED BY <1>1 DEF DpCallsOK

LEMMA DpTailOK ==
    ASSUME NEW S, NEW q \in Seq(S), q # <<>>
    PROVE  /\ Tail(q) \in Seq(S) /\ Head(q) \in S
           /\ Tail(q) = <<>> => Len(q) = 1 /\ q[Len(q)] = Head(q)
           /\ Tail(q) # <<>> => Tail(q)[Len(Tail(q))] = q[Len(q)]
<1>1. Len(q) \in Nat /\ Len(q) # 0 /\ Head(q) = q[1] /\ Head(q) \in S /\ Tail(q) \in Seq(S)
  OBVIOUS
<1>2. Len(Tail(q)) = Len(q) - 1 /\ \A i \in 1..(Len(q) - 1) : Tail(q)[i] = q[i + 1]
  BY <1>1
<1>3. ASSUME Tail(q) = <<>> PROVE Len(q) = 1
  <2>1. Len(<<>>) = 0
    OBVIOUS
  <2>2. Len(Tail(q)) = 0
    BY <1>3, <2>1, Zenon
  <2>3. Len(q) - 1 = 0
    BY <1>2, <2>2
  <2> QED BY <1>1, <2>3
<1>4. ASSUME Tail(q) # <<>> PROVE Tail(q)[Len(Tail(q))] = q[Len(q)]
  <2>1. Len(q) - 1 \in 1..(Len(q) - 1)
    BY <1>1, <1>2, <1>4
  <2> QED BY <1>1, <1>2, <2>1
<1> QED BY <1>1, <1>3, <1>4

(* Every step keeps the types. *)
LEMMA DpTypeStep == ASSUME DpTypeOK, [DpNext]_dpVars PROVE DpTypeOK'
<1> USE DEF DpAll
<1>1. ASSUME NEW c \in DpCallers, NEW s \in PowerStates, DpSetDisplayState(c, s) PROVE DpTypeOK'
  <2>1. c \in DpAll /\ DpStarts(c, "check", s) /\ DpCallsOK /\ "check" \in DpPlaces
    BY <1>1 DEF DpSetDisplayState, DpPlaces, DpTypeOK
  <2>2. DpCallsOK'
    BY <2>1, DpStartsOK
  <2> QED BY <1>1, <2>2 DEF DpSetDisplayState, DpTypeOK, dpService, dpWindow
<1>2. ASSUME NEW s \in PowerStates, DpSetBySystem(s) PROVE DpTypeOK'
  <2>1. DpCallsOK'
    BY <1>2, DpStartsOK, DpAssumption DEF DpSetBySystem, DpPlaces, PowerStates, DpTypeOK
  <2> QED BY <1>2, <2>1 DEF DpSetBySystem, DpTypeOK, dpService, dpWindow, dpClient
<1>3. ASSUME NEW c \in DpAll, DpCheck(c) PROVE DpTypeOK'
  <2>1. PICK pc \in {"set", "idle", "clear"} : DpGoes(c, pc) /\ (c = "sys" => pc # "clear")
    BY <1>3 DEF DpCheck
  <2>2. DpCallsOK'
    BY <2>1, DpGoesOK, DpAssumption DEF DpPlaces, DpTypeOK
  <2> QED BY <1>3, <2>2 DEF DpCheck, DpTypeOK, dpService, dpWindow, dpClient
<1>4. ASSUME NEW c \in DpAll, DpSet(c) PROVE DpTypeOK'
  <2>1. PICK pc \in {"unlock", "tell"} : DpGoes(c, pc) /\ (pc = "unlock" => dpCall[c].state = "ON")
    BY <1>4 DEF DpSet, DpUnlocksNow
  <2>2. DpCallsOK'
    BY <2>1, DpGoesOK, DpAssumption DEF DpPlaces, DpTypeOK
  <2>3. dpState' \in PowerStates
    BY <1>4 DEF DpSet, DpTypeOK, DpCallsOK
  <2>4. dpOverlap' \in BOOLEAN /\ dpAwake' \in BOOLEAN
    BY <1>4 DEF DpSet, DpOverlaps, DpTypeOK
  <2> QED BY <1>4, <2>2, <2>3, <2>4 DEF DpSet, DpTypeOK, dpWindow, dpClient
<1>5. ASSUME NEW c \in DpAll, DpUnlock(c) PROVE DpTypeOK'
  <2>1. DpCallsOK'
    BY <1>5, DpGoesOK, DpAssumption DEF DpUnlock, DpPlaces, DpTypeOK
  <2>2. dpTasks' \in Seq({"freeze", "thaw"})
    BY <1>5 DEF DpUnlock, DpTypeOK
  <2> QED BY <1>5, <2>1, <2>2 DEF DpUnlock, DpTypeOK, dpWindow, dpClient
<1>6. ASSUME NEW c \in DpAll, DpTell(c) PROVE DpTypeOK'
  <2>1. DpCallsOK'
    BY <1>6, DpGoesOK, DpAssumption DEF DpTell, DpPlaces, DpTypeOK
  <2> QED BY <1>6, <2>1 DEF DpTell, DpTypeOK, dpWindow, dpClient
<1>7. ASSUME NEW c \in DpAll, DpChanged(c) PROVE DpTypeOK'
  <2>1. DpCallsOK'
    BY <1>7, DpGoesOK, DpAssumption DEF DpChanged, DpPlaces, DpTypeOK
  <2>2. dpCall[c].state \in PowerStates
    BY DEF DpTypeOK, DpCallsOK
  <2>3. dpStateWire' \in Seq(PowerStates)
    BY <1>7, <2>2 DEF DpChanged, DpTypeOK
  <2> QED BY <1>7, <2>1, <2>3 DEF DpChanged, DpTypeOK, dpWindow, dpService
<1>8. ASSUME NEW c \in DpAll, DpClear(c) PROVE DpTypeOK'
  <2>1. DpCallsOK'
    BY <1>8, DpGoesOK, DpAssumption DEF DpClear, DpPlaces, DpTypeOK
  <2> QED BY <1>8, <2>1 DEF DpClear, DpTypeOK, dpWindow, dpService
<1>9. CASE DpCallback \/ DpAnswered
  <2>1. dpStateWire' \in Seq(PowerStates)
    BY <1>9, DpTailOK DEF DpCallback, DpAnswered, DpTypeOK
  <2>2. DpCallsOK'
    BY <1>9 DEF DpCallback, DpAnswered, DpTypeOK, DpCallsOK
  <2>3. CASE DpCallback
    BY <2>1, <2>2, <2>3 DEF DpCallback, DpTypeOK, dpWindow, dpService
  <2>4. CASE DpAnswered
    BY <2>1, <2>2, <2>4 DEF DpAnswered, DpTypeOK, dpWindow, dpService
  <2> QED BY <1>9, <2>3, <2>4
<1>10. CASE DpSuspendBegin \/ DpKeyguardDrawn
  <2>1. dpTasks' \in Seq({"freeze", "thaw"})
    BY <1>10 DEF DpSuspendBegin, DpKeyguardDrawn, DpTypeOK
  <2>2. dpOverlap' \in BOOLEAN /\ dpAwake' \in BOOLEAN
    BY <1>10 DEF DpSuspendBegin, DpKeyguardDrawn, DpOverlaps, DpTypeOK
  <2>3. DpCallsOK'
    BY <1>10 DEF DpSuspendBegin, DpKeyguardDrawn, DpTypeOK, DpCallsOK
  <2>4. CASE DpSuspendBegin
    BY <2>1, <2>2, <2>3, <2>4 DEF DpSuspendBegin, DpTypeOK, dpWindow, dpClient
  <2>5. CASE DpKeyguardDrawn
    BY <2>1, <2>2, <2>3, <2>5 DEF DpKeyguardDrawn, DpTypeOK, dpWindow, dpClient
  <2> QED BY <1>10, <2>4, <2>5
<1>11. CASE DpUnlockEvent
  <2>1. DpCallsOK'
    BY <1>11, DpStartsOK, DpAssumption DEF DpUnlockEvent, DpPlaces, PowerStates, DpTypeOK
  <2>2. dpTasks' \in Seq({"freeze", "thaw"})
    BY <1>11 DEF DpUnlockEvent, DpTypeOK
  <2>3. dpOverlap' \in BOOLEAN
    BY <1>11 DEF DpUnlockEvent, DpOverlaps, DpTypeOK
  <2> QED BY <1>11, <2>1, <2>2, <2>3 DEF DpUnlockEvent, DpTypeOK, dpWindow, dpClient
<1>12. CASE DpUnlocked
  <2>1. DpCallsOK'
    BY <1>12, DpGoesOK, DpAssumption DEF DpUnlocked, DpPlaces, DpTypeOK
  <2>2. UNCHANGED <<dpState, dpTasks, dpOverlap, dpAwake, dpHeard>> /\ dpDrawn' \in BOOLEAN
    BY <1>12 DEF DpUnlocked
  <2>3. UNCHANGED <<dpCalls, dpSlot, dpAsked, dpAgent, dpAnswer, dpStateWire, dpLost, dpForeign,
                    dpShown, dpFlagged, dpFrozen, dpReflagged>>
    BY <1>12 DEF DpUnlocked, dpWindow, dpClient
  <2> QED BY <2>1, <2>2, <2>3 DEF DpTypeOK
<1>13. CASE DpRunTask
  <2>1. dpTasks' \in Seq({"freeze", "thaw"})
    BY <1>13, DpTailOK DEF DpRunTask, DpTypeOK
  <2>2. dpFrozen' \in BOOLEAN
    BY <1>13 DEF DpRunTask, DpTypeOK
  <2> QED BY <1>13, <2>1, <2>2 DEF DpRunTask, DpTypeOK, DpCallsOK, dpClient
<1>14. CASE DpHide \/ DpFlag
  <2>1. UNCHANGED <<dpState, dpDrawn, dpTasks, dpOverlap, dpAwake, dpHeard, dpCall, dpCalls>>
    BY <1>14 DEF DpHide, DpFlag, dpService
  <2>2. UNCHANGED <<dpSlot, dpAsked, dpAgent, dpAnswer, dpStateWire, dpLost, dpForeign>>
    BY <1>14 DEF DpHide, DpFlag, dpClient
  <2>3. {dpShown, dpFlagged, dpFrozen, dpReflagged}' \subseteq BOOLEAN
    BY <1>14 DEF DpHide, DpFlag, DpTypeOK
  <2> QED BY <2>1, <2>2, <2>3 DEF DpTypeOK, DpCallsOK
<1>15. CASE UNCHANGED dpVars
  BY <1>15 DEF dpVars, DpTypeOK, DpCallsOK
<1> QED BY <1>1, <1>2, <1>3, <1>4, <1>5, <1>6, <1>7, <1>8, <1>9, <1>10, <1>11, <1>12, <1>13, <1>14,
           <1>15 DEF DpNext, PowerStates

-----------------------------------------------------------------------------
(* The callback of the application. *)
LEMMA DpKeptStep == ASSUME DpTypeOK, DpKept, [DpNext]_dpVars PROVE DpKept'
<1> DEFINE Same == UNCHANGED <<dpCall, dpSlot, dpAsked, dpAgent, dpAnswer, dpStateWire, dpLost, dpForeign>>
<1>1. DpCallsOK /\ dpSlot \in DpCallers \cup {"none"} /\ dpAnswer \in DpCallers \cup {"none"}
      /\ dpStateWire \in Seq(PowerStates) /\ dpAgent \in BOOLEAN /\ dpForeign \in BOOLEAN
      /\ DpPending /\ (~dpForeign => ~dpLost /\ DpOwnOrder)
  BY DEF DpTypeOK, DpKept
<1>2. "none" \notin DpCallers /\ "sys" \notin DpCallers /\ "sys" \in DpAll
  BY DpAssumption DEF DpAll
<1>3. DpCallers \subseteq DpAll /\ \A c \in DpAll : c # "sys" => c \in DpCallers
  BY DEF DpAll
<1>4. ASSUME Same PROVE DpKept'
  BY <1>1, <1>4 DEF DpKept, DpPending, DpOwnOrder, DpAloneBut
<1>5. ASSUME NEW c \in DpAll, UNCHANGED dpClient, dpCall[c].pc # "idle" => dpCall'[c].pc # "idle" /\ dpCall'[c].state = dpCall[c].state,
             c = "sys" \/ dpCall[c].pc # "idle", \A d \in DpAll \ {c} : dpCall'[d] = dpCall[d]
      PROVE  DpKept'
  BY <1>1, <1>2, <1>3, <1>5 DEF DpKept, DpPending, DpOwnOrder, DpAloneBut, dpClient
<1>6. ASSUME NEW c \in DpCallers, NEW s \in PowerStates, DpSetDisplayState(c, s) PROVE DpKept'
  <2>1. /\ dpCall'[c].pc = "check" /\ dpCall'[c].state = s
        /\ \A d \in DpAll \ {c} : dpCall'[d] = dpCall[d]
    BY <1>1, <1>3, <1>6, DpStartsOK DEF DpSetDisplayState, DpPlaces
  <2> QED BY <1>1, <1>2, <1>3, <1>6, <2>1 DEF DpSetDisplayState, DpKept, DpPending, DpOwnOrder, DpAloneBut
<1>7. ASSUME NEW s \in PowerStates, DpSetBySystem(s) PROVE DpKept'
  <2>1. dpCall["sys"].pc = "idle" /\ \A d \in DpAll \ {"sys"} : dpCall'[d] = dpCall[d]
    BY <1>1, <1>2, <1>7, DpStartsOK DEF DpSetBySystem, DpPlaces
  <2> QED BY <1>2, <1>5, <1>7, <2>1 DEF DpSetBySystem
<1>8. ASSUME NEW c \in DpAll, DpCheck(c) \/ DpSet(c) \/ DpUnlock(c) \/ DpTell(c) PROVE DpKept'
  <2>1. PICK pc \in DpPlaces : DpGoes(c, pc) /\ (pc = "idle" => c = "sys") /\ dpCall[c].pc # "idle"
    BY <1>8 DEF DpCheck, DpSet, DpUnlock, DpTell, DpPlaces
  <2>2. UNCHANGED dpClient
    BY <1>8 DEF DpCheck, DpSet, DpUnlock, DpTell
  <2>3. \A d \in DpAll \ {c} : dpCall'[d] = dpCall[d]
    BY <1>1, <2>1, DpGoesOK
  <2>4. CASE pc # "idle"
    <3>1. dpCall'[c].pc # "idle" /\ dpCall'[c].state = dpCall[c].state
      BY <1>1, <2>1, <2>4, DpGoesOK
    <3> QED BY <1>5, <2>1, <2>2, <2>3, <3>1
  <2>5. CASE c = "sys"
    BY <1>1, <1>2, <1>3, <2>2, <2>3, <2>5 DEF DpKept, DpPending, DpOwnOrder, DpAloneBut, dpClient
  <2> QED BY <2>1, <2>4, <2>5
<1>9. ASSUME NEW c \in DpAll, DpChanged(c) PROVE DpKept'
  <2>1. dpCall'[c].pc = "idle" /\ \A d \in DpAll \ {c} : dpCall'[d] = dpCall[d]
    BY <1>1, <1>9, DpGoesOK DEF DpChanged, DpPlaces
  <2>2. dpCall[c].pc = "changed" /\ UNCHANGED <<dpSlot, dpAsked, dpAgent, dpAnswer, dpLost>>
        /\ dpStateWire' = (IF dpAgent THEN Append(dpStateWire, dpCall[c].state) ELSE dpStateWire)
        /\ dpForeign' = (dpForeign \/ (c = "sys" /\ dpAgent))
    BY <1>9 DEF DpChanged
  <2>3. dpAgent => dpStateWire' # <<>>
    <3>1. dpCall[c].state \in PowerStates
      BY <1>1 DEF DpCallsOK
    <3> QED BY <1>1, <2>2, <3>1
  <2>4. DpPending'
    BY <1>1, <1>2, <1>3, <2>1, <2>2, <2>3 DEF DpPending
  <2>5. ASSUME ~dpForeign' PROVE ~dpLost' /\ DpOwnOrder'
    <3>1. ~dpForeign /\ ~dpLost /\ DpOwnOrder /\ (c = "sys" => ~dpAgent)
      BY <1>1, <2>2, <2>5
    <3>2. CASE c = "sys"
      BY <1>1, <1>2, <1>3, <2>1, <2>2, <3>1, <3>2 DEF DpOwnOrder, DpAloneBut, DpPending
    <3>3. CASE c # "sys"
      <4>1. c = dpSlot /\ dpStateWire = <<>> /\ dpAnswer = "none" /\ dpCall[c].state = dpAsked /\ dpAgent
        BY <1>1, <1>2, <1>3, <2>2, <3>1, <3>3 DEF DpOwnOrder, DpAloneBut, DpPending
      <4>2. dpStateWire' = <<dpAsked>>
        BY <2>2, <4>1
      <4> QED BY <1>1, <1>2, <1>3, <2>1, <2>2, <3>1, <4>1, <4>2 DEF DpOwnOrder, DpAloneBut
    <3> QED BY <3>2, <3>3
  <2> QED BY <2>4, <2>5 DEF DpKept
<1>10. ASSUME NEW c \in DpAll, DpClear(c) PROVE DpKept'
  <2>1. dpCall'[c].pc = "idle" /\ \A d \in DpAll \ {c} : dpCall'[d] = dpCall[d]
    BY <1>1, <1>10, DpGoesOK DEF DpClear, DpPlaces
  <2>2. c \in DpCallers /\ dpCall[c].pc = "clear"
    BY <1>1, <1>3, <1>10 DEF DpClear, DpCallsOK
  <2>3. dpSlot' = "none" /\ dpAgent' = FALSE /\ dpLost' = (dpLost \/ dpSlot \notin {c, "none"})
        /\ UNCHANGED <<dpAnswer, dpStateWire, dpForeign>>
    BY <1>10 DEF DpClear
  <2> QED BY <1>1, <1>2, <1>3, <2>1, <2>2, <2>3 DEF DpKept, DpPending, DpOwnOrder, DpAloneBut
<1>11. CASE DpCallback
  <2>1. /\ dpStateWire # <<>> /\ dpAnswer = "none" /\ dpStateWire' = Tail(dpStateWire) /\ dpAnswer' = dpSlot
        /\ dpLost' = (dpLost \/ (dpSlot # "none" /\ Head(dpStateWire) # dpAsked))
        /\ UNCHANGED <<dpCall, dpSlot, dpAsked, dpAgent, dpForeign>>
    BY <1>11 DEF DpCallback
  <2>2. ASSUME ~dpForeign' PROVE ~dpLost' /\ DpOwnOrder'
    <3>1. ~dpLost /\ DpOwnOrder /\ dpSlot # "none" /\ dpCall[dpSlot].pc = "idle" /\ dpStateWire = <<dpAsked>>
      BY <1>1, <2>1, <2>2 DEF DpOwnOrder
    <3>2. Head(dpStateWire) = dpAsked /\ Tail(dpStateWire) = <<>>
      BY <3>1
    <3> QED BY <2>1, <3>1, <3>2 DEF DpOwnOrder, DpAloneBut
  <2>3. DpPending'
    BY <1>1, <2>1 DEF DpPending
  <2> QED BY <2>2, <2>3 DEF DpKept
<1>12. CASE DpAnswered
  BY <1>1, <1>12 DEF DpAnswered, DpKept, DpPending, DpOwnOrder, DpAloneBut
<1>13. CASE DpSuspendBegin \/ DpKeyguardDrawn \/ DpRunTask \/ DpHide \/ DpFlag \/ UNCHANGED dpVars
  BY <1>4, <1>13 DEF DpSuspendBegin, DpKeyguardDrawn, DpRunTask, DpHide, DpFlag, dpVars, dpClient
<1>14. CASE DpUnlockEvent \/ DpUnlocked
  <2>1. \A d \in DpAll \ {"sys"} : dpCall'[d] = dpCall[d]
    BY <1>1, <1>2, <1>14, DpStartsOK, DpGoesOK DEF DpUnlockEvent, DpUnlocked, DpPlaces, PowerStates
  <2>2. UNCHANGED dpClient
    BY <1>14 DEF DpUnlockEvent, DpUnlocked
  <2> QED BY <1>1, <1>2, <1>3, <2>1, <2>2 DEF DpKept, DpPending, DpOwnOrder, DpAloneBut, dpClient
<1> QED BY <1>6, <1>7, <1>8, <1>9, <1>10, <1>11, <1>12, <1>13, <1>14 DEF DpNext, PowerStates

-----------------------------------------------------------------------------
(* The calls one after another. What leaves the calls past their change alone keeps
   their turn; dpOverlap never goes back.                                          *)
LEMMA DpNotPast ==
    ASSUME NEW c \in DpAll, NEW pc \in {"idle", "check", "set", "clear"}, DpInTurn,
           dpCall[c].pc \notin {"unlock", "tell"}, dpCall'[c].pc = pc, \A d \in DpAll \ {c} : dpCall'[d] = dpCall[d],
           UNCHANGED <<dpState, dpHeard>>
    PROVE  DpInTurn'
<1>1. DpPast' \subseteq DpPast /\ DpTelling' = DpTelling /\ \A d \in DpTelling : dpCall'[d] = dpCall[d]
  BY DEF DpPast, DpTelling
<1> QED BY <1>1 DEF DpInTurn

LEMMA DpInTurnStep == ASSUME DpTypeOK, ~dpOverlap => DpInTurn, [DpNext]_dpVars, ~dpOverlap' PROVE DpInTurn'
<1> USE DEF DpAll
<1>1. DpCallsOK
  BY DEF DpTypeOK
<1>2. ASSUME ~dpOverlap, UNCHANGED <<dpCall, dpState, dpHeard>> PROVE DpInTurn'
  BY <1>2 DEF DpInTurn, DpPast, DpTelling
<1>3. ASSUME NEW c \in DpCallers, NEW s \in PowerStates, DpSetDisplayState(c, s) PROVE DpInTurn'
  <2>1. ~dpOverlap /\ UNCHANGED <<dpState, dpHeard>>
    BY <1>3 DEF DpSetDisplayState, dpService
  <2>2. dpCall[c].pc = "idle" /\ dpCall'[c].pc = "check" /\ \A e \in DpAll \ {c} : dpCall'[e] = dpCall[e]
    BY <1>1, <1>3, DpStartsOK DEF DpPlaces, DpSetDisplayState
  <2> QED BY <2>1, <2>2, DpNotPast
<1>4. ASSUME NEW s \in PowerStates, DpSetBySystem(s) PROVE DpInTurn'
  <2>1. ~dpOverlap /\ UNCHANGED <<dpState, dpHeard>>
    BY <1>4 DEF DpSetBySystem, dpService
  <2>2. dpCall["sys"].pc = "idle" /\ dpCall'["sys"].pc = "check" /\ \A e \in DpAll \ {"sys"} : dpCall'[e] = dpCall[e]
    BY <1>1, <1>4, DpStartsOK DEF DpPlaces, DpSetBySystem
  <2> QED BY <2>1, <2>2, DpNotPast
<1>5. ASSUME NEW c \in DpAll, DpCheck(c) \/ DpChanged(c) \/ DpClear(c) PROVE DpInTurn'
  <2>1. ~dpOverlap /\ UNCHANGED <<dpState, dpHeard>> /\ dpCall[c].pc \in {"check", "changed", "clear"}
    BY <1>5 DEF DpCheck, DpChanged, DpClear, dpService
  <2>2. PICK pc \in {"idle", "set", "clear"} : DpGoes(c, pc)
    BY <1>5 DEF DpCheck, DpChanged, DpClear
  <2>3. dpCall'[c].pc = pc /\ \A e \in DpAll \ {c} : dpCall'[e] = dpCall[e]
    BY <1>1, <2>2, DpGoesOK DEF DpPlaces
  <2> QED BY <2>1, <2>3, DpNotPast
<1>6. ASSUME NEW c \in DpAll, DpSet(c) PROVE DpInTurn'
  <2>1. ~dpOverlap /\ (\A d \in DpAll \ {c} : dpCall[d].pc \notin DpInService) /\ dpState' = dpCall[c].state
    BY <1>6 DEF DpSet, DpOverlaps
  <2>2. PICK pc \in {"unlock", "tell"} : DpGoes(c, pc)
    BY <1>6 DEF DpSet
  <2>3. dpCall'[c].pc = pc /\ dpCall'[c].state = dpCall[c].state /\ \A e \in DpAll \ {c} : dpCall'[e] = dpCall[e]
    BY <1>1, <2>2, DpGoesOK DEF DpPlaces
  <2>4. DpPast' = {c} /\ DpTelling' = {c}
    BY <2>1, <2>3 DEF DpPast, DpTelling, DpInService
  <2> QED BY <2>1, <2>3, <2>4 DEF DpInTurn
<1>7. ASSUME NEW c \in DpAll, DpUnlock(c) PROVE DpInTurn'
  <2>1. ~dpOverlap /\ UNCHANGED <<dpState, dpHeard>> /\ dpCall[c].pc = "unlock"
    BY <1>7 DEF DpUnlock
  <2>2. dpCall'[c].pc = "tell" /\ dpCall'[c].state = dpCall[c].state /\ \A e \in DpAll \ {c} : dpCall'[e] = dpCall[e]
    BY <1>1, <1>7, DpGoesOK DEF DpPlaces, DpUnlock
  <2>3. DpPast' = DpPast /\ DpTelling' = DpTelling /\ \A d \in DpAll : dpCall'[d].state = dpCall[d].state
    BY <2>1, <2>2 DEF DpPast, DpTelling
  <2> QED BY <2>1, <2>3 DEF DpInTurn, DpTelling
<1>8. ASSUME NEW c \in DpAll, DpTell(c) PROVE DpInTurn'
  <2>1. ~dpOverlap /\ UNCHANGED dpState /\ dpHeard' = dpCall[c].state /\ dpCall[c].pc = "tell"
    BY <1>8 DEF DpTell, DpEvent
  <2>2. dpCall'[c].pc = "changed" /\ \A e \in DpAll \ {c} : dpCall'[e] = dpCall[e]
    BY <1>1, <1>8, DpGoesOK DEF DpPlaces, DpTell
  <2>3. c \in DpPast /\ c \in DpTelling /\ dpCall[c].state = dpState
    BY <2>1 DEF DpInTurn, DpPast, DpTelling
  <2>4. DpPast' = DpPast /\ DpTelling' \subseteq DpTelling
    BY <2>1, <2>2 DEF DpPast, DpTelling
  <2>5. DpTelling' = {}
    BY <2>1, <2>2, <2>3, <2>4 DEF DpInTurn, DpPast, DpTelling
  <2> QED BY <2>1, <2>3, <2>4, <2>5 DEF DpInTurn
<1>9. CASE DpUnlockEvent
  <2>1. /\ ~dpOverlap /\ (\A d \in DpAll \ {"sys"} : dpCall[d].pc \notin DpInService)
        /\ UNCHANGED <<dpState, dpHeard>>
    BY <1>9 DEF DpUnlockEvent, DpOverlaps
  <2>2. dpCall["sys"].pc = "idle" /\ dpCall'["sys"].pc = "unlocked" /\ \A e \in DpAll \ {"sys"} : dpCall'[e] = dpCall[e]
    BY <1>1, <1>9, DpStartsOK DEF DpPlaces, PowerStates, DpUnlockEvent
  <2>3. DpPast' = {"sys"} /\ DpTelling' = {} /\ DpTelling = {}
    BY <2>1, <2>2 DEF DpPast, DpTelling, DpInService
  <2> QED BY <2>1, <2>3 DEF DpInTurn
<1>10. CASE DpUnlocked
  <2>1. ~dpOverlap /\ UNCHANGED <<dpState, dpHeard>> /\ dpCall["sys"].pc = "unlocked"
    BY <1>10 DEF DpUnlocked
  <2>2. dpCall'["sys"].pc = "idle" /\ \A e \in DpAll \ {"sys"} : dpCall'[e] = dpCall[e]
    BY <1>1, <1>10, DpGoesOK DEF DpPlaces, DpUnlocked
  <2> QED BY <2>1, <2>2, DpNotPast
<1>11. CASE DpCallback \/ DpAnswered \/ DpKeyguardDrawn \/ DpRunTask \/ DpHide \/ DpFlag \/ UNCHANGED dpVars
  BY <1>2, <1>11 DEF DpCallback, DpAnswered, DpKeyguardDrawn, DpRunTask, DpHide, DpFlag, dpVars, dpService
<1>12. CASE DpSuspendBegin
  BY <1>2, <1>12 DEF DpSuspendBegin, DpOverlaps
<1> QED BY <1>3, <1>4, <1>5, <1>6, <1>7, <1>8, <1>9, <1>10, <1>11, <1>12 DEF DpNext, PowerStates

-----------------------------------------------------------------------------
(* The window that sleeps. *)
LEMMA DpFrozenStep == ASSUME DpTypeOK, DpFrozenShown, [DpNext]_dpVars PROVE DpFrozenShown'
<1>1. CASE DpRunTask \/ DpHide \/ DpFlag
  BY <1>1 DEF DpRunTask, DpHide, DpFlag, DpFrozenShown, DpTypeOK
<1>2. CASE UNCHANGED dpWindow
  BY <1>2 DEF dpWindow, DpFrozenShown
<1> QED BY <1>1, <1>2
    DEF DpNext, dpVars, dpWindow, DpSetDisplayState, DpSetBySystem, DpCheck, DpSet, DpUnlock, DpTell, DpChanged,
        DpClear, DpCallback, DpAnswered, DpSuspendBegin, DpKeyguardDrawn, DpUnlockEvent, DpUnlocked

(* What a task appended at the end leaves, and the first one run. *)
LEMMA DpTasksOK ==
    ASSUME DpTypeOK
    PROVE  /\ \A t \in {"freeze", "thaw"} : dpTasks' = Append(dpTasks, t) => (DpToFreeze' <=> t = "freeze")
           /\ DpRunTask /\ DpFrozenShown /\ DpToFreeze' => DpToFreeze
           /\ UNCHANGED <<dpTasks, dpFrozen, dpReflagged>> => (DpToFreeze' <=> DpToFreeze)
           /\ DpHide \/ DpFlag => (DpToFreeze' => DpToFreeze)
<1>1. ASSUME NEW t \in {"freeze", "thaw"}, dpTasks' = Append(dpTasks, t) PROVE DpToFreeze' <=> t = "freeze"
  <2>1. dpTasks' # <<>> /\ dpTasks'[Len(dpTasks')] = t
    BY <1>1 DEF DpTypeOK
  <2> QED BY <2>1 DEF DpToFreeze
<1>2. ASSUME DpRunTask, DpFrozenShown, DpToFreeze' PROVE DpToFreeze
  <2>1. dpTasks \in Seq({"freeze", "thaw"}) /\ dpTasks # <<>> /\ dpTasks' = Tail(dpTasks) /\ UNCHANGED dpReflagged
        /\ dpFrozen' = IF dpShown /\ ~dpFlagged THEN Head(dpTasks) = "freeze" ELSE dpFrozen
    BY <1>2 DEF DpRunTask, DpTypeOK
  <2>2. CASE dpTasks' # <<>>
    BY <1>2, <2>1, <2>2, DpTailOK DEF DpToFreeze
  <2>3. CASE dpTasks' = <<>>
    <3>1. dpTasks[Len(dpTasks)] = Head(dpTasks) /\ dpFrozen' /\ ~dpReflagged
      BY <1>2, <2>1, <2>3, DpTailOK DEF DpToFreeze
    <3>2. dpShown /\ ~dpFlagged
      BY <1>2, <2>1, <3>1 DEF DpFrozenShown
    <3> QED BY <2>1, <3>1, <3>2 DEF DpToFreeze
  <2> QED BY <2>2, <2>3
<1>3. UNCHANGED <<dpTasks, dpFrozen, dpReflagged>> => (DpToFreeze' <=> DpToFreeze)
  BY DEF DpToFreeze
<1>4. DpHide \/ DpFlag => (DpToFreeze' => DpToFreeze)
  BY DEF DpHide, DpFlag, DpToFreeze, dpService
<1> QED BY <1>1, <1>2, <1>3, <1>4

LEMMA DpWillThawStep ==
    ASSUME DpTypeOK, DpFrozenShown, ~dpOverlap => DpWillThaw, [DpNext]_dpVars, ~dpOverlap'
    PROVE  DpWillThaw'
<1> USE DEF DpAll
<1> DEFINE Window == UNCHANGED <<dpTasks, dpFrozen, dpReflagged>>
<1>1. DpCallsOK
  BY DEF DpTypeOK
<1>2. ASSUME ~dpOverlap, UNCHANGED <<dpCall, dpState, dpAwake>>, DpToFreeze' => DpToFreeze, dpDrawn => dpDrawn'
      PROVE  DpWillThaw'
  BY <1>2 DEF DpWillThaw
<1>3. ASSUME ~dpOverlap, UNCHANGED <<dpState, dpAwake, dpDrawn>>, Window, NEW c \in DpAll,
             dpCall[c].pc # "unlock", dpCall'[c].pc # "unlocked", \A d \in DpAll \ {c} : dpCall'[d] = dpCall[d]
      PROVE  DpWillThaw'
  <2>1. DpToFreeze' <=> DpToFreeze
    BY <1>3, DpTasksOK
  <2>2. dpCall'["sys"].pc = "unlocked" => dpCall["sys"].pc = "unlocked"
    BY <1>3
  <2>3. \A d \in DpAll : dpCall[d].pc = "unlock" => dpCall'[d].pc = "unlock"
    BY <1>3
  <2> QED BY <1>3, <2>1, <2>2, <2>3 DEF DpWillThaw
<1>4. ASSUME NEW c \in DpCallers, NEW s \in PowerStates, DpSetDisplayState(c, s) PROVE DpWillThaw'
  <2>1. ~dpOverlap /\ UNCHANGED <<dpState, dpAwake, dpDrawn>> /\ Window
    BY <1>4 DEF DpSetDisplayState, dpService, dpWindow
  <2>2. dpCall[c].pc = "idle" /\ dpCall'[c].pc = "check" /\ \A e \in DpAll \ {c} : dpCall'[e] = dpCall[e]
    BY <1>1, <1>4, DpStartsOK DEF DpPlaces, DpSetDisplayState
  <2> QED BY <1>3, <2>1, <2>2
<1>5. ASSUME NEW s \in PowerStates, DpSetBySystem(s) PROVE DpWillThaw'
  <2>1. ~dpOverlap /\ UNCHANGED <<dpState, dpAwake, dpDrawn>> /\ Window
    BY <1>5 DEF DpSetBySystem, dpService, dpWindow
  <2>2. dpCall["sys"].pc = "idle" /\ dpCall'["sys"].pc = "check" /\ \A e \in DpAll \ {"sys"} : dpCall'[e] = dpCall[e]
    BY <1>1, <1>5, DpStartsOK DEF DpPlaces, DpSetBySystem
  <2> QED BY <1>3, <2>1, <2>2
<1>6. ASSUME NEW c \in DpAll, DpCheck(c) \/ DpTell(c) \/ DpChanged(c) \/ DpClear(c) PROVE DpWillThaw'
  <2>1. ~dpOverlap /\ UNCHANGED <<dpState, dpAwake, dpDrawn>> /\ Window /\ dpCall[c].pc # "unlock"
    BY <1>6 DEF DpCheck, DpTell, DpChanged, DpClear, dpService, dpWindow
  <2>2. PICK pc \in {"idle", "set", "clear", "changed"} : DpGoes(c, pc)
    BY <1>6 DEF DpCheck, DpTell, DpChanged, DpClear
  <2>3. dpCall'[c].pc = pc /\ \A e \in DpAll \ {c} : dpCall'[e] = dpCall[e]
    BY <1>1, <2>2, DpGoesOK DEF DpPlaces
  <2> QED BY <1>3, <2>1, <2>2, <2>3
<1>7. ASSUME NEW c \in DpAll, DpSet(c) PROVE DpWillThaw'
  <2>1. ~dpOverlap /\ Window /\ UNCHANGED dpDrawn /\ dpState' = dpCall[c].state
        /\ dpAwake' = (dpAwake /\ dpCall[c].state # "OFF")
    BY <1>7 DEF DpSet, DpOverlaps, dpWindow
  <2>2. PICK pc \in {"unlock", "tell"} : DpGoes(c, pc) /\ (dpCall[c].state = "ON" /\ ~dpDrawn => pc = "unlock")
    BY <1>7 DEF DpSet, DpUnlocksNow
  <2>3. dpCall'[c].pc = pc /\ \A e \in DpAll \ {c} : dpCall'[e] = dpCall[e]
    BY <1>1, <2>2, DpGoesOK DEF DpPlaces
  <2>4. DpToFreeze' <=> DpToFreeze
    BY <2>1, DpTasksOK
  <2> QED BY <2>1, <2>2, <2>3, <2>4 DEF DpWillThaw
<1>8. ASSUME NEW c \in DpAll, DpUnlock(c) PROVE DpWillThaw'
  <2>1. dpTasks' = Append(dpTasks, "thaw")
    BY <1>8 DEF DpUnlock
  <2>2. ~DpToFreeze'
    BY <2>1, DpTasksOK
  <2> QED BY <2>2 DEF DpWillThaw
<1>9. CASE DpUnlockEvent
  <2>1. dpTasks' = Append(dpTasks, "thaw")
    BY <1>9 DEF DpUnlockEvent
  <2>2. ~DpToFreeze'
    BY <2>1, DpTasksOK
  <2> QED BY <2>2 DEF DpWillThaw
<1>10. CASE DpUnlocked
  <2>1. ~dpOverlap /\ dpCall["sys"].pc = "unlocked" /\ Window
    BY <1>10 DEF DpUnlocked, dpWindow
  <2>2. ~DpToFreeze'
    BY <2>1, DpTasksOK DEF DpWillThaw
  <2> QED BY <2>2 DEF DpWillThaw
<1>11. CASE DpSuspendBegin
  <2>1. /\ ~dpOverlap /\ dpCall["sys"].pc = "idle" /\ UNCHANGED <<dpCall, dpState>> /\ dpAwake' = (dpState # "OFF")
    BY <1>11 DEF DpSuspendBegin, DpIdle, DpOverlaps
  <2> QED BY <2>1 DEF DpWillThaw
<1>12. CASE DpCallback \/ DpAnswered \/ DpKeyguardDrawn \/ UNCHANGED dpVars
  <2>1. ~dpOverlap /\ Window /\ UNCHANGED <<dpCall, dpState, dpAwake>> /\ (dpDrawn => dpDrawn')
    BY <1>12 DEF DpCallback, DpAnswered, DpKeyguardDrawn, dpVars, dpService, dpWindow
  <2> QED BY <1>2, <2>1, DpTasksOK
<1>13. CASE DpRunTask \/ DpHide \/ DpFlag
  <2>1. ~dpOverlap /\ UNCHANGED <<dpCall, dpState, dpAwake, dpDrawn>>
    BY <1>13 DEF DpRunTask, DpHide, DpFlag, dpService
  <2> QED BY <1>2, <1>13, <2>1, DpTasksOK
<1> QED BY <1>4, <1>5, <1>6, <1>7, <1>8, <1>9, <1>10, <1>11, <1>12, <1>13 DEF DpNext, PowerStates

-----------------------------------------------------------------------------
LEMMA DpInvHolds == DpSpec => []DpInv
<1>1. DpInv /\ [DpNext]_dpVars => DpInv'
  BY DpTypeStep, DpKeptStep, DpFrozenStep, DpInTurnStep, DpWillThawStep DEF DpInv
<1> QED BY <1>1, DpInitOK, PTL DEF DpSpec

LEMMA DpInvImplies == DpInv => DpCallbackKept /\ DpHeardLast /\ DpThawed
<1> SUFFICES ASSUME DpInv PROVE DpCallbackKept /\ DpHeardLast /\ DpThawed
  OBVIOUS
<1>1. DpQuiet => \A c \in DpAll : dpCall[c].pc = "idle"
  BY DEF DpQuiet, DpIdle
<1>2. DpCallbackKept
  <2>1. dpLost => dpForeign
    BY DEF DpInv, DpTypeOK, DpKept
  <2>2. DpQuiet => dpSlot = "none"
    BY <1>1 DEF DpQuiet, DpInv, DpKept, DpPending, DpTypeOK, DpAll
  <2> QED BY <2>1, <2>2 DEF DpCallbackKept
<1>3. DpHeardLast
  <2>1. DpQuiet => DpTelling = {}
    BY <1>1 DEF DpTelling
  <2> QED BY <2>1 DEF DpHeardLast, DpInv, DpInTurn
<1>4. DpThawed
  <2>1. DpQuiet /\ dpFrozen /\ ~dpReflagged => DpToFreeze
    BY DEF DpQuiet, DpToFreeze
  <2> QED BY <1>1, <2>1 DEF DpThawed, DpInv, DpWillThaw
<1> QED BY <1>2, <1>3, <1>4

(* However many threads call SetDisplayState, a callback is called with what it asked
   for unless another process interferes, and none is left behind.                  *)
THEOREM CallbackIsKept == DpSpec => []DpCallbackKept
BY DpInvHolds, DpInvImplies, PTL

(* Calls that do not overlap leave the power listeners with the state there is. *)
THEOREM ListenersHeardState == DpSpec => []DpHeardLast
BY DpInvHolds, DpInvImplies, PTL

(* Whatever was suspended, set and unlocked in turn, a window is not left frozen on a
   display that is on without keyguard.                                             *)
THEOREM WindowsAreThawed == DpSpec => []DpThawed
BY DpInvHolds, DpInvImplies, PTL

-----------------------------------------------------------------------------
(* Rotation. *)
Rotations  == 0..3
SrThreadOK(t) == /\ t.orientation \in Orientations /\ t.converted \in Rotations \cup {Invalid}
                 /\ t.current \in Rotations
(* What every variable may hold. *)
SrTypeOK ==
  /\ srDevice \in [landscape : BOOLEAN, bias : Rotations]
  /\ srScreen \in Rotations /\ srDisplay \in Rotations /\ srLockedRotation \in Rotations
  /\ srLastDecided \in Rotations /\ srConverted \in Rotations \cup {Invalid}
  /\ srOrientation \in Orientations /\ srRequested \in Orientations /\ srLastType \in Orientations
  /\ srLocked \in BOOLEAN
  /\ SrThreadOK(srSensor) /\ SrThreadOK(srWindow) /\ SrThreadOK(srUser)
  /\ srSensor.pc \in {"idle", "turn"} /\ srWindow.pc \in {"idle", "store"} /\ srUser.pc \in {"idle", "store"}
  /\ srSensor.pc = "idle" => srSensor = SrIdle
  /\ srWindow.pc = "idle" => srWindow = SrIdle
  /\ srUser.pc = "idle" => srUser = SrIdle
  /\ srSensor.pc = "turn" => srSensor.converted # Invalid
  /\ srLast \in {"none", "sensor", "window", "user"}

(* The display is turned as orientation o wants it: a fixed one to its rotation, one
   that leaves it to the device to where it was locked.                           *)
SrWanted(o) == /\ o \in Fixed => srScreen = CalcRotation(o)
               /\ srLocked /\ o \in {"UNSPECIFIED", "AUTO_ROTATION_RESTRICTED"} => srScreen = srLockedRotation
(* With SENSOR in force the display follows the last event. *)
SrFollows == srOrientation = "SENSOR" /\ srLast = "sensor" /\ srConverted # Invalid
               => srDisplay = OnDisplay(srConverted)

(* While the threads have not raced at most one of them is under way, and what it
   read still is so.                                                              *)
SrAlone ==
  /\ srSensor = SrIdle => SrFollows
  /\ srWindow = SrIdle \/ srUser = SrIdle
  /\ srSensor # SrIdle => /\ srWindow = SrIdle /\ srUser = SrIdle
                          /\ srSensor.orientation = srOrientation /\ srSensor.current = srDisplay
                          /\ srSensor.converted = srConverted
                          /\ IsSensorRelatedOrientation(srOrientation)
  /\ srWindow # SrIdle => srScreen = srDisplay /\ (~srStale => SrWanted(srWindow.orientation)) /\ srLast = "window"
  /\ srUser # SrIdle => (~srStale => SrWanted(srUser.orientation)) /\ srLast = "user"
  /\ srWindow = SrIdle /\ srUser = SrIdle => srScreen = srDisplay /\ (~srStale => SrWanted(srOrientation))
SrInv == SrTypeOK /\ (~srRaced => SrAlone)

-----------------------------------------------------------------------------
(* The rotation of the display for a rotation of the device, and back. *)
LEMMA OnDisplayOK ==
    ASSUME srDevice \in [landscape : BOOLEAN, bias : Rotations], NEW d \in Rotations
    PROVE  /\ OnDisplay(d) \in Rotations
           /\ CalcDeviceRotation((OnDisplay(d) + srDevice.bias) % 4) = d
           /\ ConvertDeviceToDisplayRotation(d) = OnDisplay(d)
<1>1. d \in {0, 1, 2, 3} /\ srDevice.bias \in {0, 1, 2, 3} /\ srDevice.landscape \in BOOLEAN
  BY DEF Rotations
<1>2. OnDisplay(d) = IF srDevice.landscape THEN (IF d = 0 THEN 1 ELSE IF d = 1 THEN 0 ELSE IF d = 2 THEN 3 ELSE 2) ELSE d
  BY <1>1 DEF OnDisplay
<1>3. OnDisplay(d) \in Rotations
  BY <1>1, <1>2 DEF Rotations
<1>4. ASSUME NEW s \in {0, 1, 2, 3}, NEW b \in {0, 1, 2, 3}
      PROVE  /\ (((s + b) % 4) - b + 4) % 4 = s /\ (s + b) % 4 \in Rotations
             /\ (s + 1) % 2 = IF s \in {1, 3} THEN 0 ELSE 1
  BY <1>4 DEF Rotations
<1>5. ASSUME NEW s \in {0, 1, 2, 3}
      PROVE  CalcDeviceRotation((s + srDevice.bias) % 4)
               = IF ~srDevice.landscape THEN s ELSE IF s \in {1, 3} THEN s - 1 ELSE s + 1
  <2>1. (s + srDevice.bias) % 4 # Invalid
    BY <1>1, <1>4, <1>5 DEF Invalid, Rotations
  <2>2. (((s + srDevice.bias) % 4) - srDevice.bias + 4) % 4 = s
    BY <1>1, <1>4, <1>5
  <2>3. (s + 1) % 2 = IF s \in {1, 3} THEN 0 ELSE 1
    BY <1>1, <1>4, <1>5
  <2> QED BY <2>1, <2>2, <2>3 DEF CalcDeviceRotation
<1>6. CalcDeviceRotation((OnDisplay(d) + srDevice.bias) % 4) = d
  BY <1>1, <1>2, <1>5, <1>3
<1>7. ConvertDeviceToDisplayRotation(d) = OnDisplay(d)
  BY <1>1 DEF ConvertDeviceToDisplayRotation, Invalid
<1> QED BY <1>3, <1>6, <1>7

(* The rotation of the device for a sensor's one. *)
LEMMA DeviceRotationOK ==
    ASSUME srDevice \in [landscape : BOOLEAN, bias : Rotations], NEW degree
    PROVE  CalcDeviceRotation(CalcSensorRotation(degree)) \in Rotations \cup {Invalid}
<1>1. CalcSensorRotation(degree) \in Rotations \cup {Invalid}
  BY DEF CalcSensorRotation, Rotations, Invalid
<1>2. ASSUME NEW s \in {0, 1, 2, 3}, NEW b \in {0, 1, 2, 3}
      PROVE  /\ (s - b + 4) % 4 \in Rotations
             /\ (((s - b + 4) % 4) + 1) % 2 = 0 => ((s - b + 4) % 4) - 1 \in Rotations
             /\ (((s - b + 4) % 4) + 1) % 2 # 0 => ((s - b + 4) % 4) + 1 \in Rotations
  BY <1>2 DEF Rotations
<1>3. srDevice.bias \in {0, 1, 2, 3}
  BY DEF Rotations
<1>4. ASSUME NEW s \in {0, 1, 2, 3} PROVE CalcDeviceRotation(s) \in Rotations
  BY <1>2, <1>3, <1>4 DEF CalcDeviceRotation, Invalid
<1>5. CalcDeviceRotation(Invalid) = Invalid
  BY DEF CalcDeviceRotation
<1> QED BY <1>1, <1>4, <1>5 DEF Rotations

(* Where a switch to o turns the display: a fixed orientation and the lock are obeyed. *)
LEMMA SwitchTargetOK ==
    ASSUME SrTypeOK, NEW o \in Orientations
    PROVE  /\ SwitchTarget(o) \in Rotations
           /\ o \in Fixed => SwitchTarget(o) = CalcRotation(o)
           /\ srLocked /\ o \in {"UNSPECIFIED", "AUTO_ROTATION_RESTRICTED"} => SwitchTarget(o) = srLockedRotation
<1> DEFINE AnyOf == {"UNSPECIFIED", "AUTO_ROTATION_RESTRICTED"}
<1>1. \A d \in Rotations : ConvertDeviceToDisplayRotation(d) \in Rotations /\ ConvertDeviceToDisplayRotation(d) = OnDisplay(d)
  BY OnDisplayOK DEF SrTypeOK
<1>2. 0 \in Rotations /\ 1 \in Rotations /\ 2 \in Rotations /\ 3 \in Rotations
  BY DEF Rotations
<1>3. CASE o \in Fixed
  <2>1. FixedDevice[o] \in Rotations
    BY <1>3, <1>2 DEF Fixed, FixedDevice
  <2>2. SwitchTarget(o) = ConvertDeviceToDisplayRotation(FixedDevice[o])
    BY <1>3 DEF SwitchTarget, Fixed, PortraitOnly, LandscapeOnly
  <2> QED BY <1>1, <1>3, <2>1, <2>2 DEF CalcRotation, Fixed
<1>4. CASE o = "LOCKED"
  BY <1>4 DEF SwitchTarget, Fixed, PortraitOnly, LandscapeOnly, SrTypeOK
<1>5. CASE o \in AnyOf /\ srLocked
  BY <1>5 DEF SwitchTarget, Fixed, PortraitOnly, LandscapeOnly, SrTypeOK
<1>6. CASE o \in AnyOf \cup {"SENSOR"} /\ ~(srLocked /\ o # "SENSOR")
  BY <1>6 DEF SwitchTarget, Fixed, PortraitOnly, LandscapeOnly, SrTypeOK
<1>7. LockedOr(TRUE) \in Rotations /\ LockedOr(FALSE) \in Rotations
  BY <1>1, <1>2 DEF LockedOr, SrTypeOK
<1>8. CASE o \in PortraitOnly
  <2>1. SwitchTarget(o) \in {srDisplay, LockedOr(FALSE), ConvertDeviceToDisplayRotation(0)}
    BY <1>8 DEF SwitchTarget, Fixed, PortraitOnly, LandscapeOnly
  <2> QED BY <1>1, <1>2, <1>7, <1>8, <2>1 DEF Fixed, PortraitOnly, SrTypeOK
<1>9. CASE o \in LandscapeOnly
  <2>1. SwitchTarget(o) \in {srDisplay, LockedOr(TRUE), ConvertDeviceToDisplayRotation(1)}
    BY <1>9 DEF SwitchTarget, Fixed, PortraitOnly, LandscapeOnly
  <2> QED BY <1>1, <1>2, <1>7, <1>9, <2>1 DEF Fixed, LandscapeOnly, SrTypeOK
<1> QED BY <1>3, <1>4, <1>5, <1>6, <1>8, <1>9
    DEF Orientations, Fixed, PortraitOnly, LandscapeOnly

-----------------------------------------------------------------------------
LEMMA SrInitOK == SrInit => SrInv
BY SrAssumption
DEF SrInit, SrInv, SrTypeOK, SrAlone, SrWanted, SrFollows, SrThreadOK, SrIdle, Rotations, Orientations, Fixed, Invalid

(* What a call finds while the threads have not raced: nobody under way, and the
   display as the orientation in force wants it.                                 *)
LEMMA SrCalledOK ==
    ASSUME SrInv, NEW thread, SrCalled(thread), ~srRaced'
    PROVE  SrQuiet /\ SrAlone /\ srScreen = srDisplay /\ (~srStale => SrWanted(srOrientation)) /\ ~srRaced
BY DEF SrInv, SrCalled, SrQuiet, SrAlone

LEMMA SrSenseOK ==
    ASSUME SrInv, NEW degree \in SrDegrees, SrSense(degree)
    PROVE  SrInv'
<1> DEFINE converted == CalcDeviceRotation(CalcSensorRotation(degree))
<1>1. SrTypeOK
  BY DEF SrInv
<1>2. converted \in Rotations \cup {Invalid}
  BY <1>1, DeviceRotationOK DEF SrTypeOK
<1>3. srConverted' = converted /\ srLast' = "sensor"
  BY DEF SrSense, SrCalled
<1>4. srSensor' = SrIdle
      \/ /\ srSensor' = [pc |-> "turn", orientation |-> srOrientation, converted |-> converted, current |-> srDisplay]
         /\ IsSensorRelatedOrientation(srOrientation) /\ converted # Invalid
  BY DEF SrSense
<1>5. srSensor' = SrIdle /\ srOrientation = "SENSOR" /\ converted # Invalid => srDisplay = OnDisplay(converted)
  <2> SUFFICES ASSUME srSensor' = SrIdle, srOrientation = "SENSOR", converted # Invalid
               PROVE  srDisplay = OnDisplay(converted)
    OBVIOUS
  <2>1. IsSensorRelatedOrientation(srOrientation)
    BY DEF IsSensorRelatedOrientation, Fixed
  <2>2. srDisplay = ConvertDeviceToDisplayRotation(converted)
    BY <2>1 DEF SrSense, SrIdle
  <2> QED BY <2>2 DEF ConvertDeviceToDisplayRotation
<1> HIDE DEF converted
<1>6. UNCHANGED <<srDevice, srScreen, srOrientation, srRequested, srDisplay, srLocked, srLockedRotation,
                  srLastType, srLastDecided, srWindow, srUser, srStale>>
  BY DEF SrSense
<1>7. SrTypeOK'
  BY <1>1, <1>2, <1>3, <1>4, <1>6 DEF SrTypeOK, SrThreadOK, SrIdle, Rotations, Orientations, Fixed, Invalid
<1>8. ASSUME ~srRaced' PROVE SrAlone'
  <2>1. SrQuiet /\ SrAlone /\ srScreen = srDisplay /\ (~srStale => SrWanted(srOrientation))
    BY <1>8, SrCalledOK DEF SrSense
  <2>2. (srSensor = SrIdle => SrFollows)'
    BY <1>3, <1>5, <1>6 DEF SrFollows, OnDisplay
  <2>3. (\A o : SrWanted(o)' <=> SrWanted(o))
    BY <1>6 DEF SrWanted, CalcRotation, OnDisplay
  <2>4. srSensor' # SrIdle => srSensor' = [pc |-> "turn", orientation |-> srOrientation, converted |-> converted, current |-> srDisplay]
                              /\ IsSensorRelatedOrientation(srOrientation)
    BY <1>4
  <2> QED BY <1>3, <1>6, <2>1, <2>2, <2>3, <2>4 DEF SrAlone, SrQuiet
<1> QED BY <1>7, <1>8 DEF SrInv

LEMMA SrTurnOK == ASSUME SrInv, SrTurn PROVE SrInv'
<1> DEFINE decides == SensorDecides(srSensor.orientation, srSensor.converted)
           to      == ConvertDeviceToDisplayRotation(srSensor.converted)
           target  == IF decides THEN to ELSE srSensor.current
<1>1. SrTypeOK /\ srSensor.pc = "turn" /\ srSensor # SrIdle
  BY DEF SrInv, SrTurn, SrIdle
<1>2. srSensor.converted \in Rotations /\ to \in Rotations /\ to = OnDisplay(srSensor.converted)
  BY <1>1, OnDisplayOK DEF SrTypeOK, SrThreadOK
<1>3. target \in Rotations
  BY <1>1, <1>2 DEF SrTypeOK, SrThreadOK
<1>4. SetScreenRotation(target) /\ srSensor' = SrIdle
  BY DEF SrTurn
<1>5. srLastDecided' \in Rotations
  BY <1>1, <1>2 DEF SrTurn, SrTypeOK
<1>6. UNCHANGED <<srDevice, srOrientation, srRequested, srLocked, srLockedRotation, srLastType,
                  srConverted, srWindow, srUser, srCalls, srRaced, srStale, srLast>>
  BY DEF SrTurn
<1>7. SrTypeOK'
  <2> HIDE DEF target
  <2> QED BY <1>1, <1>3, <1>4, <1>5, <1>6
      DEF SrTypeOK, SrThreadOK, SrIdle, Rotations, Orientations, Fixed, Invalid, SetScreenRotation
<1>8. ASSUME ~srRaced' PROVE SrAlone'
  <2>1. /\ srWindow = SrIdle /\ srUser = SrIdle /\ IsSensorRelatedOrientation(srOrientation)
        /\ srSensor.orientation = srOrientation /\ srSensor.current = srDisplay
        /\ srSensor.converted = srConverted
        /\ srScreen = srDisplay /\ (~srStale => SrWanted(srOrientation))
    BY <1>1, <1>6, <1>8 DEF SrInv, SrAlone
  <2>2. srDisplay' = target /\ srScreen' = target
    BY <1>4, <2>1 DEF SetScreenRotation
  <2>3. srOrientation = "SENSOR" => target = OnDisplay(srConverted)
    BY <1>2, <2>1 DEF SensorDecides, RestrictedByLock, PortraitOnly, LandscapeOnly
  <2>4. srLocked /\ srOrientation \in {"UNSPECIFIED", "AUTO_ROTATION_RESTRICTED"} => target = srDisplay
    BY <2>1 DEF SensorDecides, RestrictedByLock
  <2>5. srOrientation \notin Fixed
    BY <2>1 DEF IsSensorRelatedOrientation
  <2> HIDE DEF target
  <2>6. SrFollows'
    BY <1>6, <2>2, <2>3 DEF SrFollows, OnDisplay
  <2>7. ~srStale => SrWanted(srOrientation)'
    BY <1>6, <2>1, <2>2, <2>4, <2>5 DEF SrWanted
  <2> QED BY <1>4, <1>6, <2>1, <2>2, <2>6, <2>7 DEF SrAlone, SrWanted, CalcRotation, OnDisplay
<1> QED BY <1>7, <1>8 DEF SrInv

(* A thread that has an orientation to store. *)
LEMMA SrToStore ==
    ASSUME NEW o \in Orientations, NEW t, t = [SrIdle EXCEPT !.pc = "store", !.orientation = o]
    PROVE  t.pc = "store" /\ t.orientation = o /\ SrThreadOK(t) /\ t # SrIdle
<1>1. t.pc = "store" /\ t.orientation = o /\ t.converted = Invalid /\ t.current = 0
  BY DEF SrIdle
<1>2. t # SrIdle
  BY <1>1 DEF SrIdle
<1>3. SrThreadOK(t)
  BY <1>1 DEF SrThreadOK, Rotations
<1> QED BY <1>1, <1>2, <1>3

LEMMA SrWindowAsksOK ==
    ASSUME SrInv, NEW asked \in SrOrientations, SrWindowAsks(asked)
    PROVE  SrInv'
<1>1. SrTypeOK
  BY DEF SrInv
<1>2. PICK o \in Orientations : o = IF asked = "UNSPECIFIED" THEN srRequested ELSE asked
  BY <1>1, SrAssumption DEF SrTypeOK
<1>3. /\ SwitchTarget(o) \in Rotations
      /\ o \in Fixed => SwitchTarget(o) = CalcRotation(o)
      /\ srLocked /\ o \in {"UNSPECIFIED", "AUTO_ROTATION_RESTRICTED"} => SwitchTarget(o) = srLockedRotation
  BY <1>1, <1>2, SwitchTargetOK
<1>4. /\ srWindow' = [SrIdle EXCEPT !.pc = "store", !.orientation = o]
      /\ srLastType' = o /\ srLast' = "window" /\ srStale' = (o = srLastType)
      /\ IF o = srLastType THEN UNCHANGED <<srScreen, srDisplay>> ELSE SetScreenRotation(SwitchTarget(o))
      /\ UNCHANGED <<srDevice, srOrientation, srRequested, srLocked, srLockedRotation, srLastDecided,
                     srConverted, srSensor, srUser>>
  BY <1>2 DEF SrWindowAsks, SrCalled
<1>5. srWindow'.pc = "store" /\ srWindow'.orientation = o /\ SrThreadOK(srWindow)' /\ srWindow' # SrIdle
  BY <1>2, <1>4, SrToStore DEF SrThreadOK
<1>6. SrTypeOK'
  BY <1>1, <1>2, <1>3, <1>4, <1>5 DEF SrTypeOK, SrThreadOK, SetScreenRotation
<1>7. ASSUME ~srRaced' PROVE SrAlone'
  <2>1. SrQuiet /\ SrAlone /\ srScreen = srDisplay
    BY <1>7, SrCalledOK DEF SrWindowAsks
  <2>2. srScreen' = srDisplay' /\ (~srStale' => srScreen' = SwitchTarget(o))
    BY <1>4, <2>1 DEF SetScreenRotation
  <2>3. ~srStale' => SrWanted(o)'
    BY <1>3, <1>4, <2>2 DEF SrWanted, CalcRotation, OnDisplay
  <2>4. SrFollows'
    BY <1>4 DEF SrFollows
  <2> QED BY <1>4, <1>5, <2>1, <2>2, <2>3, <2>4 DEF SrAlone, SrQuiet, SrWanted, CalcRotation, OnDisplay
<1> QED BY <1>6, <1>7 DEF SrInv

LEMMA SrUserAsksOK ==
    ASSUME SrInv, NEW o \in SrOrientations, SrUserAsks(o)
    PROVE  SrInv'
<1>1. SrTypeOK /\ o \in Orientations
  BY SrAssumption DEF SrInv
<1>2. CalcRotation(o) \in Rotations
  BY <1>1, OnDisplayOK DEF CalcRotation, Fixed, FixedDevice, SrTypeOK, Rotations
<1>3. /\ srRequested' = o /\ srLast' = "user"
      /\ UNCHANGED <<srDevice, srOrientation, srDisplay, srLocked, srLockedRotation, srLastType, srLastDecided,
                     srConverted, srSensor, srWindow>>
  BY DEF SrUserAsks, SrCalled
<1>4. CASE o = srOrientation
  <2>1. UNCHANGED <<srScreen, srUser, srStale>>
    BY <1>4 DEF SrUserAsks
  <2>2. SrTypeOK'
    BY <1>1, <1>3, <2>1 DEF SrTypeOK, SrThreadOK
  <2>3. ASSUME ~srRaced' PROVE SrAlone'
    <3>1. SrQuiet /\ SrAlone /\ srScreen = srDisplay /\ (~srStale => SrWanted(srOrientation))
      BY <2>3, SrCalledOK DEF SrUserAsks
    <3> QED BY <1>3, <2>1, <3>1 DEF SrAlone, SrQuiet, SrFollows, SrWanted, CalcRotation, OnDisplay
  <2> QED BY <2>2, <2>3 DEF SrInv
<1>5. CASE o # srOrientation
  <2>1. /\ srScreen' = CalcRotation(o) /\ srStale' = (o \notin Fixed)
        /\ srUser' = [SrIdle EXCEPT !.pc = "store", !.orientation = o]
    BY <1>5 DEF SrUserAsks
  <2>2. srUser'.pc = "store" /\ srUser'.orientation = o /\ SrThreadOK(srUser)' /\ srUser' # SrIdle
    BY <1>1, <2>1, SrToStore DEF SrThreadOK
  <2>3. SrTypeOK'
    BY <1>1, <1>2, <1>3, <2>1, <2>2 DEF SrTypeOK, SrThreadOK
  <2>4. ASSUME ~srRaced' PROVE SrAlone'
    <3>1. SrQuiet /\ SrAlone /\ srScreen = srDisplay
      BY <2>4, SrCalledOK DEF SrUserAsks
    <3>2. ~srStale' => SrWanted(o)'
      BY <1>3, <2>1 DEF SrWanted, CalcRotation, OnDisplay, Fixed
    <3> QED BY <1>3, <2>2, <3>1, <3>2 DEF SrAlone, SrQuiet, SrFollows, SrWanted, CalcRotation, OnDisplay
  <2> QED BY <2>3, <2>4 DEF SrInv
<1> QED BY <1>4, <1>5

(* Both stores: the orientation asked for is in force, the display as the screen. *)
LEMMA SrStoresOK ==
    ASSUME SrInv, SrWindowStores \/ SrUserStores
    PROVE  SrInv'
<1>1. SrTypeOK /\ SrTypeOK'
  BY DEF SrInv, SrTypeOK, SrThreadOK, SrWindowStores, SrUserStores, SrIdle, Rotations, Orientations, Fixed, Invalid
<1>2. ASSUME ~srRaced' PROVE SrAlone'
  <2>1. SrAlone /\ ~srRaced
    BY <1>2 DEF SrInv, SrWindowStores, SrUserStores
  <2>2. CASE SrWindowStores
    <3>1. srWindow # SrIdle
      BY <2>2 DEF SrWindowStores, SrIdle
    <3> QED BY <2>1, <2>2, <3>1 DEF SrWindowStores, SrAlone, SrFollows, SrWanted, CalcRotation, OnDisplay
  <2>3. CASE SrUserStores
    <3>1. srUser # SrIdle
      BY <2>3 DEF SrUserStores, SrIdle
    <3> QED BY <2>1, <2>3, <3>1 DEF SrUserStores, SrAlone, SrFollows, SrWanted, CalcRotation, OnDisplay
  <2> QED BY <2>2, <2>3
<1> QED BY <1>1, <1>2 DEF SrInv

LEMMA SrLockedOK ==
    ASSUME SrInv, NEW locked \in BOOLEAN, SetScreenRotationLocked(locked)
    PROVE  SrInv'
<1>1. SrTypeOK'
  BY DEF SrInv, SrTypeOK, SrThreadOK, SetScreenRotationLocked, SrCalled
<1>2. ASSUME ~srRaced' PROVE SrAlone'
  <2>1. SrQuiet /\ SrAlone /\ srScreen = srDisplay /\ (~srStale => SrWanted(srOrientation))
    BY <1>2, SrCalledOK DEF SetScreenRotationLocked
  <2> QED BY <2>1 DEF SetScreenRotationLocked, SrCalled, SrAlone, SrQuiet, SrFollows, SrWanted, CalcRotation, OnDisplay
<1> QED BY <1>1, <1>2 DEF SrInv

LEMMA SrStepOK == SrInv /\ [SrNext]_srVars => SrInv'
<1> SUFFICES ASSUME SrInv, [SrNext]_srVars PROVE SrInv'
  OBVIOUS
<1>1. CASE UNCHANGED srVars
  BY <1>1 DEF srVars, SrInv, SrTypeOK, SrThreadOK, SrAlone, SrFollows, SrWanted, CalcRotation, OnDisplay
<1> QED BY <1>1, SrSenseOK, SrTurnOK, SrWindowAsksOK, SrUserAsksOK, SrStoresOK, SrLockedOK DEF SrNext

LEMMA SrInvHolds == SrSpec => []SrInv
BY SrInitOK, SrStepOK, PTL DEF SrSpec

LEMMA SrInvImplies == SrInv => SrObeyed /\ SrLockHolds
<1> SUFFICES ASSUME SrInv, SrQuiet, ~srRaced, ~srStale PROVE SrObeyed /\ SrLockHolds
  BY DEF SrObeyed, SrLockHolds
<1>1. srScreen = srDisplay /\ SrWanted(srOrientation) /\ SrFollows /\ SrTypeOK
  BY DEF SrInv, SrAlone, SrQuiet
<1>2. srConverted # Invalid => CalcDeviceRotation((OnDisplay(srConverted) + srDevice.bias) % 4) = srConverted
  BY <1>1, OnDisplayOK DEF SrTypeOK
<1> QED BY <1>1, <1>2 DEF SrObeyed, SrLockHolds, SrWanted, SrFollows

(* On any device and after any events, unless the threads raced or the switch was
   skipped, the display is turned as the orientation in force says, and with SENSOR
   as the device is held.                                                         *)
THEOREM DisplayObeysOrientation == SrSpec => []SrObeyed
BY SrInvHolds, SrInvImplies, PTL

(* The lock of the rotation holds against the sensor and against windows that turned
   the display in between, whatever their number.                                  *)
THEOREM RotationLockHolds == SrSpec => []SrLockHolds
BY SrInvHolds, SrInvImplies, PTL
-----------------------------------------------------------------------------
(* Layout. *)
LEMMA WlLeast ==
  ASSUME NEW A \in SUBSET Nat, A # {}
  PROVE  \E x \in A : \A y \in A : x <= y
<1>1. PICK x \in A : \A y \in A : ~(<<y, x>> \in OpToRel(<, Nat))
  BY NatLessThanWellFounded, WFMin
<1>2. \A y \in A : <<y, x>> \in Nat \X Nat /\ <<y, x>>[1] = y /\ <<y, x>>[2] = x
  BY <1>1
<1>3. \A y \in A : ~(y < x)
  BY <1>1, <1>2, Zenon DEF OpToRel
<1> QED BY <1>3

(* A bar and a gap for which there is room, when there are any. *)
WlSpace == CHOOSE z \in Nat \X Nat : RoomBy(z[1], z[2])
WlBar == WlSpace[1]
WlGap == WlSpace[2]

LEMMA ScaledOK ==
  ASSUME NEW n \in Nat, NEW vpr \in Nat
  PROVE  Scaled(n, vpr) \in Nat
<1>1. n * vpr \in Nat
  OBVIOUS
<1> QED BY <1>1 DEF Scaled, WlScale

LEMMA RoomIs ==
  ASSUME WlRoom
  PROVE  WlBar \in Nat /\ WlGap \in Nat /\ RoomBy(WlBar, WlGap)
<1>1. PICK bar \in WlThick \cup {0}, vpr \in WlRatios : RoomBy(bar, Scaled(WlDivide, vpr))
  BY DEF WlRoom
<1>2. bar \in Nat /\ Scaled(WlDivide, vpr) \in Nat
  <2>1. bar \in Nat /\ vpr \in Nat /\ WlDivide \in Nat
    BY WlAssumption, WlSizesAssumption
  <2> QED BY <2>1, ScaledOK
<1>3. /\ <<bar, Scaled(WlDivide, vpr)>> \in Nat \X Nat
      /\ <<bar, Scaled(WlDivide, vpr)>>[1] = bar /\ <<bar, Scaled(WlDivide, vpr)>>[2] = Scaled(WlDivide, vpr)
  BY <1>2
<1>4. WlSpace \in Nat \X Nat /\ RoomBy(WlSpace[1], WlSpace[2])
  <2>1. \E z \in Nat \X Nat : RoomBy(z[1], z[2])
    BY <1>1, <1>3
  <2> QED BY <2>1 DEF WlSpace
<1> QED BY <1>4 DEF WlBar, WlGap

(* What there is room for, in numbers. *)
LEMMA RoomGives ==
  ASSUME WlRoom
  PROVE  /\ WlBar \in Nat /\ WlGap \in Nat
         /\ \A t \in WlThick : t \in Nat /\ t <= WlBar
         /\ \A vpr \in WlRatios :
              /\ Scaled(WlDivide, vpr) \in Nat /\ Scaled(WlDivide, vpr) <= WlGap
              /\ Scaled(WlMax, vpr) \in Nat /\ WlGap < Scaled(WlMax, vpr)
              /\ \A n \in {WlMin.w, WlMin.h} :
                   Scaled(n, vpr) \in Nat /\ 0 < Scaled(n, vpr) /\ Scaled(n, vpr) < Scaled(WlMax, vpr)
              /\ \A s, t \in WlSizes : Lesser(Scaled(WlMax, vpr), s.w) = t.w => s = t
         /\ \A s \in WlSizes : \A side \in {s.w, s.h} :
              /\ side \in Nat \ {0} /\ WlGap < side /\ WlBar < side
              /\ 2 * WlGap <= side /\ 2 * WlBar + WlGap <= side
              /\ \A p \in WlSnaps : p \in 1 .. 99 /\ 100 * WlGap <= (100 - p) * (side - 2 * WlBar)
<1>1. WlBar \in Nat /\ WlGap \in Nat /\ RoomBy(WlBar, WlGap)
  BY RoomIs
<1>2. \A t \in WlThick : t \in Nat /\ t <= WlBar
  BY <1>1, WlAssumption DEF RoomBy
<1>3. \A vpr \in WlRatios : Scaled(WlDivide, vpr) \in Nat /\ Scaled(WlMax, vpr) \in Nat
                            /\ \A n \in {WlMin.w, WlMin.h} : Scaled(n, vpr) \in Nat
  BY ScaledOK, WlAssumption, WlSizesAssumption
<1>4. \A vpr \in WlRatios :
        /\ Scaled(WlDivide, vpr) <= WlGap /\ WlGap < Scaled(WlMax, vpr)
        /\ \A n \in {WlMin.w, WlMin.h} : 0 < Scaled(n, vpr) /\ Scaled(n, vpr) < Scaled(WlMax, vpr)
        /\ \A s, t \in WlSizes : Lesser(Scaled(WlMax, vpr), s.w) = t.w => s = t
  BY <1>1, Zenon DEF RoomBy
<1>5. \A s \in WlSizes : \A side \in {s.w, s.h} :
        /\ 2 * WlGap <= side /\ 2 * WlBar + WlGap <= side
        /\ \A p \in WlSnaps : 100 * WlGap <= (100 - p) * (side - 2 * WlBar)
  BY <1>1, Zenon DEF RoomBy
<1>6. \A s \in WlSizes : \A side \in {s.w, s.h} : side \in Nat \ {0}
  BY WlAssumption
<1>7. \A s \in WlSizes : \A side \in {s.w, s.h} : WlGap < side /\ WlBar < side
  BY <1>1, <1>5, <1>6
<1>8. \A p \in WlSnaps : p \in 1 .. 99
  BY WlSizesAssumption
<1>9. /\ \A vpr \in WlRatios :
              /\ Scaled(WlDivide, vpr) \in Nat /\ Scaled(WlDivide, vpr) <= WlGap
              /\ Scaled(WlMax, vpr) \in Nat /\ WlGap < Scaled(WlMax, vpr)
              /\ \A n \in {WlMin.w, WlMin.h} :
                   Scaled(n, vpr) \in Nat /\ 0 < Scaled(n, vpr) /\ Scaled(n, vpr) < Scaled(WlMax, vpr)
              /\ \A s, t \in WlSizes : Lesser(Scaled(WlMax, vpr), s.w) = t.w => s = t
  BY <1>3, <1>4, Zenon
<1>10. \A s \in WlSizes : \A side \in {s.w, s.h} :
              /\ side \in Nat \ {0} /\ WlGap < side /\ WlBar < side
              /\ 2 * WlGap <= side /\ 2 * WlBar + WlGap <= side
              /\ \A p \in WlSnaps : p \in 1 .. 99 /\ 100 * WlGap <= (100 - p) * (side - 2 * WlBar)
  BY <1>5, <1>6, <1>7, <1>8, Zenon
<1> QED BY <1>1, <1>2, <1>9, <1>10

(* ---- the limits of what is no application's window ---- *)
LEMMA Quotients ==
  ASSUME NEW a \in Nat, NEW b \in Nat, 0 < b, b < a
  PROVE  /\ (a * a) \div b \in Nat /\ a <= (a * a) \div b
<1>1. a * b <= a * a /\ a * b \in Nat /\ a * a \in Nat
  BY SMT
<1>2. a * a = b * ((a * a) \div b) + ((a * a) % b) /\ (a * a) \div b \in Nat /\ (a * a) % b \in 0 .. (b - 1)
  BY <1>1
<1> DEFINE q == (a * a) \div b
<1>3. SUFFICES ASSUME q < a PROVE FALSE
  BY <1>2
<1>4. q \in Nat /\ q + 1 <= a /\ b * (q + 1) > a * a
  BY <1>2, <1>3
<1> HIDE DEF q
<1>5. b * (q + 1) <= b * a
  BY <1>4
<1>6. b * a = a * b /\ b * (q + 1) \in Nat
  BY <1>4
<1> QED BY <1>1, <1>4, <1>5, <1>6

LEMMA SmallQuotients ==
  ASSUME NEW a \in Nat, NEW b \in Nat, NEW c \in Nat, b < a, 0 < c, c < a
  PROVE  (c * b) \div a \in Nat /\ (c * b) \div a <= b /\ (c * b) \div a <= c
<1>1. c * b <= a * b /\ c * b <= c * a /\ c * b \in Nat
  BY SMT
<1> DEFINE q == (c * b) \div a
<1>2. c * b = a * q + ((c * b) % a) /\ q \in Nat /\ (c * b) % a \in 0 .. (a - 1)
  BY <1>1
<1> HIDE DEF q
<1>3. a * q <= a * b /\ a * q <= c * a
  BY <1>1, <1>2
<1>4. q <= b
  <2> SUFFICES ASSUME b + 1 <= q PROVE FALSE
    BY <1>2
  <2>1. a * (b + 1) <= a * q /\ a * (b + 1) = a * b + a /\ a * b \in Nat /\ a * q \in Nat
    BY <1>2
  <2> QED BY <1>3, <2>1
<1>5. q <= c
  <2> SUFFICES ASSUME c + 1 <= q PROVE FALSE
    BY <1>2
  <2>1. a * (c + 1) <= a * q /\ a * (c + 1) = c * a + a /\ c * a \in Nat /\ a * q \in Nat
    BY <1>2
  <2> QED BY <1>3, <2>1
<1> QED BY <1>2, <1>4, <1>5 DEF q

(* The bounds and ratios of what the application does not limit. *)
LEMMA UnlimitedLimits ==
  ASSUME NEW sys, NEW minW \in Nat, NEW minH \in Nat, NEW most \in Nat, NEW vpr \in Nat,
         sys = [maxW |-> most, minW |-> minW, maxH |-> most, minH |-> minH],
         0 < minW, minW < most, 0 < minH, minH < most, most = Scaled(WlMax, vpr),
         NEW lim, lim = HeightsByRatio(WidthsByRatio(AddRatios(MinSizes(MaxSizes(sys, Unlimited, vpr), Unlimited, vpr), Unlimited)))
  PROVE  lim.maxW = most /\ lim.maxH = most /\ lim.minW = minW
<1> DEFINE s1 == MaxSizes(sys, Unlimited, vpr)
           s2 == MinSizes(s1, Unlimited, vpr)
           s3 == AddRatios(s2, Unlimited)
           s4 == WidthsByRatio(s3)
<1>1. Scaled(100 * WlMax, vpr) \in Nat /\ most <= Scaled(100 * WlMax, vpr)
  <2>1. WlMax \in Nat
    BY WlSizesAssumption
  <2>2. (100 * WlMax) * vpr = 100 * (WlMax * vpr) /\ WlMax * vpr \in Nat
    BY <2>1
  <2> DEFINE z == WlMax * vpr
  <2>3. Scaled(100 * WlMax, vpr) = (100 * z) \div 10 /\ most = z \div 10
    BY <2>2 DEF Scaled, WlScale
  <2>4. z \in Nat
    BY <2>2
  <2> HIDE DEF z
  <2> QED BY <2>3, <2>4
<1> DEFINE Same(r) == r.maxW = most /\ r.maxH = most /\ r.minW = minW /\ r.minH = minH
<1>2. Same(s1)
  <2>1. /\ Allowed(minW, Scaled(100 * WlMax, vpr), most, most) = most
        /\ Allowed(minH, Scaled(100 * WlMax, vpr), most, most) = most
    BY <1>1 DEF Allowed
  <2>2. Unlimited.maxW = 100 * WlMax /\ Unlimited.maxH = 100 * WlMax
    BY DEF Unlimited
  <2>3. s1 = [sys EXCEPT !.maxW = most, !.maxH = most]
    BY <2>1, <2>2 DEF MaxSizes
  <2> HIDE DEF s1
  <2> QED BY <2>3
<1>3. Same(s2)
  <2>1. Scaled(0, vpr) = 0
    BY DEF Scaled, WlScale
  <2>2. Allowed(minW, 0, most, minW) = minW /\ Allowed(minH, 0, most, minH) = minH
    BY DEF Allowed
  <2>3. Unlimited.minW = 0 /\ Unlimited.minH = 0
    BY DEF Unlimited
  <2>4. s2 = [s1 EXCEPT !.minW = minW, !.minH = minH]
    <3> HIDE DEF s1
    <3> QED BY <1>2, <2>1, <2>2, <2>3 DEF MinSizes
  <2>5. s1 = [sys EXCEPT !.maxW = s1.maxW, !.maxH = s1.maxH]
    BY DEF MaxSizes
  <2> HIDE DEF s1, s2
  <2> QED BY <2>4, <2>5, <1>2
<1>4. s3 = [maxW |-> most, minW |-> minW, maxH |-> most, minH |-> minH,
            maxR |-> <<most, minH>>, minR |-> <<minW, most>>]
  <2> HIDE DEF s2
  <2>1. MaxRatio(s2, Unlimited) = <<most, minH>>
    BY <1>3 DEF MaxRatio, AllowedRatio, AtMost, Unlimited
  <2>2. AllowedRatio(<<minW, most>>, <<0, 1>>, <<most, minH>>, <<minW, most>>) = <<minW, most>>
    BY DEF AllowedRatio, AtMost
  <2>3. Unlimited.minR = <<0, 1>>
    BY DEF Unlimited
  <2> QED BY <1>3, <2>1, <2>2, <2>3 DEF AddRatios, WithRatios
<1>5. s4.maxW = most /\ s4.maxH = most /\ s4.minW = minW /\ s4.minH = minH
      /\ s4.minR = <<minW, most>> /\ s4.maxR = <<most, minH>> /\ s4 = [s3 EXCEPT !.maxW = most, !.minW = minW]
  <2>1. Times(most, <<most, minH>>) = (most * most) \div minH
    BY DEF Times
  <2>2. Times(most, <<most, minH>>) \in Nat /\ most <= Times(most, <<most, minH>>)
    BY <2>1, Quotients
  <2>3. Times(minH, <<minW, most>>) = (minH * minW) \div most
    BY DEF Times
  <2>4. Times(minH, <<minW, most>>) \in Nat /\ Times(minH, <<minW, most>>) <= minW
    BY <2>3, SmallQuotients
  <2>5. Lesser(Times(most, <<most, minH>>), most) = most /\ Greater(Times(minH, <<minW, most>>), minW) = minW
    BY <2>2, <2>4 DEF Lesser, Greater
  <2>6. s4 = [s3 EXCEPT !.maxW = Lesser(Times(most, <<most, minH>>), most), !.minW = Greater(Times(minH, <<minW, most>>), minW)]
    <3> HIDE DEF s3
    <3> QED BY <1>4 DEF WidthsByRatio
  <2>7. s4 = [s3 EXCEPT !.maxW = most, !.minW = minW]
    BY <2>5, <2>6
  <2> HIDE DEF s3, s4
  <2> QED BY <2>7, <1>4
<1>6. lim = [s4 EXCEPT !.maxH = Lesser(Over(most, <<minW, most>>), most), !.minH = Greater(Over(minW, <<most, minH>>), minH)]
  <2> HIDE DEF s4
  <2>1. lim = HeightsByRatio(s4)
    BY DEF s4
  <2> QED BY <1>5, <2>1 DEF HeightsByRatio
<1>7. Lesser(Over(most, <<minW, most>>), most) = most
  <2>1. Over(most, <<minW, most>>) = (most * most) \div minW
    BY DEF Over
  <2>2. Over(most, <<minW, most>>) \in Nat /\ most <= Over(most, <<minW, most>>)
    BY <2>1, Quotients
  <2> QED BY <2>2 DEF Lesser
<1>8. lim = [s3 EXCEPT !.maxW = most, !.minW = minW, !.maxH = most, !.minH = Greater(Over(minW, <<most, minH>>), minH)]
  <2> HIDE DEF s3, s4
  <2> QED BY <1>5, <1>6, <1>7
<1> HIDE DEF s3
<1> QED BY <1>4, <1>8

(* Bars and the divider are cut to the largest size and else left as they are. *)
LEMMA LimitsOfOthers ==
  ASSUME WlRoom, NEW L, L.size \in WlSizes, L.vpr \in WlRatios, NEW w \in Bars \cup {"divider"},
         NEW lim, lim = LimitsOf(L, w)
  PROVE  /\ lim.maxW = Scaled(WlMax, L.vpr) /\ lim.maxH = Scaled(WlMax, L.vpr)
         /\ ~FixedWidth(lim)
<1> DEFINE most == Scaled(WlMax, L.vpr)
           land == IsLandscapeRect(Display(L))
           minW == Scaled(IF land THEN WlMin.h ELSE WlMin.w, L.vpr)
           minH == Scaled(IF land THEN WlMin.w ELSE WlMin.h, L.vpr)
           sys == [maxW |-> most, minW |-> minW, maxH |-> most, minH |-> minH]
<1>1. w \notin Apps /\ KindOf(w) = w /\ w # "camera"
  BY WlAssumption DEF Apps, KindOf, Bars
<1>2. most \in Nat /\ minW \in Nat /\ minH \in Nat /\ 0 < minW /\ minW < most /\ 0 < minH /\ minH < most
  BY RoomGives
<1>3. GetSystemSizeLimits(w, Display(L), L.vpr) = sys
  BY <1>1 DEF GetSystemSizeLimits, SystemMinWidth, SystemMinHeight
<1>4. lim = HeightsByRatio(WidthsByRatio(AddRatios(MinSizes(MaxSizes(sys, Unlimited, L.vpr), Unlimited, L.vpr), Unlimited)))
  <2> HIDE DEF sys
  <2> QED BY <1>1, <1>3 DEF LimitsOf, SizeLimits
<1>5. L.vpr \in Nat
  BY WlAssumption
<1>6. lim.maxW = most /\ lim.maxH = most /\ lim.minW = minW
  <2> HIDE DEF minW, minH
  <2> QED BY <1>2, <1>4, <1>5, UnlimitedLimits
<1> QED BY <1>2, <1>6 DEF FixedWidth

(* ---- rectangles ---- *)
WlRect == [x : Int, y : Int, w : Int, h : Int]
(* No longer than a divider is thick in one direction, longer in the other. *)
Thin(d) == /\ d.w \in Nat /\ d.h \in Nat
           /\ (d.w > WlGap /\ d.h <= WlGap) \/ (d.h > WlGap /\ d.w <= WlGap)
Slim(r) == r \in WlRect /\ Thin(r)
(* Thin along the display, as a divider of this size of display is. *)
Across(size, d) == /\ d.w \in Nat /\ d.h \in Nat
                   /\ IF Vertical(size) THEN d.w > WlGap /\ d.h <= WlGap ELSE d.h > WlGap /\ d.w <= WlGap
LongSide(size) == IF Vertical(size) THEN size.h ELSE size.w
Along(size, r) == IF Vertical(size) THEN r.y ELSE r.x
Past(size, r)  == IF Vertical(size) THEN Bottom(r) ELSE Right(r)
(* A place that leaves the widest divider inside the display. *)
PlaceOK(size, p) == p \in Int /\ 0 <= p /\ p + WlGap <= LongSide(size)
LimitOK(size, limit) ==
  /\ limit \in WlRect /\ limit.x = 0 /\ limit.w = size.w
  /\ 0 <= limit.y /\ limit.y <= WlBar /\ size.h - WlBar <= Bottom(limit) /\ Bottom(limit) <= size.h

LEMMA RectsAre ==
  ASSUME NEW x \in Int, NEW y \in Int, NEW w \in Int, NEW h \in Int
  PROVE  /\ Rect(x, y, w, h) \in WlRect
         /\ Rect(x, y, w, h).x = x /\ Rect(x, y, w, h).y = y /\ Rect(x, y, w, h).w = w /\ Rect(x, y, w, h).h = h
         /\ Right(Rect(x, y, w, h)) = x + w /\ Bottom(Rect(x, y, w, h)) = y + h
BY DEF Rect, WlRect, Right, Bottom

LEMMA SizesAre ==
  ASSUME WlRoom, NEW size \in WlSizes
  PROVE  /\ size.w \in Nat \ {0} /\ size.h \in Nat \ {0} /\ LongSide(size) \in Nat \ {0}
         /\ WlBar \in Nat /\ WlGap \in Nat
         /\ \A side \in {size.w, size.h, LongSide(size)} :
              WlGap < side /\ WlBar < side /\ 2 * WlGap <= side /\ 2 * WlBar + WlGap <= side
BY RoomGives DEF LongSide

(* The nearest point is one of the points. *)
LEMMA NearestIs ==
  ASSUME NEW origin \in Int, NEW points \in SUBSET Int, NEW limit
  PROVE  UpdateDockSlicePosition(origin, points, limit) \in points \cup {origin}
<1> DEFINE near == {p \in points : Distance(origin, p) < Greater(limit.w, limit.h)}
           Best(p) == \A q \in near : \/ Distance(origin, p) < Distance(origin, q)
                                      \/ Distance(origin, p) = Distance(origin, q) /\ p <= q
<1>1. CASE near = {}
  BY <1>1 DEF UpdateDockSlicePosition
<1>2. CASE near # {}
  <2> DEFINE A == {Distance(origin, p) : p \in near}
  <2>1. \A p \in near : p \in Int /\ Distance(origin, p) \in Nat
    BY DEF Distance
  <2>2. A \in SUBSET Nat /\ A # {}
    BY <1>2, <2>1
  <2>3. PICK d \in A : \A e \in A : d <= e
    <3> HIDE DEF A
    <3> QED BY <2>2, WlLeast
  <2>4. d \in Nat /\ \A q \in near : Distance(origin, q) \in Nat /\ d <= Distance(origin, q)
    BY <2>1, <2>2, <2>3
  <2>5. \A p \in near : Distance(origin, p) = d <=> p \in {origin - d, origin + d}
    BY <2>1, <2>4 DEF Distance
  <2>6. PICK p0 \in near : Distance(origin, p0) = d
    BY <2>3
  <2>7. \E p \in near : Best(p)
    <3>1. CASE origin - d \in near
      <4>1. Distance(origin, origin - d) = d
        BY <2>5, <3>1
      <4>2. Best(origin - d)
        <5> SUFFICES ASSUME NEW q \in near, ~(d < Distance(origin, q))
                     PROVE  d = Distance(origin, q) /\ origin - d <= q
          BY <4>1
        <5>1. Distance(origin, q) = d
          BY <2>4
        <5>2. q \in {origin - d, origin + d}
          BY <2>5, <5>1
        <5> QED BY <2>4, <5>1, <5>2
      <4> HIDE DEF near, Best
      <4> QED BY <3>1, <4>2
    <3>2. CASE origin - d \notin near
      <4>1. p0 = origin + d
        BY <2>5, <2>6, <3>2
      <4>2. Best(p0)
        <5> SUFFICES ASSUME NEW q \in near, ~(d < Distance(origin, q))
                     PROVE  d = Distance(origin, q) /\ p0 <= q
          BY <2>6
        <5>1. Distance(origin, q) = d
          BY <2>4
        <5>2. q \in {origin - d, origin + d}
          BY <2>5, <5>1
        <5>3. q = origin + d
          BY <3>2, <5>2
        <5> QED BY <2>4, <4>1, <5>1, <5>3
      <4> HIDE DEF near, Best
      <4> QED BY <4>2
    <3> QED BY <3>1, <3>2
  <2>8. (CHOOSE p \in near : Best(p)) \in near
    <3> HIDE DEF near, Best
    <3> QED BY <2>7
  <2>9. UpdateDockSlicePosition(origin, points, limit) = CHOOSE p \in near : Best(p)
    BY <1>2 DEF UpdateDockSlicePosition
  <2> QED BY <2>8, <2>9
<1> QED BY <1>1, <1>2

(* ---- the state of the policy ---- *)
IsLay(L) ==
  L = [size |-> L.size, vpr |-> L.vpr, node |-> L.node, limit |-> L.limit, primary |-> L.primary,
       secondary |-> L.secondary, primaryLimit |-> L.primaryLimit, secondaryLimit |-> L.secondaryLimit,
       divider |-> L.divider, cascade |-> L.cascade, points |-> L.points, snap |-> L.snap,
       first |-> L.first, restore |-> L.restore, skipped |-> L.skipped]
IsNode(n) ==
  n = [shown |-> n.shown, mode |-> n.mode, req |-> n.req, rect |-> n.rect, deco |-> n.deco, tall |-> n.tall]
(* What a bar asks for, for some size of the display. *)
BarAsks(b, r) ==
  /\ r \in WlRect /\ r.h \in 0 .. WlBar
  /\ \E s \in WlSizes : r.w = s.w /\ IF b = "status" THEN r.y = 0 ELSE s.h - WlBar <= r.y /\ r.y <= s.h
BarOK(b, n) == /\ IsNode(n) /\ n.rect.h \in 0 .. WlBar
               /\ n.shown => n.mode = "floating" /\ BarAsks(b, n.req)
DividerAsks(n) == IsNode(n) /\ (n.shown => Slim(n.req))
OfWindows(f) == f = [w \in Windows |-> f[w]]
Nodes(L) == /\ OfWindows(L.node)
            /\ \A b \in Bars : BarOK(b, L.node[b])
            /\ DividerAsks(L.node["divider"])
Base(L) == /\ IsLay(L) /\ L.size \in WlSizes /\ L.vpr \in WlRatios /\ Nodes(L)
           /\ L.restore = None \/ Slim(L.restore)
(* The divider's place and size in the middle, and the halves beside it. *)
Dividing(L) == /\ L.divider \in WlRect /\ Across(L.size, L.divider)
               /\ PlaceOK(L.size, Along(L.size, L.divider))
HalvesOK(L) ==
  LET gap == IF Vertical(L.size) THEN L.divider.h ELSE L.divider.w IN
  /\ \A half \in HalvesOf(L) : half \in WlRect /\ half.w >= 0 /\ half.h >= 0 /\ half.x >= 0 /\ half.y >= 0
  /\ IF Vertical(L.size)
     THEN /\ \A half \in HalvesOf(L) : half.x = 0 /\ half.w = L.size.w
          /\ L.primary.y = 0 /\ L.secondary.y = L.primary.h + gap /\ Bottom(L.secondary) = L.size.h
     ELSE /\ \A half \in HalvesOf(L) : half.y = 0 /\ half.h = L.size.h
          /\ L.primary.x = 0 /\ L.secondary.x = L.primary.w + gap /\ Right(L.secondary) = L.size.w
LimitsOK(L) == LimitOK(L.size, L.limit) /\ \A p \in L.points : PlaceOK(L.size, p)
Halved(L) == Base(L) /\ Dividing(L) /\ HalvesOK(L)
Ready(L)  == Halved(L) /\ LimitsOK(L)
Put(L)    == L.node["divider"].shown => Slim(L.node["divider"].rect)

(* A state in which only what the layout does not depend on has changed. *)
Alike(L, M) ==
  /\ IsLay(M) /\ M.size = L.size /\ M.vpr = L.vpr /\ M.limit = L.limit /\ M.points = L.points
  /\ M.divider = L.divider /\ M.primary = L.primary /\ M.secondary = L.secondary /\ M.restore = L.restore
  /\ OfWindows(M.node)
  /\ \A w \in Bars \cup {"divider"} : M.node[w] = L.node[w]

LEMMA DisplayIs ==
  ASSUME NEW L
  PROVE  /\ Display(L).x = 0 /\ Display(L).y = 0 /\ Display(L).w = L.size.w /\ Display(L).h = L.size.h
         /\ Vertical(Display(L)) <=> Vertical(L.size)
BY DEF Display, Rect, Vertical

LEMMA WindowsAre ==
  /\ Bars \subseteq Windows /\ "divider" \in Windows
  /\ \A w \in Bars \cup {"divider", "dock", "recents"} : w \in Windows /\ w \notin Apps /\ w \notin WlMains /\ w \notin WlSubs
  /\ \A w \in Apps \cup {"dock", "recents"} : w \notin Bars /\ w # "divider"
BY WlAssumption DEF Windows, Apps, Bars

LEMMA AlikeKeeps ==
  ASSUME NEW L, NEW M, Alike(L, M)
  PROVE  /\ Base(L) => Base(M) /\ (Halved(L) => Halved(M)) /\ (Ready(L) => Ready(M)) /\ (Put(L) => Put(M))
BY DEF Alike, Base, Nodes, Halved, Ready, Put, Dividing, HalvesOK, HalvesOf, LimitsOK

(* A divider inside the display leaves two halves. *)
LEMMA SetSplitOK ==
  ASSUME WlRoom, NEW L, Base(L), NEW div, div \in WlRect, Across(L.size, div),
         0 <= Along(L.size, div), Past(L.size, div) <= LongSide(L.size),
         L.divider \in WlRect, PlaceOK(L.size, Along(L.size, L.divider)),
         NEW M, M = SetSplitRect(L, div)
  PROVE  /\ Halved(M) /\ M.size = L.size /\ M.limit = L.limit /\ M.points = L.points /\ M.node = L.node
         /\ M.vpr = L.vpr
<1>1. /\ IsLay(M) /\ M.size = L.size /\ M.limit = L.limit /\ M.points = L.points /\ M.node = L.node
      /\ M.vpr = L.vpr /\ M.restore = L.restore
      /\ M.divider = [L.divider EXCEPT !.w = div.w, !.h = div.h]
      /\ M.primary = PrimaryOf(div, Display(L)) /\ M.secondary = SecondaryOf(div, Display(L))
  BY DEF SetSplitRect, Base, IsLay
<1>2. M.divider \in WlRect /\ M.divider.x = L.divider.x /\ M.divider.y = L.divider.y
      /\ M.divider.w = div.w /\ M.divider.h = div.h
  BY <1>1 DEF WlRect
<1>3. Dividing(M)
  BY <1>1, <1>2 DEF Dividing, Across, Along
<1>4. L.size.w \in Nat /\ L.size.h \in Nat /\ (Vertical(Display(L)) <=> Vertical(L.size))
  BY SizesAre DEF Base, Vertical, Display, Rect
<1>5. /\ div.x \in Int /\ div.y \in Int /\ div.w \in Nat /\ div.h \in Nat
  BY DEF WlRect, Across
<1>6. HalvesOK(M)
  <2>1. CASE Vertical(L.size)
    <3>1. M.primary = Rect(0, 0, L.size.w, div.y) /\ M.secondary = Rect(0, div.y + div.h, L.size.w, L.size.h - (div.y + div.h))
      BY <1>1, <2>1, DisplayIs DEF PrimaryOf, SecondaryOf, Bottom
    <3>2. 0 <= div.y /\ div.y + div.h <= L.size.h
      BY <2>1 DEF Along, Past, LongSide, Bottom
    <3>3. /\ M.primary.x = 0 /\ M.primary.y = 0 /\ M.primary.h = div.y /\ M.primary.w = L.size.w
          /\ M.secondary.y = div.y + div.h /\ M.secondary.x = 0 /\ M.secondary.w = L.size.w
          /\ M.secondary.h = L.size.h - (div.y + div.h)
      BY <3>1 DEF Rect
    <3>4. M.primary \in WlRect /\ M.secondary \in WlRect
      BY <1>4, <1>5, <3>1 DEF Rect, WlRect
    <3> QED BY <1>1, <1>2, <1>4, <1>5, <2>1, <3>2, <3>3, <3>4 DEF HalvesOK, HalvesOf, Bottom
  <2>2. CASE ~Vertical(L.size)
    <3>1. M.primary = Rect(0, 0, div.x, L.size.h) /\ M.secondary = Rect(div.x + div.w, 0, L.size.w - (div.x + div.w), L.size.h)
      BY <1>1, <2>2, DisplayIs DEF PrimaryOf, SecondaryOf, Right
    <3>2. 0 <= div.x /\ div.x + div.w <= L.size.w
      BY <2>2 DEF Along, Past, LongSide, Right
    <3>3. /\ M.primary.x = 0 /\ M.primary.y = 0 /\ M.primary.w = div.x /\ M.primary.h = L.size.h
          /\ M.secondary.x = div.x + div.w /\ M.secondary.y = 0 /\ M.secondary.h = L.size.h
          /\ M.secondary.w = L.size.w - (div.x + div.w)
      BY <3>1 DEF Rect
    <3>4. M.primary \in WlRect /\ M.secondary \in WlRect
      BY <1>4, <1>5, <3>1 DEF Rect, WlRect
    <3>5. \A half \in HalvesOf(M) : /\ half \in WlRect /\ half.w >= 0 /\ half.h >= 0 /\ half.x >= 0 /\ half.y >= 0
                                     /\ half.y = 0 /\ half.h = M.size.h
      BY <1>1, <1>4, <1>5, <3>2, <3>3, <3>4 DEF HalvesOf
    <3>6. M.secondary.x = M.primary.w + M.divider.w /\ M.primary.x = 0 /\ Right(M.secondary) = M.size.w
      BY <1>1, <1>2, <1>4, <1>5, <3>3 DEF Right
    <3> QED BY <1>1, <2>2, <3>5, <3>6, Zenon DEF HalvesOK
  <2> QED BY <2>1, <2>2
<1>7. Base(M)
  BY <1>1 DEF Base, Nodes
<1> QED BY <1>1, <1>3, <1>6, <1>7 DEF Halved

LEMMA InitSplitOK ==
  ASSUME WlRoom, NEW L, Base(L), NEW M, M = InitSplitRects(L)
  PROVE  Halved(M) /\ M.size = L.size /\ M.node = L.node
<1> DEFINE width == Scaled(WlDivide, L.vpr)
           div == InitDivider(Display(L), L.vpr)
           N == [L EXCEPT !.divider = div]
<1>1. /\ L.size.w \in Nat /\ L.size.h \in Nat /\ (Vertical(Display(L)) <=> Vertical(L.size))
      /\ \A side \in {L.size.w, L.size.h} : WlGap < side /\ 2 * WlGap <= side
      /\ width \in Nat /\ WlGap \in Nat /\ width <= WlGap
  BY SizesAre, RoomGives DEF Base, Vertical, Display, Rect
<1>2. div = IF Vertical(L.size) THEN Rect(0, (L.size.h - width) \div 2, L.size.w, width)
                                ELSE Rect((L.size.w - width) \div 2, 0, width, L.size.h)
  BY <1>1 DEF InitDivider, Display, Rect
<1>3. /\ div \in WlRect /\ Across(L.size, div) /\ PlaceOK(L.size, Along(L.size, div))
      /\ 0 <= Along(L.size, div) /\ Past(L.size, div) <= LongSide(L.size)
  <2> HIDE DEF width, div
  <2>1. CASE Vertical(L.size)
    <3> DEFINE k == (L.size.h - width) \div 2
    <3>0. k \in Nat /\ 2 * k <= L.size.h - width
      BY <1>1
    <3>1. div = Rect(0, k, L.size.w, width)
      BY <1>2, <2>1
    <3> HIDE DEF k
    <3>2. /\ div.x = 0 /\ div.y = k /\ div.w = L.size.w /\ div.h = width /\ div \in WlRect
      <4>1. 0 \in Int /\ k \in Int /\ L.size.w \in Int /\ L.size.h \in Int /\ width \in Int
        BY <1>1, <3>0
      <4> QED BY <3>1, <4>1 DEF Rect, WlRect
    <3> QED BY <1>1, <2>1, <3>0, <3>2 DEF Across, PlaceOK, Along, Past, LongSide, Bottom
  <2>2. CASE ~Vertical(L.size)
    <3> DEFINE k == (L.size.w - width) \div 2
    <3>0. k \in Nat /\ 2 * k <= L.size.w - width
      BY <1>1
    <3>1. div = Rect(k, 0, width, L.size.h)
      BY <1>2, <2>2
    <3> HIDE DEF k
    <3>2. /\ div.x = k /\ div.y = 0 /\ div.h = L.size.h /\ div.w = width /\ div \in WlRect
      <4>1. 0 \in Int /\ k \in Int /\ L.size.w \in Int /\ L.size.h \in Int /\ width \in Int
        BY <1>1, <3>0
      <4> QED BY <3>1, <4>1 DEF Rect, WlRect
    <3> QED BY <1>1, <2>2, <3>0, <3>2 DEF Across, PlaceOK, Along, Past, LongSide, Right
  <2> QED BY <2>1, <2>2
<1>4. /\ IsLay(N) /\ N.size = L.size /\ N.vpr = L.vpr /\ N.node = L.node /\ N.restore = L.restore /\ N.divider = div
  <2> HIDE DEF div
  <2> QED BY DEF Base, IsLay
<1>5. M = SetSplitRect(N, div)
  BY DEF InitSplitRects
<1> HIDE DEF N, div
<1>6. Base(N)
  BY <1>4 DEF Base, Nodes
<1> QED BY <1>3, <1>4, <1>5, <1>6, SetSplitOK

(* ---- what the bars leave ---- *)
LEMMA PointFits ==
  ASSUME NEW far \in Nat, NEW side \in Nat, side <= far, NEW thick \in Nat, NEW gap \in Nat, thick <= gap, gap <= far,
         NEW p \in 1 .. 99, 100 * gap <= (100 - p) * side
  PROVE  /\ ((far - thick) * p) \div 100 \in Nat
         /\ ((far - thick) * p) \div 100 + gap <= far
<1> DEFINE a == (far - thick) * p
           q == a \div 100
<1>1. a \in Nat /\ a <= far * p /\ far * p \in Nat
  <2>1. far - thick \in Nat /\ far - thick <= far
    OBVIOUS
  <2> QED BY <2>1, SMT
<1>2. 100 * q <= a /\ q \in Nat
  BY <1>1
<1>3. (100 - p) * side <= (100 - p) * far /\ (100 - p) * far = 100 * far - p * far /\ p * far = far * p
  <2>1. 100 - p \in Nat
    OBVIOUS
  <2> QED BY <2>1, SMT
<1>4. (100 - p) * side \in Int
  OBVIOUS
<1>5. 100 * gap <= 100 * far - far * p
  BY <1>1, <1>3, <1>4
<1> HIDE DEF a, q
<1>6. q \in Nat /\ q + gap <= far
  BY <1>1, <1>2, <1>5
<1> QED BY <1>6 DEF q, a

(* The divider snaps to places that are in the display. *)
LEMMA PointsOK ==
  ASSUME WlRoom, NEW size \in WlSizes, NEW limit, LimitOK(size, limit), NEW div, Across(size, div), NEW p \in WlSnaps
  PROVE  PlaceOK(size, GetSplitRatioPoint(p, size, limit, div))
<1>1. /\ WlBar \in Nat /\ WlGap \in Nat /\ p \in 1 .. 99
      /\ \A side \in {size.w, size.h} :
           /\ side \in Nat /\ 2 * WlBar + WlGap <= side
           /\ 100 * WlGap <= (100 - p) * (side - 2 * WlBar)
  BY RoomGives
<1>2. /\ limit.x = 0 /\ limit.w = size.w /\ limit.y \in Nat /\ limit.h \in Int
      /\ limit.y <= WlBar /\ size.h - WlBar <= limit.y + limit.h /\ limit.y + limit.h <= size.h
  BY <1>1 DEF LimitOK, WlRect, Bottom
<1>3. CASE Vertical(size)
  <2>1. div.h \in Nat /\ div.h <= WlGap
    BY <1>3 DEF Across
  <2>2. limit.h \in Nat /\ size.h - 2 * WlBar <= limit.h /\ WlGap <= limit.h /\ size.h - 2 * WlBar \in Nat
    BY <1>1, <1>2
  <2> DEFINE q == ((limit.h - div.h) * p) \div 100
  <2>3. q \in Nat /\ q + WlGap <= limit.h
    BY <1>1, <2>1, <2>2, PointFits
  <2>4. GetSplitRatioPoint(p, size, limit, div) = limit.y + q
    BY <1>3 DEF GetSplitRatioPoint
  <2> HIDE DEF q
  <2> QED BY <1>1, <1>2, <1>3, <2>2, <2>3, <2>4 DEF PlaceOK, LongSide
<1>4. CASE ~Vertical(size)
  <2>1. div.w \in Nat /\ div.w <= WlGap
    BY <1>4 DEF Across
  <2>2. size.w \in Nat /\ size.w - 2 * WlBar <= size.w /\ WlGap <= size.w /\ size.w - 2 * WlBar \in Nat
    BY <1>1
  <2> DEFINE q == ((size.w - div.w) * p) \div 100
  <2>3. q \in Nat /\ q + WlGap <= size.w
    BY <1>1, <2>1, <2>2, PointFits
  <2>4. GetSplitRatioPoint(p, size, limit, div) = 0 + q
    BY <1>2, <1>4 DEF GetSplitRatioPoint
  <2> HIDE DEF q
  <2> QED BY <1>1, <1>4, <2>2, <2>3, <2>4 DEF PlaceOK, LongSide
<1> QED BY <1>3, <1>4

(* Nothing of this depends on anything else. *)
Similar(L, M) ==
  /\ IsLay(M) /\ M.size = L.size /\ M.vpr = L.vpr
  /\ M.divider = L.divider /\ M.primary = L.primary /\ M.secondary = L.secondary
LEMMA SimilarKeeps ==
  ASSUME NEW L, NEW M, Base(L), Similar(L, M), Nodes(M), M.restore = None \/ Slim(M.restore)
  PROVE  /\ Base(M)
         /\ Halved(L) => Halved(M)
         /\ Ready(L) /\ M.limit = L.limit /\ M.points = L.points => Ready(M)
BY DEF Similar, Base, Halved, Ready, Dividing, HalvesOK, HalvesOf, LimitsOK

LEMMA WithPointsOK ==
  ASSUME WlRoom, NEW L, Halved(L), LimitOK(L.size, L.limit), NEW M, M = WithPoints(L)
  PROVE  Ready(M) /\ M.node = L.node /\ M.size = L.size /\ M.limit = L.limit
<1>1. /\ Similar(L, M) /\ M.node = L.node /\ M.restore = L.restore /\ M.limit = L.limit
      /\ M.points = {GetSplitRatioPoint(p, L.size, L.limit, L.divider) : p \in WlSnaps}
  BY DEF WithPoints, Similar, Halved, Base, IsLay
<1>2. Base(L) /\ Nodes(M)
  BY <1>1 DEF Halved, Base, Nodes
<1>3. Halved(M)
  BY <1>1, <1>2, SimilarKeeps DEF Base
<1>4. L.size \in WlSizes /\ Across(L.size, L.divider)
  BY DEF Halved, Base, Dividing
<1>5. \A q \in M.points : PlaceOK(L.size, q)
  BY <1>1, <1>4, PointsOK
<1> QED BY <1>1, <1>3, <1>5 DEF Ready, LimitsOK, Similar

LEMMA InitLimitOK ==
  ASSUME WlRoom, NEW L, Halved(L), NEW M, M = InitLimitRects(L)
  PROVE  Ready(M) /\ M.node = L.node /\ M.size = L.size
<1> DEFINE N == [L EXCEPT !.limit = Display(L), !.primaryLimit = L.primary, !.secondaryLimit = L.secondary]
<1>1. /\ Similar(L, N) /\ N.node = L.node /\ N.restore = L.restore /\ N.limit = Display(L) /\ N.size = L.size
  <2>1. IsLay(L)
    BY DEF Halved, Base
  <2>2. N = [L EXCEPT !.limit = Display(L), !.primaryLimit = L.primary, !.secondaryLimit = L.secondary]
    OBVIOUS
  <2> HIDE DEF N
  <2> QED BY <2>1, <2>2 DEF Similar, IsLay
<1>2. M = WithPoints(N)
  BY DEF InitLimitRects
<1> HIDE DEF N
<1>3. Base(L) /\ Nodes(N) /\ L.size \in WlSizes
  BY <1>1 DEF Halved, Base, Nodes
<1>4. Halved(N)
  BY <1>1, <1>3, SimilarKeeps DEF Base
<1>5. LimitOK(N.size, N.limit)
  <2>1. L.size.w \in Nat /\ L.size.h \in Nat /\ WlBar \in Nat
    BY <1>3, SizesAre
  <2> QED BY <1>1, <2>1 DEF LimitOK, Display, Rect, WlRect, Bottom
<1> QED BY <1>1, <1>2, <1>4, <1>5, WithPointsOK

LEMMA NodePlaced ==
  ASSUME NEW m, IsNode(m), NEW r, NEW n, n = [m EXCEPT !.rect = r]
  PROVE  IsNode(n) /\ n.req = m.req /\ n.rect = r /\ n.shown = m.shown /\ n.mode = m.mode
BY DEF IsNode

LEMMA DividerPlaced ==
  ASSUME NEW m, IsNode(m), m.shown, NEW req, NEW r, NEW n, n = [m EXCEPT !.req = req, !.rect = r]
  PROVE  n.shown
BY DEF IsNode

(* A bar is laid where it asks to be, as long as a window may be. *)
LEMMA BarLaid ==
  ASSUME WlRoom, NEW L, Base(L), NEW b \in Bars, L.node[b].shown, NEW n, n = Laid(L, b, FALSE)
  PROVE  /\ BarOK(b, n) /\ n.shown
         /\ n.rect.x = n.req.x /\ n.rect.y = n.req.y
         /\ n.rect.w = Lesser(Scaled(WlMax, L.vpr), n.req.w) /\ n.rect.h = Lesser(Scaled(WlMax, L.vpr), n.req.h)
<1> DEFINE m == L.node[b]
           lim == LimitsOf(L, b)
           most == Scaled(WlMax, L.vpr)
           c == Clamped(b, m.req, lim)
<1>1. /\ b \in Windows /\ b \notin WlMains /\ b \notin WlSubs /\ b \notin WlDecor /\ b \notin WlParentLimit
      /\ b \notin {"main", "sub", "camera"} /\ KindOf(b) = b
  BY WindowsAre, WlAssumption DEF Bars, KindOf
<1>2. BarOK(b, m) /\ m.mode = "floating" /\ m.req \in WlRect /\ m.req.h \in 0 .. WlBar
  BY DEF Base, Nodes, BarOK, BarAsks
<1>3. lim.maxW = most /\ lim.maxH = most /\ ~FixedWidth(lim) /\ most \in Nat /\ WlBar \in Nat
  <2>1. L.size \in WlSizes /\ L.vpr \in WlRatios /\ b \in Bars \cup {"divider"}
    BY DEF Base
  <2> QED BY <2>1, LimitsOfOthers, RoomGives
<1> HIDE DEF m, lim, most
<1>4. /\ c = [m.req EXCEPT !.w = Lesser(most, m.req.w), !.h = Lesser(most, m.req.h)]
  BY <1>1, <1>3 DEF Clamped
<1>5. c.x = m.req.x /\ c.y = m.req.y /\ c.w = Lesser(most, m.req.w) /\ c.h = Lesser(most, m.req.h)
      /\ c = [x |-> c.x, y |-> c.y, w |-> c.w, h |-> c.h]
  BY <1>2, <1>4 DEF WlRect
<1> HIDE DEF c
<1>6. UpdateFloatingWindowSizeBySizeLimits(b, m.mode, m.tall, m.req, lim) = c
  BY <1>1, <1>3 DEF UpdateFloatingWindowSizeBySizeLimits, InRatio, c
<1>7. LimitFloatingWindowSize(b, m, m.req, lim, FALSE) = c
  BY <1>5, <1>6 DEF LimitFloatingWindowSize, KeepFarSide
<1>8. ComputeDecoratedRequestRect(L, b) = m
  BY <1>1 DEF ComputeDecoratedRequestRect, m
<1>9. n = [m EXCEPT !.rect = c]
  BY <1>1, <1>2, <1>7, <1>8 DEF Laid, LaidNode, LimitFloatingWindow, InParent, lim
<1>11. c.h \in 0 .. WlBar
  BY <1>2, <1>3, <1>5 DEF Lesser
<1>12. IsNode(n) /\ n.req = m.req /\ n.rect = c /\ n.shown = m.shown /\ n.mode = m.mode
  BY <1>2, <1>9, NodePlaced DEF BarOK
<1>13. BarOK(b, n)
  BY <1>2, <1>11, <1>12 DEF BarOK
<1>14. n.shown
  BY <1>12, Zenon DEF m
<1> QED BY <1>5, <1>12, <1>13, <1>14 DEF most

(* A bar takes from the limit its own strip, or nothing when it was made for a display
   of another size.                                                                 *)
LEMMA BarTakes ==
  ASSUME WlRoom, NEW size \in WlSizes, NEW vpr \in WlRatios, NEW display,
         display.w = size.w, display.h = size.h, NEW limit, LimitOK(size, limit),
         NEW b \in Bars, NEW req, BarAsks(b, req), NEW r,
         r.x = req.x, r.y = req.y, r.w = Lesser(Scaled(WlMax, vpr), req.w), r.h = Lesser(Scaled(WlMax, vpr), req.h)
  PROVE  LimitOK(size, UpdateLimitRect(r, limit, display))
<1>1. PICK s \in WlSizes : req.w = s.w /\ IF b = "status" THEN req.y = 0 ELSE s.h - WlBar <= req.y /\ req.y <= s.h
  BY DEF BarAsks
<1>2. /\ req.x \in Int /\ req.y \in Int /\ req.h \in 0 .. WlBar
  BY DEF BarAsks, WlRect
<1>3. /\ WlBar \in Nat /\ Scaled(WlMax, vpr) \in Nat
      /\ size.w \in Nat /\ size.h \in Nat /\ WlBar < size.h /\ 2 * WlBar <= size.h /\ size.w > 0
      /\ Lesser(Scaled(WlMax, vpr), s.w) = size.w => s = size
  <2>1. WlBar \in Nat /\ WlGap \in Nat /\ Scaled(WlMax, vpr) \in Nat /\ size.w \in Nat \ {0} /\ size.h \in Nat
        /\ WlBar < size.h /\ 2 * WlBar + WlGap <= size.h
        /\ (Lesser(Scaled(WlMax, vpr), s.w) = size.w => s = size)
    BY RoomGives
  <2> QED BY <2>1
<1>4. r.y \in Int /\ r.h \in 0 .. WlBar /\ Bottom(r) = r.y + r.h
  BY <1>2, <1>3 DEF Lesser, Bottom
<1>5. /\ limit.x = 0 /\ limit.w = size.w /\ limit.y \in Int /\ limit.h \in Int /\ Right(limit) = size.w /\ Bottom(limit) \in Int
      /\ 0 <= limit.y /\ limit.y <= WlBar /\ size.h - WlBar <= Bottom(limit) /\ Bottom(limit) <= size.h
  BY <1>3 DEF LimitOK, WlRect, Right, Bottom
<1> DEFINE at == GetAvoidPosType(r, display)
           y == IF at = "top" THEN Bottom(r) ELSE limit.y
           bottom == IF at = "bottom" THEN r.y ELSE Bottom(limit)
<1>6. at \in {"top", "bottom", "unknown"}
  BY <1>3, <1>4 DEF GetAvoidPosType
<1>7. at = "top" => r.y = 0
  <2>1. at = "top" => r.w = display.w /\ r.y = 0
    BY <1>3, <1>4 DEF GetAvoidPosType
  <2> QED BY <2>1
<1>8. at = "bottom" => r.y # 0 /\ s = size /\ r.y = req.y
  <2>1. at = "bottom" => r.w = display.w /\ r.y # 0
    BY <1>3, <1>4 DEF GetAvoidPosType
  <2> QED BY <1>1, <1>3, <2>1
<1>9. at = "bottom" => size.h - WlBar <= r.y /\ r.y <= size.h
  BY <1>1, <1>8
<1>10. UpdateLimitRect(r, limit, display) = Rect(0, y, NotBelowZero(size.w - 0), NotBelowZero(bottom - y))
  <2> HIDE DEF at
  <2>1. at # "left" /\ at # "right"
    BY <1>6
  <2> QED BY <1>5, <2>1 DEF UpdateLimitRect, at
<1>11. y \in Int /\ bottom \in Int /\ 0 <= y /\ y <= WlBar /\ size.h - WlBar <= bottom /\ bottom <= size.h
  <2> HIDE DEF at
  <2> QED BY <1>3, <1>4, <1>5, <1>7, <1>9
<1> HIDE DEF y, bottom
<1>12. NotBelowZero(size.w - 0) = size.w /\ NotBelowZero(bottom - y) = bottom - y
  BY <1>3, <1>11 DEF NotBelowZero, Greater
<1>13. UpdateLimitRect(r, limit, display) = Rect(0, y, size.w, bottom - y)
  BY <1>10, <1>12
<1> QED BY <1>3, <1>11, <1>13 DEF LimitOK, WlRect, Rect, Bottom

WithNode(L, w, n) == [L EXCEPT !.node[w] = n]
LEMMA NodeSet ==
  ASSUME NEW L, Base(L), NEW w \in Windows, NEW n, NEW M, M = WithNode(L, w, n)
  PROVE  /\ Similar(L, M) /\ M.restore = L.restore /\ M.limit = L.limit /\ M.points = L.points
         /\ OfWindows(M.node) /\ M.node[w] = n
         /\ \A v \in Windows \ {w} : M.node[v] = L.node[v]
<1>1. IsLay(L) /\ L.node = [v \in Windows |-> L.node[v]]
  BY DEF Base, Nodes, OfWindows
<1> DEFINE f == [L.node EXCEPT ![w] = n]
<1>2. M = [L EXCEPT !.node = f]
  BY DEF WithNode
<1>3. f = [v \in Windows |-> f[v]] /\ f[w] = n /\ \A v \in Windows \ {w} : f[v] = L.node[v]
  <2> DEFINE g == L.node
  <2>1. g = [v \in Windows |-> g[v]]
    BY <1>1
  <2> HIDE DEF g
  <2>2. f = [g EXCEPT ![w] = n]
    BY DEF g
  <2>3. \A v \in Windows : f[v] = IF v = w THEN n ELSE g[v]
    BY <2>1, <2>2
  <2>4. f = [v \in Windows |-> f[v]]
    BY <2>1, <2>2
  <2> HIDE DEF f
  <2> QED BY <2>3, <2>4 DEF g
<1> HIDE DEF f
<1>4. /\ IsLay(M) /\ M.size = L.size /\ M.vpr = L.vpr /\ M.restore = L.restore /\ M.limit = L.limit /\ M.points = L.points
      /\ M.divider = L.divider /\ M.primary = L.primary /\ M.secondary = L.secondary /\ M.node = f
  BY <1>1, <1>2 DEF IsLay
<1> QED BY <1>3, <1>4 DEF Similar, OfWindows

LEMMA LimitedOK ==
  ASSUME WlRoom, NEW L, Halved(L), NEW limit, LimitOK(L.size, limit), NEW M, M = LimitedTo(L, limit)
  PROVE  Ready(M) /\ M.node = L.node /\ M.size = L.size
<1> DEFINE a == Within(limit, L.primaryLimit)
           b == Within(limit, L.secondaryLimit)
           N == [L EXCEPT !.limit = limit, !.primaryLimit = a, !.secondaryLimit = b]
<1>1. M = WithPoints(N)
  BY DEF LimitedTo
<1> HIDE DEF a, b
<1>2. N = [L EXCEPT !.limit = limit, !.primaryLimit = a, !.secondaryLimit = b]
  OBVIOUS
<1> HIDE DEF N
<1>3. IsLay(L)
  BY DEF Halved, Base
<1>4. /\ Similar(L, N) /\ N.node = L.node /\ N.restore = L.restore /\ N.limit = limit /\ N.size = L.size
  BY <1>2, <1>3 DEF Similar, IsLay
<1>5. Base(L) /\ Nodes(N)
  BY <1>4 DEF Halved, Base, Nodes
<1>6. Halved(N)
  BY <1>4, <1>5, SimilarKeeps DEF Base
<1> QED BY <1>1, <1>4, <1>6, WithPointsOK

LEMMA LayAboveOneOK ==
  ASSUME WlRoom, NEW L, Ready(L), NEW w \in Bars \cup {"recents", "dock"}, NEW M, M = LayAboveOne(L, w)
  PROVE  Ready(M) /\ M.node["divider"] = L.node["divider"] /\ M.size = L.size
<1> DEFINE n == Laid(L, w, FALSE)
           N == [L EXCEPT !.node[w] = n]
<1>1. M = IF Shown(L, w) THEN TakeBar(N, w) ELSE L
  BY DEF LayAboveOne
<1>2. n = Laid(L, w, FALSE) /\ N = WithNode(L, w, n)
  BY DEF WithNode
<1> HIDE DEF n, N
<1>3. Base(L) /\ Halved(L) /\ w \in Windows /\ w # "divider" /\ "divider" \in Windows /\ w \notin WlSubs
  BY WindowsAre DEF Ready, Halved, Bars, Windows
<1>4. /\ Similar(L, N) /\ N.restore = L.restore /\ N.limit = L.limit /\ N.points = L.points
      /\ OfWindows(N.node) /\ N.node[w] = n
      /\ \A v \in Windows \ {w} : N.node[v] = L.node[v]
  <2>1. Base(L) /\ w \in Windows /\ N = WithNode(L, w, n)
    BY <1>2, <1>3
  <2>2. Similar(L, N) /\ N.restore = L.restore /\ N.limit = L.limit /\ N.points = L.points
    BY <2>1, NodeSet
  <2>3. OfWindows(N.node) /\ N.node[w] = n
    BY <2>1, NodeSet
  <2>4. \A v \in Windows \ {w} : N.node[v] = L.node[v]
    BY <2>1, NodeSet
  <2> QED BY <2>2, <2>3, <2>4
<1>5. N.node["divider"] = L.node["divider"] /\ N.size = L.size /\ N.vpr = L.vpr
  BY <1>3, <1>4 DEF Similar
<1>6. CASE ~Shown(L, w)
  BY <1>1, <1>6
<1>7. CASE Shown(L, w) /\ w \notin Bars
  <2>1. Nodes(N)
    BY <1>3, <1>4, <1>5, <1>7, WindowsAre DEF Base, Nodes
  <2>2. Ready(N)
    BY <1>3, <1>4, <2>1, SimilarKeeps DEF Base
  <2>3. M = N
    BY <1>1, <1>7 DEF TakeBar
  <2> QED BY <1>5, <2>2, <2>3
<1>8. CASE Shown(L, w) /\ w \in Bars
  <2>1. L.node[w].shown
    BY <1>8 DEF Shown
  <2>2. /\ BarOK(w, n) /\ n.shown /\ n.rect.x = n.req.x /\ n.rect.y = n.req.y
        /\ n.rect.w = Lesser(Scaled(WlMax, L.vpr), n.req.w) /\ n.rect.h = Lesser(Scaled(WlMax, L.vpr), n.req.h)
    BY <1>2, <1>3, <1>8, <2>1, BarLaid
  <2>4. BarAsks(w, n.req)
    BY <2>2 DEF BarOK
  <2>5. Nodes(N)
    BY <1>3, <1>4, <1>5, <2>2, WindowsAre DEF Base, Nodes
  <2>6. Ready(N) /\ Halved(N)
    <3>1. Ready(N)
      BY <1>3, <1>4, <2>5, SimilarKeeps DEF Base
    <3> QED BY <3>1 DEF Ready
  <2>7. L.size \in WlSizes /\ L.vpr \in WlRatios /\ Display(N).w = L.size.w /\ Display(N).h = L.size.h
    BY <1>3, <1>5, DisplayIs DEF Base
  <2>8. LimitOK(L.size, N.limit)
    BY <1>4 DEF Ready, LimitsOK
  <2>9. LimitOK(L.size, UpdateLimitRect(n.rect, N.limit, Display(N)))
    BY <1>8, <2>2, <2>4, <2>7, <2>8, BarTakes
  <2>10. M = LimitedTo(N, UpdateLimitRect(n.rect, N.limit, Display(N)))
    BY <1>1, <1>4, <1>8 DEF TakeBar
  <2>11. Ready(M) /\ M.node = N.node /\ M.size = N.size
    BY <1>5, <2>6, <2>9, <2>10, LimitedOK
  <2> QED BY <1>5, <2>11
<1> QED BY <1>6, <1>7, <1>8

(* The windows above the applications, one after the other. *)
LEMMA LayAboveIs ==
  ASSUME NEW L
  PROVE  LayAbove(L) = LayAboveOne(LayAboveOne(LayAboveOne(LayAboveOne(L, "recents"), "dock"), "status"), "navigation")
<1> DEFINE L1 == LayAboveOne(L, "recents")
           L2 == LayAboveOne(L1, "dock")
           L3 == LayAboveOne(L2, "status")
           L4 == LayAboveOne(L3, "navigation")
           Step(i, before) == IF i = 0 THEN L ELSE LayAboveOne(before[i - 1], Above[i])
           f == [i \in 0 .. 4 |-> IF i = 0 THEN L ELSE IF i = 1 THEN L1 ELSE IF i = 2 THEN L2 ELSE IF i = 3 THEN L3 ELSE L4]
<1> DEFINE g == CHOOSE after : after = [i \in 0 .. 4 |-> IF i = 0 THEN L ELSE LayAboveOne(after[i - 1], Above[i])]
<1>1. Len(Above) = 4 /\ Above[1] = "recents" /\ Above[2] = "dock" /\ Above[3] = "status" /\ Above[4] = "navigation"
  BY DEF Above
<1>2. LayAbove(L) = g[4]
  BY <1>1 DEF LayAbove
<1>3. f = [i \in 0 .. 4 |-> IF i = 0 THEN L ELSE LayAboveOne(f[i - 1], Above[i])]
  <2> HIDE DEF L1, L2, L3, L4
  <2>1. f[0] = L /\ f[1] = L1 /\ f[2] = L2 /\ f[3] = L3 /\ f[4] = L4
    OBVIOUS
  <2>2. \A i \in 0 .. 4 : f[i] = IF i = 0 THEN L ELSE LayAboveOne(f[i - 1], Above[i])
    <3> TAKE i \in 0 .. 4
    <3>1. i \in {0, 1, 2, 3, 4}
      OBVIOUS
    <3> HIDE DEF f
    <3>2. i = 1 => i - 1 = 0 /\ f[i] = LayAboveOne(f[0], Above[i])
      BY <1>1, <2>1 DEF L1
    <3>3. i = 2 => i - 1 = 1 /\ f[i] = LayAboveOne(f[1], Above[i])
      BY <1>1, <2>1 DEF L2
    <3>4. i = 3 => i - 1 = 2 /\ f[i] = LayAboveOne(f[2], Above[i])
      BY <1>1, <2>1 DEF L3
    <3>5. i = 4 => i - 1 = 3 /\ f[i] = LayAboveOne(f[3], Above[i])
      BY <1>1, <2>1 DEF L4
    <3> QED BY <2>1, <3>1, <3>2, <3>3, <3>4, <3>5
  <2>3. f = [i \in 0 .. 4 |-> f[i]]
    OBVIOUS
  <2> HIDE DEF f
  <2> QED BY <2>2, <2>3, Zenon
<1>4. g = [i \in 0 .. 4 |-> IF i = 0 THEN L ELSE LayAboveOne(g[i - 1], Above[i])]
  <2> HIDE DEF f
  <2> QED BY <1>3, Zenon
<1> HIDE DEF g, L1, L2, L3, L4
<1>5. g[4] = L4
  <2>1. g[0] = L
    BY <1>4
  <2>2. g[1] = L1
    BY <1>1, <1>4, <2>1 DEF L1
  <2>3. g[2] = L2
    BY <1>1, <1>4, <2>2 DEF L2
  <2>4. g[3] = L3
    BY <1>1, <1>4, <2>3 DEF L3
  <2> QED BY <1>1, <1>4, <2>4 DEF L4
<1> QED BY <1>2, <1>5 DEF L1, L2, L3, L4

LEMMA LayAboveOK ==
  ASSUME WlRoom, NEW L, Ready(L), NEW M, M = LayAbove(L)
  PROVE  Ready(M) /\ M.node["divider"] = L.node["divider"] /\ M.size = L.size
<1> DEFINE L1 == LayAboveOne(L, "recents")
           L2 == LayAboveOne(L1, "dock")
           L3 == LayAboveOne(L2, "status")
           L4 == LayAboveOne(L3, "navigation")
<1>1. M = L4
  BY LayAboveIs
<1> HIDE DEF L1, L2, L3, L4
<1>2. Ready(L1) /\ L1.node["divider"] = L.node["divider"] /\ L1.size = L.size
  BY LayAboveOneOK DEF L1
<1>3. Ready(L2) /\ L2.node["divider"] = L1.node["divider"] /\ L2.size = L1.size
  BY <1>2, LayAboveOneOK DEF L2
<1>4. Ready(L3) /\ L3.node["divider"] = L2.node["divider"] /\ L3.size = L2.size
  BY <1>3, LayAboveOneOK DEF L3, Bars
<1>5. Ready(L4) /\ L4.node["divider"] = L3.node["divider"] /\ L4.size = L3.size
  BY <1>4, LayAboveOneOK DEF L4, Bars
<1> QED BY <1>1, <1>2, <1>3, <1>4, <1>5

(* ---- the divider ---- *)
LEMMA MoveBoundsOK ==
  ASSUME WlRoom, NEW size \in WlSizes, NEW limit, LimitOK(size, limit), NEW req, Slim(req),
         NEW r, r = LimitDividerMoveBounds(req, limit)
  PROVE  /\ r \in WlRect /\ r.w = req.w /\ r.h = req.h
         /\ r.w < r.h => 0 <= r.x /\ r.x + r.w <= size.w
         /\ ~(r.w < r.h) => 0 <= r.y /\ r.y + r.h <= size.h
<1>1. /\ WlBar \in Nat /\ WlGap \in Nat /\ size.w \in Nat /\ size.h \in Nat
      /\ WlGap < size.w /\ 2 * WlBar + WlGap <= size.h
  BY SizesAre
<1>2. /\ limit.x = 0 /\ limit.w = size.w /\ limit.y \in Nat /\ limit.h \in Int
      /\ limit.y <= WlBar /\ size.h - WlBar <= limit.y + limit.h /\ limit.y + limit.h <= size.h
  BY <1>1 DEF LimitOK, WlRect, Bottom
<1>3. /\ req \in WlRect /\ req.x \in Int /\ req.y \in Int /\ req.w \in Nat /\ req.h \in Nat
      /\ (req.w > WlGap /\ req.h <= WlGap) \/ (req.h > WlGap /\ req.w <= WlGap)
  BY DEF Slim, Thin, WlRect
<1>4. CASE req.w < req.h
  <2> DEFINE x == IF req.x < 0 THEN 0 ELSE IF req.x + req.w > size.w THEN size.w - req.w ELSE req.x
  <2>1. r = [req EXCEPT !.x = x]
    BY <1>1, <1>2, <1>4 DEF LimitDividerMoveBounds, Right
  <2>2. req.w <= WlGap
    BY <1>1, <1>3, <1>4
  <2>3. x \in Int /\ 0 <= x /\ x + req.w <= size.w
    BY <1>1, <1>3, <2>2
  <2> HIDE DEF x
  <2>4. r \in WlRect /\ r.x = x /\ r.w = req.w /\ r.h = req.h
    BY <1>3, <2>1, <2>3 DEF WlRect
  <2> QED BY <1>4, <2>3, <2>4
<1>5. CASE ~(req.w < req.h)
  <2> DEFINE far == limit.y + limit.h
             y == IF req.y < limit.y THEN limit.y ELSE IF req.y + req.h > far THEN far - req.h ELSE req.y
  <2>1. r = [req EXCEPT !.y = y]
    BY <1>5 DEF LimitDividerMoveBounds, Bottom
  <2>2. req.h <= WlGap
    BY <1>1, <1>3, <1>5
  <2>3. y \in Int /\ 0 <= y /\ y + req.h <= size.h
    BY <1>1, <1>2, <1>3, <2>2
  <2> HIDE DEF y
  <2>4. r \in WlRect /\ r.y = y /\ r.w = req.w /\ r.h = req.h
    BY <1>3, <2>1, <2>3 DEF WlRect
  <2> QED BY <1>5, <2>3, <2>4
<1> QED BY <1>4, <1>5

LEMMA SnappedOK ==
  ASSUME WlRoom, NEW L, Ready(L), NEW r, r \in WlRect, NEW s, s = Snapped(L, r)
  PROVE  /\ s \in WlRect /\ s.w = r.w /\ s.h = r.h
         /\ Along(L.size, s) = Along(L.size, r) \/ PlaceOK(L.size, Along(L.size, s))
<1>1. L.points \in SUBSET Int /\ \A p \in L.points : PlaceOK(L.size, p)
  BY DEF Ready, LimitsOK, PlaceOK
<1>2. r.x \in Int /\ r.y \in Int
  BY DEF WlRect
<1>3. CASE ~L.snap
  BY <1>3 DEF Snapped
<1>4. CASE L.snap /\ Vertical(L.size)
  <2> DEFINE y == UpdateDockSlicePosition(r.y, L.points, L.limit)
  <2>1. y \in L.points \cup {r.y}
    BY <1>1, <1>2, NearestIs
  <2>2. s = [r EXCEPT !.y = y]
    BY <1>4 DEF Snapped
  <2> HIDE DEF y
  <2>3. y \in Int
    BY <1>1, <1>2, <2>1
  <2>4. s \in WlRect /\ s.y = y /\ s.w = r.w /\ s.h = r.h
    BY <2>2, <2>3 DEF WlRect
  <2> QED BY <1>1, <1>4, <2>1, <2>4 DEF Along
<1>5. CASE L.snap /\ ~Vertical(L.size)
  <2> DEFINE x == UpdateDockSlicePosition(r.x, L.points, L.limit)
  <2>1. x \in L.points \cup {r.x}
    BY <1>1, <1>2, NearestIs
  <2>2. s = [r EXCEPT !.x = x]
    BY <1>5 DEF Snapped
  <2> HIDE DEF x
  <2>3. x \in Int
    BY <1>1, <1>2, <2>1
  <2>4. s \in WlRect /\ s.x = x /\ s.w = r.w /\ s.h = r.h
    BY <2>2, <2>3 DEF WlRect
  <2> QED BY <1>1, <1>5, <2>1, <2>4 DEF Along
<1> QED BY <1>3, <1>4, <1>5

(* Between the halves of a display of this size. *)
Between(size, d) == /\ d \in WlRect /\ Across(size, d)
                    /\ 0 <= Along(size, d) /\ Past(size, d) <= LongSide(size)
(* Cut to the largest size of a window it is still one. *)
LEMMA CutBetween ==
  ASSUME WlRoom, NEW size \in WlSizes, NEW most \in Nat, WlGap < most, NEW r, Between(size, r),
         NEW w, w = Lesser(most, r.w), NEW h, h = Lesser(most, r.h), NEW c, c = [r EXCEPT !.w = w, !.h = h]
  PROVE  Between(size, c) /\ Slim(c)
<1>1. WlGap \in Nat /\ size.w \in Nat /\ size.h \in Nat
  BY SizesAre
<1>2. r \in WlRect /\ r.x \in Int /\ r.y \in Int /\ r.w \in Nat /\ r.h \in Nat
  BY DEF Between, WlRect, Across
<1>3. w \in Nat /\ h \in Nat /\ w <= r.w /\ h <= r.h /\ (r.w > WlGap => w > WlGap) /\ (r.h > WlGap => h > WlGap)
  BY <1>1, <1>2 DEF Lesser
<1>5. c \in WlRect /\ c.x = r.x /\ c.y = r.y /\ c.w = w /\ c.h = h
  <2>1. r \in WlRect /\ w \in Int /\ h \in Int
    BY <1>2, <1>3
  <2>2. c \in WlRect
    BY <2>1 DEF WlRect
  <2>3. c.x = r.x /\ c.y = r.y
    BY <2>1 DEF WlRect
  <2>4. c.w = w /\ c.h = h
    BY <2>1 DEF WlRect
  <2> QED BY <2>2, <2>3, <2>4
<1>6. CASE Vertical(size)
  <2>1. Across(size, c) /\ Thin(c)
    BY <1>1, <1>2, <1>3, <1>5, <1>6 DEF Across, Between, Thin
  <2>2. 0 <= Along(size, c) /\ Past(size, c) <= LongSide(size)
    BY <1>1, <1>2, <1>3, <1>5, <1>6 DEF Between, Along, Past, LongSide, Bottom
  <2> QED BY <1>5, <2>1, <2>2 DEF Between, Slim
<1>7. CASE ~Vertical(size)
  <2>1. Across(size, c) /\ Thin(c)
    BY <1>1, <1>2, <1>3, <1>5, <1>7 DEF Across, Between, Thin
  <2>2. 0 <= Along(size, c) /\ Past(size, c) <= LongSide(size)
    BY <1>1, <1>2, <1>3, <1>5, <1>7 DEF Between, Along, Past, LongSide, Right
  <2> QED BY <1>5, <2>1, <2>2 DEF Between, Slim
<1> QED BY <1>6, <1>7

(* Where a divider may be placed there is room for it. *)
LEMMA PlaceBetween ==
  ASSUME WlRoom, NEW size \in WlSizes, NEW d, d \in WlRect, Across(size, d), PlaceOK(size, Along(size, d))
  PROVE  Between(size, d)
<1>1. WlGap \in Nat /\ size.w \in Nat /\ size.h \in Nat /\ d.x \in Int /\ d.y \in Int
  BY SizesAre DEF WlRect
<1> QED BY <1>1 DEF Between, Across, PlaceOK, Along, Past, LongSide, Right, Bottom

LEMMA LaidDividerOK ==
  ASSUME WlRoom, NEW L, Ready(L), L.node["divider"].shown, NEW n, n = LaidDivider(L)
  PROVE  DividerAsks(n) /\ n.shown /\ Between(L.size, n.rect) /\ Slim(n.rect)
<1> DEFINE m == L.node["divider"]
           most == Scaled(WlMax, L.vpr)
           lim == LimitsOf(L, "divider")
           r0 == LimitDividerMoveBounds(m.req, L.limit)
           r1 == Snapped(L, r0)
           req == IF Turned(L, r1) THEN L.divider ELSE m.req
           r == IF Turned(L, r1) THEN L.divider ELSE r1
           c == Clamped("divider", r, lim)
<1>1. L.size \in WlSizes /\ L.vpr \in WlRatios /\ LimitOK(L.size, L.limit) /\ IsNode(m) /\ Slim(m.req)
      /\ L.divider \in WlRect /\ Across(L.size, L.divider) /\ PlaceOK(L.size, Along(L.size, L.divider))
  BY DEF Ready, Halved, Base, Nodes, DividerAsks, Dividing, LimitsOK
<1>2. lim.maxW = most /\ lim.maxH = most /\ most \in Nat /\ WlGap < most
  BY <1>1, LimitsOfOthers, RoomGives
<1>3. n = [m EXCEPT !.req = req, !.rect = c]
  BY DEF LaidDivider, DividerAt, PutDivider
<1>4. /\ r0 \in WlRect /\ r0.w = m.req.w /\ r0.h = m.req.h
      /\ r0.w < r0.h => 0 <= r0.x /\ r0.x + r0.w <= L.size.w
      /\ ~(r0.w < r0.h) => 0 <= r0.y /\ r0.y + r0.h <= L.size.h
  <2> HIDE DEF m
  <2> QED BY <1>1, MoveBoundsOK
<1>5. /\ r1 \in WlRect /\ r1.w = r0.w /\ r1.h = r0.h
      /\ Along(L.size, r1) = Along(L.size, r0) \/ PlaceOK(L.size, Along(L.size, r1))
  <2> HIDE DEF r0
  <2> QED BY <1>4, SnappedOK
<1> HIDE DEF r1, r0, m, lim, most
<1>6. Slim(L.divider) /\ Between(L.size, L.divider)
  BY <1>1, PlaceBetween DEF Slim, Thin, Across
<1>7. ~Turned(L, r1) => Between(L.size, r1)
  <2> SUFFICES ASSUME ~Turned(L, r1) PROVE Between(L.size, r1)
    OBVIOUS
  <2>1. Thin(r1) /\ WlGap \in Nat /\ (r1.w > r1.h <=> Vertical(L.size))
    BY <1>1, <1>4, <1>5, SizesAre DEF Slim, Thin, Turned, IsLandscapeRect
  <2>2. Across(L.size, r1)
    BY <2>1 DEF Thin, Across
  <2>3. r0.x \in Int /\ r0.y \in Int /\ r1.x \in Int /\ r1.y \in Int /\ r1.w \in Nat /\ r1.h \in Nat
    BY <1>4, <1>5, <2>1 DEF WlRect, Thin
  <2>4. CASE PlaceOK(L.size, Along(L.size, r1))
    BY <1>1, <1>5, <2>2, <2>4, PlaceBetween
  <2>5. CASE Along(L.size, r1) = Along(L.size, r0) /\ Vertical(L.size)
    BY <1>4, <1>5, <2>1, <2>2, <2>3, <2>5 DEF Between, Along, Past, LongSide, Bottom
  <2>6. CASE Along(L.size, r1) = Along(L.size, r0) /\ ~Vertical(L.size)
    <3>1. r0.w < r0.h
      BY <1>5, <2>1, <2>6 DEF Thin
    <3> QED BY <1>4, <1>5, <2>2, <2>3, <2>6, <3>1 DEF Between, Along, Past, LongSide, Right
  <2> QED BY <1>5, <2>4, <2>5, <2>6
<1>8. Between(L.size, r) /\ Slim(req)
  BY <1>1, <1>6, <1>7
<1> HIDE DEF req, r
<1> DEFINE w == Lesser(most, r.w)
           h == Lesser(most, r.h)
<1>9. c = [r EXCEPT !.w = w, !.h = h] /\ w = Lesser(most, r.w) /\ h = Lesser(most, r.h)
  BY <1>2 DEF Clamped
<1> HIDE DEF c, w, h
<1>10. Between(L.size, c) /\ Slim(c)
  BY <1>1, <1>2, <1>8, <1>9, CutBetween
<1>11. IsNode(n) /\ n.req = req /\ n.rect = c /\ n.shown
  <2>1. m.shown
    BY DEF m
  <2>2. IsNode(n) /\ n.req = req /\ n.rect = c
    BY <1>1, <1>3 DEF IsNode
  <2>3. n.shown
    BY <1>1, <1>3, <2>1, DividerPlaced
  <2> QED BY <2>2, <2>3
<1> QED BY <1>8, <1>10, <1>11 DEF DividerAsks

(* ---- the tree ---- *)
LEMMA NodesSet ==
  ASSUME NEW L, IsLay(L), NEW f, OfWindows(f), NEW M, M = [L EXCEPT !.node = f]
  PROVE  Similar(L, M) /\ M.restore = L.restore /\ M.limit = L.limit /\ M.points = L.points /\ M.node = f
BY DEF Similar, IsLay

LEMMA NodesKept ==
  ASSUME NEW L, Base(L), NEW M, Similar(L, M), M.restore = L.restore, M.limit = L.limit, M.points = L.points,
         OfWindows(M.node), \A b \in Bars : M.node[b] = L.node[b], DividerAsks(M.node["divider"])
  PROVE  Base(M) /\ M.size = L.size /\ (Halved(L) => Halved(M)) /\ (Ready(L) => Ready(M))
<1>1. Nodes(M)
  BY DEF Base, Nodes
<1>2. M.restore = None \/ Slim(M.restore)
  BY DEF Base
<1> QED BY <1>1, <1>2, SimilarKeeps DEF Similar

LEMMA LaySubsOK ==
  ASSUME WlRoom, NEW L, Ready(L), NEW mains, NEW M, M = LaySubs(L, mains)
  PROVE  Ready(M) /\ M.size = L.size /\ M.node["divider"] = L.node["divider"]
<1> DEFINE f == [w \in Windows |-> IF w \in WlSubs /\ Shown(L, w) /\ WlParent[w] \in mains
                                   THEN Laid(L, w, FALSE) ELSE L.node[w]]
<1>1. M = [L EXCEPT !.node = f]
  BY DEF LaySubs
<1>2. OfWindows(f) /\ f["divider"] = L.node["divider"] /\ \A b \in Bars : f[b] = L.node[b]
  BY WindowsAre DEF OfWindows
<1> HIDE DEF f
<1>3. Base(L) /\ IsLay(L)
  BY DEF Ready, Halved, Base
<1>4. Similar(L, M) /\ M.restore = L.restore /\ M.limit = L.limit /\ M.points = L.points /\ M.node = f
  BY <1>1, <1>2, <1>3, NodesSet
<1>5. DividerAsks(M.node["divider"])
  BY <1>2, <1>3, <1>4 DEF Base, Nodes
<1> QED BY <1>2, <1>3, <1>4, <1>5, NodesKept

LEMMA LayAppsOK ==
  ASSUME WlRoom, NEW L, Ready(L), NEW M, M = LayApps(L)
  PROVE  Ready(M) /\ M.size = L.size /\ Put(M)
<1> DEFINE f == [w \in Windows |-> IF ~Shown(L, w) THEN L.node[w]
                                   ELSE IF w = "divider" THEN LaidDivider(L)
                                   ELSE IF w \in WlMains THEN Laid(L, w, FALSE) ELSE L.node[w]]
           N == [L EXCEPT !.node = f]
<1>1. M = LaySubs(N, WlMains)
  BY DEF LayApps
<1>2. OfWindows(f) /\ \A b \in Bars : f[b] = L.node[b]
  <2>1. OfWindows(f)
    BY DEF OfWindows
  <2>2. ASSUME NEW b \in Bars PROVE f[b] = L.node[b]
    <3>1. b \in Windows /\ b # "divider" /\ b \notin WlMains
      BY WindowsAre DEF Bars
    <3> QED BY <3>1
  <2> QED BY <2>1, <2>2
<1>3. f["divider"] = IF L.node["divider"].shown THEN LaidDivider(L) ELSE L.node["divider"]
  <2>1. "divider" \in Windows /\ "divider" \notin WlSubs /\ "divider" \notin WlMains
    BY WindowsAre
  <2>2. Shown(L, "divider") <=> L.node["divider"].shown
    BY <2>1 DEF Shown
  <2> QED BY <2>1, <2>2
<1>4. N = [L EXCEPT !.node = f]
  OBVIOUS
<1> HIDE DEF f, N
<1>5. Base(L) /\ IsLay(L)
  BY DEF Ready, Halved, Base
<1>6. Similar(L, N) /\ N.restore = L.restore /\ N.limit = L.limit /\ N.points = L.points /\ N.node = f
  BY <1>2, <1>4, <1>5, NodesSet
<1>7. DividerAsks(N.node["divider"]) /\ Put(N)
  <2>1. CASE L.node["divider"].shown
    <3>1. N.node["divider"] = LaidDivider(L)
      BY <1>3, <1>6, <2>1
    <3>2. DividerAsks(LaidDivider(L)) /\ Slim(LaidDivider(L).rect)
      BY <2>1, LaidDividerOK
    <3> QED BY <3>1, <3>2 DEF Put
  <2>2. CASE ~L.node["divider"].shown
    <3>1. N.node["divider"] = L.node["divider"]
      BY <1>3, <1>6, <2>2
    <3> QED BY <1>5, <2>2, <3>1 DEF Put, Base, Nodes
  <2> QED BY <2>1, <2>2
<1>8. Ready(N) /\ N.size = L.size
  BY <1>2, <1>5, <1>6, <1>7, NodesKept
<1>9. Ready(M) /\ M.size = N.size /\ M.node["divider"] = N.node["divider"]
  BY <1>1, <1>8, LaySubsOK
<1> QED BY <1>7, <1>8, <1>9 DEF Put

LEMMA LayoutWindowTreeOK ==
  ASSUME WlRoom, NEW L, Halved(L), NEW M, M = LayoutWindowTree(L)
  PROVE  Ready(M) /\ M.size = L.size /\ (Put(L) => Put(M))
<1> DEFINE L1 == InitLimitRects(L)
           L2 == LayAbove(L1)
<1>1. Ready(L1) /\ L1.node = L.node /\ L1.size = L.size
  BY InitLimitOK
<1>2. Ready(L2) /\ L2.node["divider"] = L1.node["divider"] /\ L2.size = L1.size
  BY <1>1, LayAboveOK
<1>3. M = LayBelowRecents(L2)
  BY DEF LayoutWindowTree
<1> HIDE DEF L1, L2
<1> DEFINE N == IF Shown(L2, "recents") THEN L2 ELSE LayApps(L2)
           late == IF Shown(L2, "recents") THEN TRUE ELSE FALSE
<1>4. Ready(N) /\ N.size = L2.size /\ (Put(L2) => Put(N))
  BY <1>2, LayAppsOK
<1>5. M = [N EXCEPT !.skipped = late]
  <2>1. CASE Shown(L2, "recents")
    <3>1. M = [L2 EXCEPT !.skipped = TRUE] /\ N = L2 /\ late = TRUE
      BY <1>3, <2>1 DEF LayBelowRecents
    <3> QED BY <3>1
  <2>2. CASE ~Shown(L2, "recents")
    <3>1. M = [LayApps(L2) EXCEPT !.skipped = FALSE] /\ N = LayApps(L2) /\ late = FALSE
      BY <1>3, <2>2 DEF LayBelowRecents
    <3> QED BY <3>1
  <2> QED BY <2>1, <2>2
<1> HIDE DEF N, late
<1>6. IsLay(N) /\ Base(N)
  BY <1>4 DEF Ready, Halved, Base
<1>7. Similar(N, M) /\ M.restore = N.restore /\ M.limit = N.limit /\ M.points = N.points /\ M.node = N.node
  BY <1>5, <1>6 DEF Similar, IsLay
<1>8. Ready(M) /\ M.size = N.size
  BY <1>4, <1>6, <1>7, NodesKept DEF Base, Nodes
<1> QED BY <1>1, <1>2, <1>4, <1>7, <1>8 DEF Put

LEMMA SplitAtOK ==
  ASSUME WlRoom, NEW L, Ready(L), NEW n, DividerAsks(n), Between(L.size, n.rect), Slim(n.rect), NEW M, M = SplitAt(L, n)
  PROVE  Halved(M) /\ M.size = L.size /\ Put(M)
<1> DEFINE N == WithNode(L, "divider", n)
<1>1. M = SetSplitRect(N, n.rect)
  BY DEF SplitAt, WithNode
<1>2. Base(L) /\ Halved(L) /\ "divider" \in Windows /\ "divider" \notin Bars
  BY WindowsAre DEF Ready, Halved, Bars
<1> HIDE DEF N
<1>3. Similar(L, N) /\ N.restore = L.restore /\ N.limit = L.limit /\ N.points = L.points
  BY <1>2, NodeSet DEF N
<1>4. OfWindows(N.node) /\ N.node["divider"] = n
  BY <1>2, NodeSet DEF N
<1>5. \A b \in Bars : N.node[b] = L.node[b]
  <2>1. \A v \in Windows \ {"divider"} : N.node[v] = L.node[v]
    BY <1>2, NodeSet DEF N
  <2> QED BY <1>2, <2>1, WindowsAre
<1>6. Halved(N) /\ Base(N) /\ N.size = L.size
  BY <1>2, <1>3, <1>4, <1>5, NodesKept
<1>7. N.divider \in WlRect /\ PlaceOK(N.size, Along(N.size, N.divider))
  BY <1>6 DEF Halved, Dividing
<1>8. n.rect \in WlRect /\ Across(N.size, n.rect) /\ 0 <= Along(N.size, n.rect) /\ Past(N.size, n.rect) <= LongSide(N.size)
  BY <1>6 DEF Between
<1>9. Halved(M) /\ M.size = N.size /\ M.node = N.node
  BY <1>1, <1>6, <1>7, <1>8, SetSplitOK
<1> QED BY <1>4, <1>6, <1>9 DEF Put

LEMMA LayoutWindowNodeOK ==
  ASSUME WlRoom, NEW L, Ready(L), NEW w \in Windows, w \notin Bars, w # "divider", NEW dragged,
         NEW M, M = LayoutWindowNode(L, w, dragged)
  PROVE  Ready(M) /\ M.size = L.size /\ (Put(L) => Put(M))
<1> DEFINE n == Laid(L, w, dragged)
           N == WithNode(L, w, n)
<1>1. M = IF ~Shown(L, w) THEN L ELSE LaySubs(N, {w})
  BY DEF LayoutWindowNode, WithNode
<1>2. Base(L)
  BY DEF Ready, Halved
<1> HIDE DEF n, N
<1>3. Similar(L, N) /\ N.restore = L.restore /\ N.limit = L.limit /\ N.points = L.points
  BY <1>2, NodeSet DEF N
<1>4. OfWindows(N.node)
  BY <1>2, NodeSet DEF N
<1>5. N.node["divider"] = L.node["divider"] /\ \A b \in Bars : N.node[b] = L.node[b]
  <2>1. \A v \in Windows \ {w} : N.node[v] = L.node[v]
    BY <1>2, NodeSet DEF N
  <2> QED BY <2>1, WindowsAre
<1>6. Ready(N) /\ N.size = L.size
  BY <1>2, <1>3, <1>4, <1>5, NodesKept DEF Base, Nodes
<1>7. CASE ~Shown(L, w)
  BY <1>1, <1>7
<1>8. CASE Shown(L, w)
  <2>1. Ready(M) /\ M.size = N.size /\ M.node["divider"] = N.node["divider"]
    BY <1>1, <1>6, <1>8, LaySubsOK
  <2> QED BY <1>5, <1>6, <2>1 DEF Put
<1> QED BY <1>7, <1>8

LEMMA UpdateWindowNodeOK ==
  ASSUME WlRoom, NEW L, Ready(L), NEW w \in Windows, NEW dragged,
         w = "divider" => L.node["divider"].shown, w # "divider" => Put(L),
         NEW M, M = UpdateWindowNode(L, w, dragged)
  PROVE  Ready(M) /\ M.size = L.size /\ Put(M)
<1>1. CASE w = "divider"
  <2> DEFINE n == LaidDivider(L)
             N == SplitAt(L, n)
  <2>1. DividerAsks(n) /\ Between(L.size, n.rect) /\ Slim(n.rect)
    BY <1>1, LaidDividerOK
  <2> HIDE DEF n
  <2>2. Halved(N) /\ N.size = L.size /\ Put(N)
    BY <2>1, SplitAtOK
  <2>3. M = LayoutWindowTree(N)
    BY <1>1 DEF UpdateWindowNode, n
  <2> HIDE DEF N
  <2> QED BY <2>2, <2>3, LayoutWindowTreeOK
<1>2. CASE w # "divider" /\ (w \in Bars \/ Split(L, w))
  <2>1. M = LayoutWindowTree(L)
    BY <1>2 DEF UpdateWindowNode
  <2> QED BY <1>2, <2>1, LayoutWindowTreeOK DEF Ready
<1>3. CASE w # "divider" /\ w \notin Bars /\ ~Split(L, w)
  <2>1. M = LayoutWindowNode(L, w, dragged)
    BY <1>3 DEF UpdateWindowNode
  <2> QED BY <1>3, <2>1, LayoutWindowNodeOK
<1> QED BY <1>1, <1>2, <1>3

LEMMA LaunchOK ==
  ASSUME WlRoom, NEW L, Base(L), NEW M, M = Launch(L)
  PROVE  Ready(M) /\ M.size = L.size /\ M.node["divider"] = L.node["divider"]
<1> DEFINE L1 == InitSplitRects(L)
           L2 == InitLimitRects(L1)
           L3 == LayAbove(L2)
           c == FirstCascadeRect(Display(L3), L3.limit)
<1>1. Halved(L1) /\ L1.size = L.size /\ L1.node = L.node
  BY InitSplitOK
<1>2. Ready(L2) /\ L2.node = L1.node /\ L2.size = L1.size
  BY <1>1, InitLimitOK
<1>3. Ready(L3) /\ L3.node["divider"] = L2.node["divider"] /\ L3.size = L2.size
  BY <1>2, LayAboveOK
<1>4. M = [L3 EXCEPT !.cascade = c]
  BY DEF Launch, InitCascadeRect
<1> HIDE DEF L1, L2, L3, c
<1>5. IsLay(L3) /\ Base(L3)
  BY <1>3 DEF Ready, Halved, Base
<1>6. Similar(L3, M) /\ M.restore = L3.restore /\ M.limit = L3.limit /\ M.points = L3.points /\ M.node = L3.node
  BY <1>4, <1>5 DEF Similar, IsLay
<1>7. Ready(M) /\ M.size = L3.size
  BY <1>3, <1>5, <1>6, NodesKept DEF Base, Nodes
<1> QED BY <1>1, <1>2, <1>3, <1>6, <1>7

(* ---- clear of the bars ---- *)
(* The half of the display that the limit leaves. *)
Cut(limit, half, r) ==
  r = Rect(half.x, Greater(limit.y, half.y), half.w, Lesser(Bottom(limit), Bottom(half)) - Greater(limit.y, half.y))
HalvesCut(L) == Cut(L.limit, L.primary, L.primaryLimit) /\ Cut(L.limit, L.secondary, L.secondaryLimit)
(* A bar that covers an edge of the display is out of the limit. *)
KeptOut(L, b) ==
  L.node[b].shown /\ L.node[b].rect.w = L.size.w =>
    /\ L.node[b].rect.y \in Int /\ L.node[b].rect.h \in Int
    /\ IF b = "status" THEN Bottom(L.node[b].rect) <= L.limit.y ELSE Bottom(L.limit) <= L.node[b].rect.y
Fresh(L) == HalvesCut(L) /\ \A b \in Bars : KeptOut(L, b)
(* A window that avoids the bars and does not float has the area of its mode. *)
InArea(L, m) ==
  L.node[m].shown /\ L.node[m].mode # "floating" /\ m \in WlAvoid => L.node[m].rect = GetLimitRect(L, L.node[m].mode)
SettledBut(L, ms) == ~L.skipped => \A m \in WlMains \ ms : InArea(L, m)
MainNodes(L) == \A m \in WlMains : IsNode(L.node[m])
ClearBut(L, ms) == MainNodes(L) /\ Fresh(L) /\ SettledBut(L, ms)
Clear(L) == ClearBut(L, {})

SameAreas(L, M) ==
  /\ M.size = L.size /\ M.limit = L.limit /\ M.primary = L.primary /\ M.secondary = L.secondary
  /\ M.primaryLimit = L.primaryLimit /\ M.secondaryLimit = L.secondaryLimit /\ M.skipped = L.skipped

LEMMA MainsAre ==
  ASSUME NEW m \in WlMains
  PROVE  /\ m \in Windows /\ m \in Apps /\ m \notin WlSubs /\ m \notin Bars
         /\ m # "divider" /\ m # "dock" /\ m # "recents" /\ KindOf(m) = "main"
BY WlAssumption DEF Windows, Apps, Bars, KindOf

LEMMA OneKept ==
  ASSUME NEW L, NEW M, SameAreas(L, M), NEW m, M.node[m] = L.node[m]
  PROVE  (InArea(L, m) <=> InArea(M, m)) /\ (KeptOut(L, m) <=> KeptOut(M, m))
BY DEF SameAreas, InArea, GetLimitRect, Display, KeptOut

LEMMA FreshKept ==
  ASSUME NEW L, Fresh(L), NEW M, SameAreas(L, M), \A b \in Bars : M.node[b] = L.node[b]
  PROVE  Fresh(M)
<1>1. \A b \in Bars : KeptOut(M, b)
  BY OneKept DEF Fresh
<1>2. HalvesCut(M)
  BY DEF Fresh, HalvesCut, SameAreas
<1> QED BY <1>1, <1>2 DEF Fresh

LEMMA NodesSame ==
  ASSUME NEW L, IsLay(L), NEW f, NEW M, M = [L EXCEPT !.node = f]
  PROVE  SameAreas(L, M) /\ M.node = f /\ IsLay(M)
BY DEF IsLay, SameAreas

LEMMA DecoratedIs ==
  ASSUME NEW L, NEW m, IsNode(L.node[m]), NEW n, n = ComputeDecoratedRequestRect(L, m)
  PROVE  IsNode(n) /\ n.shown = L.node[m].shown /\ n.mode = L.node[m].mode /\ n.rect = L.node[m].rect
<1> DEFINE frame == Scaled(WlFrame, L.vpr)
           p == L.node[m]
<1>1. CASE m \notin WlDecor \/ p.deco
  BY <1>1 DEF ComputeDecoratedRequestRect
<1>2. CASE ~(m \notin WlDecor \/ p.deco)
  <2>1. n = [p EXCEPT !.req = [@ EXCEPT !.w = @ + frame + frame, !.h = @ + Title(L) + frame], !.deco = TRUE]
    BY <1>2, Zenon DEF ComputeDecoratedRequestRect
  <2> QED BY <2>1 DEF IsNode
<1> QED BY <1>1, <1>2

LEMMA MainLaid ==
  ASSUME NEW L, NEW m \in WlMains, IsNode(L.node[m]), NEW dragged, NEW n, n = Laid(L, m, dragged)
  PROVE  /\ IsNode(n) /\ n.shown = L.node[m].shown /\ n.mode = L.node[m].mode
         /\ n.mode # "floating" /\ m \in WlAvoid => n.rect = GetLimitRect(L, n.mode)
<1> DEFINE d == ComputeDecoratedRequestRect(L, m)
           r == IF d.mode = "floating" THEN LimitFloatingWindow(L, m, d, InParent(L, m, d.req), LimitsOf(L, m), dragged)
                ELSE AreaOf(L, m, d.mode)
<1>1. n = [d EXCEPT !.rect = r]
  BY DEF Laid, LaidNode
<1>2. IsNode(d) /\ d.shown = L.node[m].shown /\ d.mode = L.node[m].mode
  BY DecoratedIs
<1>3. d.mode # "floating" /\ m \in WlAvoid => r = GetLimitRect(L, d.mode)
  BY DEF AreaOf
<1> HIDE DEF d, r
<1>4. IsNode(n) /\ n.rect = r /\ n.shown = d.shown /\ n.mode = d.mode
  BY <1>1, <1>2 DEF IsNode
<1> QED BY <1>2, <1>3, <1>4

LEMMA WithinCut ==
  ASSUME NEW size, size.w \in Nat, size.h \in Nat,
         NEW limit, limit \in WlRect, limit.x = 0, limit.w = size.w,
         NEW new, new \in WlRect, new.x = 0, new.w = size.w, limit.y <= new.y, Bottom(new) <= Bottom(limit),
         NEW half, half \in WlRect, 0 <= half.x, 0 <= half.w, half.x + half.w <= size.w,
         NEW r, Cut(limit, half, r)
  PROVE  Cut(new, half, Within(new, r))
<1> DEFINE top == Greater(limit.y, half.y)
           end == Lesser(Bottom(limit), Bottom(half))
<1>1. /\ limit.y \in Int /\ new.y \in Int /\ half.x \in Int /\ half.y \in Int /\ half.w \in Int
      /\ Bottom(limit) \in Int /\ Bottom(new) \in Int /\ Bottom(half) \in Int
  BY DEF WlRect, Bottom
<1>2. top \in Int /\ end \in Int
  BY <1>1 DEF Greater, Lesser
<1>3. r = Rect(half.x, top, half.w, end - top)
  BY DEF Cut
<1>4. Greater(new.y, top) = Greater(new.y, half.y) /\ Lesser(Bottom(new), end) = Lesser(Bottom(new), Bottom(half))
  BY <1>1 DEF Greater, Lesser
<1> HIDE DEF top, end
<1>5. r.x = half.x /\ r.y = top /\ Right(r) = half.x + half.w /\ Bottom(r) = end
  BY <1>1, <1>2, <1>3 DEF Rect, Right, Bottom
<1>6. Greater(new.x, r.x) = half.x /\ Lesser(Right(new), Right(r)) - half.x = half.w
  BY <1>1, <1>5 DEF Greater, Lesser, Right
<1>7. Within(new, r) = Rect(half.x, Greater(new.y, top), half.w, Lesser(Bottom(new), end) - Greater(new.y, top))
  BY <1>5, <1>6 DEF Within
<1> QED BY <1>4, <1>7 DEF Cut

(* The whole display cuts nothing off. *)
LEMMA DisplayCuts ==
  ASSUME NEW size, size.w \in Nat, size.h \in Nat, NEW limit, limit.y = 0, Bottom(limit) = size.h,
         NEW half, half \in WlRect, 0 <= half.y, Bottom(half) <= size.h
  PROVE  Cut(limit, half, half)
<1>1. Greater(limit.y, half.y) = half.y /\ Lesser(Bottom(limit), Bottom(half)) - half.y = half.h
  BY DEF WlRect, Greater, Lesser, Bottom
<1>2. half = Rect(half.x, half.y, half.w, half.h)
  BY DEF WlRect, Rect
<1> QED BY <1>1, <1>2 DEF Cut

LEMMA HalvesInside ==
  ASSUME WlRoom, NEW L, Halved(L), NEW half \in HalvesOf(L)
  PROVE  /\ half \in WlRect /\ 0 <= half.x /\ 0 <= half.y /\ 0 <= half.w /\ 0 <= half.h
         /\ half.x + half.w <= L.size.w /\ half.y + half.h <= L.size.h
         /\ L.size.w \in Nat /\ L.size.h \in Nat
<1>1. L.size.w \in Nat /\ L.size.h \in Nat
  BY SizesAre DEF Halved, Base
<1>2. half \in WlRect /\ 0 <= half.x /\ 0 <= half.y /\ 0 <= half.w /\ 0 <= half.h
  BY DEF Halved, HalvesOK, WlRect
<1>3. L.primary \in WlRect /\ L.secondary \in WlRect /\ L.divider.w \in Nat /\ L.divider.h \in Nat
  BY DEF Halved, HalvesOK, HalvesOf, Dividing, Across
<1>4. half.x + half.w <= L.size.w /\ half.y + half.h <= L.size.h
  <2>1. CASE Vertical(L.size)
    <3>1. /\ L.primary.x = 0 /\ L.primary.w = L.size.w /\ L.secondary.x = 0 /\ L.secondary.w = L.size.w
          /\ L.primary.y = 0 /\ L.secondary.y = L.primary.h + L.divider.h /\ L.secondary.y + L.secondary.h = L.size.h
          /\ L.secondary.h >= 0
      BY <2>1 DEF Halved, HalvesOK, HalvesOf, Bottom
    <3> QED BY <1>1, <1>3, <3>1 DEF HalvesOf, WlRect
  <2>2. CASE ~Vertical(L.size)
    <3>1. /\ L.primary.y = 0 /\ L.primary.h = L.size.h /\ L.secondary.y = 0 /\ L.secondary.h = L.size.h
          /\ L.primary.x = 0 /\ L.secondary.x = L.primary.w + L.divider.w /\ L.secondary.x + L.secondary.w = L.size.w
          /\ L.secondary.w >= 0
      BY <2>2 DEF Halved, HalvesOK, HalvesOf, Right
    <3> QED BY <1>1, <1>3, <3>1 DEF HalvesOf, WlRect
  <2> QED BY <2>1, <2>2
<1> QED BY <1>1, <1>2, <1>4

LEMMA WithPointsSame ==
  ASSUME NEW L, IsLay(L), NEW M, M = WithPoints(L)
  PROVE  SameAreas(L, M) /\ M.node = L.node
BY DEF IsLay, WithPoints, SameAreas

(* First the limits are the display and the halves. *)
LEMMA InitLimitCuts ==
  ASSUME WlRoom, NEW L, Halved(L), NEW M, M = InitLimitRects(L)
  PROVE  /\ HalvesCut(M) /\ M.node = L.node
         /\ M.limit.y = 0 /\ Bottom(M.limit) = M.size.h
<1> DEFINE N == [L EXCEPT !.limit = Display(L), !.primaryLimit = L.primary, !.secondaryLimit = L.secondary]
<1>1. IsLay(L)
  BY DEF Halved, Base
<1>2. N = [L EXCEPT !.limit = Display(L), !.primaryLimit = L.primary, !.secondaryLimit = L.secondary]
  OBVIOUS
<1>3. M = WithPoints(N)
  BY DEF InitLimitRects
<1> HIDE DEF N
<1>4. /\ IsLay(N) /\ N.node = L.node /\ N.limit = Display(L) /\ N.size = L.size /\ N.primary = L.primary
      /\ N.secondary = L.secondary /\ N.primaryLimit = L.primary /\ N.secondaryLimit = L.secondary
  BY <1>1, <1>2 DEF IsLay
<1>5. SameAreas(N, M) /\ M.node = N.node
  BY <1>3, <1>4, WithPointsSame
<1>6. /\ M.node = L.node /\ M.limit = Display(L) /\ M.size = L.size /\ M.primary = L.primary
      /\ M.secondary = L.secondary /\ M.primaryLimit = L.primary /\ M.secondaryLimit = L.secondary
  BY <1>4, <1>5 DEF SameAreas
<1>7. L.size.w \in Nat /\ L.size.h \in Nat
  BY SizesAre DEF Halved, Base
<1>8. M.limit.y = 0 /\ Bottom(M.limit) = L.size.h
  BY <1>6, <1>7, DisplayIs DEF Bottom
<1>9. \A half \in HalvesOf(L) : Cut(M.limit, half, half)
  <2> TAKE half \in HalvesOf(L)
  <2>1. half \in WlRect /\ 0 <= half.y /\ Bottom(half) <= L.size.h
    BY HalvesInside DEF Bottom
  <2> QED BY <1>7, <1>8, <2>1, DisplayCuts
<1> QED BY <1>6, <1>8, <1>9 DEF HalvesCut, HalvesOf

(* A limit that is less high cuts more. *)
LEMMA LimitedCuts ==
  ASSUME WlRoom, NEW L, Halved(L), HalvesCut(L), LimitOK(L.size, L.limit),
         NEW limit, LimitOK(L.size, limit), L.limit.y <= limit.y, Bottom(limit) <= Bottom(L.limit),
         NEW M, M = LimitedTo(L, limit)
  PROVE  HalvesCut(M) /\ M.node = L.node /\ M.limit = limit /\ M.size = L.size /\ M.skipped = L.skipped
<1> DEFINE p == Within(limit, L.primaryLimit)
           s == Within(limit, L.secondaryLimit)
           N == [L EXCEPT !.limit = limit, !.primaryLimit = p, !.secondaryLimit = s]
<1>1. M = WithPoints(N)
  BY DEF LimitedTo
<1>2. IsLay(L)
  BY DEF Halved, Base
<1>3. p = Within(limit, L.primaryLimit) /\ s = Within(limit, L.secondaryLimit)
  OBVIOUS
<1> HIDE DEF p, s
<1>4. N = [L EXCEPT !.limit = limit, !.primaryLimit = p, !.secondaryLimit = s]
  OBVIOUS
<1> HIDE DEF N
<1>5. /\ IsLay(N) /\ N.node = L.node /\ N.limit = limit /\ N.size = L.size /\ N.primary = L.primary
      /\ N.secondary = L.secondary /\ N.primaryLimit = p /\ N.secondaryLimit = s /\ N.skipped = L.skipped
  BY <1>2, <1>4 DEF IsLay
<1>6. SameAreas(N, M) /\ M.node = N.node
  BY <1>1, <1>5, WithPointsSame
<1>7. /\ M.node = L.node /\ M.limit = limit /\ M.size = L.size /\ M.primary = L.primary /\ M.skipped = L.skipped
      /\ M.secondary = L.secondary /\ M.primaryLimit = p /\ M.secondaryLimit = s
  BY <1>5, <1>6 DEF SameAreas
<1>8. /\ L.limit \in WlRect /\ L.limit.x = 0 /\ L.limit.w = L.size.w
      /\ limit \in WlRect /\ limit.x = 0 /\ limit.w = L.size.w
  BY DEF LimitOK
<1>9. ASSUME NEW half \in HalvesOf(L), NEW r, Cut(L.limit, half, r)
      PROVE  Cut(limit, half, Within(limit, r))
  <2>1. /\ half \in WlRect /\ 0 <= half.x /\ 0 <= half.w /\ half.x + half.w <= L.size.w
        /\ L.size.w \in Nat /\ L.size.h \in Nat
    BY HalvesInside
  <2> QED BY <1>8, <1>9, <2>1, WithinCut
<1>10. Cut(limit, L.primary, p) /\ Cut(limit, L.secondary, s)
  BY <1>3, <1>9 DEF HalvesCut, HalvesOf
<1> QED BY <1>7, <1>10 DEF HalvesCut

(* A bar that covers its edge takes its own strip from the limit; none gives any back. *)
LEMMA BarCuts ==
  ASSUME WlRoom, NEW size \in WlSizes, NEW vpr \in WlRatios, NEW display,
         display.w = size.w, display.h = size.h, NEW limit, LimitOK(size, limit),
         NEW b \in Bars, NEW req, BarAsks(b, req), NEW r,
         r.x = req.x, r.y = req.y, r.w = Lesser(Scaled(WlMax, vpr), req.w), r.h = Lesser(Scaled(WlMax, vpr), req.h),
         b = "status" => limit.y = 0, b # "status" => Bottom(limit) = size.h,
         NEW u, u = UpdateLimitRect(r, limit, display)
  PROVE  /\ limit.y <= u.y /\ Bottom(u) <= Bottom(limit)
         /\ b = "status" => Bottom(u) = Bottom(limit)
         /\ r.w = size.w => IF b = "status" THEN Bottom(r) <= u.y ELSE Bottom(u) <= r.y
<1>1. PICK s \in WlSizes : req.w = s.w /\ IF b = "status" THEN req.y = 0 ELSE s.h - WlBar <= req.y /\ req.y <= s.h
  BY DEF BarAsks
<1>2. req.x \in Int /\ req.y \in Int /\ req.h \in 0 .. WlBar
  BY DEF BarAsks, WlRect
<1>3. /\ WlBar \in Nat /\ Scaled(WlMax, vpr) \in Nat
      /\ size.w \in Nat /\ size.h \in Nat /\ WlBar < size.h /\ 2 * WlBar <= size.h /\ size.w > 0
      /\ Lesser(Scaled(WlMax, vpr), s.w) = size.w => s = size
  <2>1. WlBar \in Nat /\ WlGap \in Nat /\ Scaled(WlMax, vpr) \in Nat /\ size.w \in Nat \ {0} /\ size.h \in Nat
        /\ WlBar < size.h /\ 2 * WlBar + WlGap <= size.h
        /\ (Lesser(Scaled(WlMax, vpr), s.w) = size.w => s = size)
    BY RoomGives
  <2> QED BY <2>1
<1>4. r.y \in Int /\ r.h \in 0 .. WlBar /\ Bottom(r) = r.y + r.h
  BY <1>2, <1>3 DEF Lesser, Bottom
<1>5. /\ limit.x = 0 /\ limit.w = size.w /\ limit.y \in Int /\ limit.h \in Int /\ Right(limit) = size.w /\ Bottom(limit) \in Int
      /\ 0 <= limit.y /\ limit.y <= WlBar /\ size.h - WlBar <= Bottom(limit) /\ Bottom(limit) <= size.h
  BY <1>3 DEF LimitOK, WlRect, Right, Bottom
<1> DEFINE at == GetAvoidPosType(r, display)
           y == IF at = "top" THEN Bottom(r) ELSE limit.y
           bottom == IF at = "bottom" THEN r.y ELSE Bottom(limit)
<1>6. CASE r.w = size.w
  <2>1. s = size
    BY <1>1, <1>3, <1>6
  <2>2. b = "status" => r.y = 0
    BY <1>1
  <2>3. b # "status" => r.y \in Int /\ r.y # 0 /\ size.h - WlBar <= r.y /\ r.y <= size.h
    BY <1>1, <1>3, <1>4, <2>1
  <2>4. at = IF b = "status" THEN "top" ELSE "bottom"
    BY <1>6, <2>2, <2>3 DEF GetAvoidPosType
  <2>5. u = Rect(0, y, NotBelowZero(size.w - 0), NotBelowZero(bottom - y))
    <3> HIDE DEF at
    <3>1. at # "left" /\ at # "right"
      BY <2>4
    <3> QED BY <1>5, <3>1 DEF UpdateLimitRect, at
  <2>6. y = IF b = "status" THEN r.h ELSE limit.y
    <3> HIDE DEF at
    <3> QED BY <1>4, <2>2, <2>4
  <2>7. bottom = IF b = "status" THEN Bottom(limit) ELSE r.y
    <3> HIDE DEF at
    <3> QED BY <2>4
  <2> HIDE DEF y, bottom
  <2>8. y \in Int /\ bottom \in Int /\ y <= bottom
    BY <1>3, <1>4, <1>5, <2>3, <2>6, <2>7
  <2>9. u.y = y /\ Bottom(u) = bottom
    <3>1. NotBelowZero(bottom - y) = bottom - y
      BY <2>8 DEF NotBelowZero, Greater
    <3> QED BY <2>5, <2>8, <3>1 DEF Rect, Bottom
  <2> QED BY <1>3, <1>4, <1>5, <2>2, <2>3, <2>6, <2>7, <2>9
<1>7. CASE r.w # size.w
  <2>1. at \notin {"top", "bottom"}
    BY <1>7 DEF GetAvoidPosType
  <2>2. at \in {"unknown"}
    BY <1>3, <1>4, <1>7 DEF GetAvoidPosType
  <2>3. u = Rect(0, limit.y, NotBelowZero(size.w - 0), NotBelowZero(Bottom(limit) - limit.y))
    <3> HIDE DEF at
    <3> QED BY <1>5, <2>2 DEF UpdateLimitRect, at
  <2>4. NotBelowZero(Bottom(limit) - limit.y) = Bottom(limit) - limit.y
    BY <1>3, <1>5 DEF NotBelowZero, Greater
  <2>5. u.y = limit.y /\ Bottom(u) = Bottom(limit)
    BY <1>5, <2>3, <2>4 DEF Rect, Bottom
  <2> QED BY <1>5, <1>7, <2>5
<1> QED BY <1>6, <1>7

LEMMA OneAboveClear ==
  ASSUME WlRoom, NEW L, Ready(L), HalvesCut(L), NEW w \in Bars \cup {"recents", "dock"},
         w = "status" => L.limit.y = 0, w = "navigation" => Bottom(L.limit) = L.size.h,
         NEW M, M = LayAboveOne(L, w)
  PROVE  /\ HalvesCut(M) /\ M.size = L.size
         /\ \A m \in WlMains : M.node[m] = L.node[m]
         /\ w \in Bars => KeptOut(M, w)
         /\ \A b \in Bars \ {w} : KeptOut(L, b) => KeptOut(M, b)
         /\ w \notin Bars => M.limit = L.limit
         /\ w = "status" => Bottom(M.limit) = Bottom(L.limit)
<1> DEFINE n == Laid(L, w, FALSE)
           N == WithNode(L, w, n)
           limit == UpdateLimitRect(n.rect, N.limit, Display(N))
<1>1. M = IF Shown(L, w) THEN TakeBar(N, w) ELSE L
  BY DEF LayAboveOne, WithNode
<1>2. n = Laid(L, w, FALSE)
  OBVIOUS
<1> HIDE DEF n, N
<1>3. Base(L) /\ IsLay(L) /\ Halved(L) /\ w \in Windows /\ w \notin WlSubs /\ LimitOK(L.size, L.limit)
  BY WindowsAre DEF Ready, Halved, Base, LimitsOK, Bars, Windows
<1>4. SameAreas(L, N) /\ IsLay(N)
  BY <1>3, NodesSame DEF N, WithNode
<1>5. N.node[w] = n /\ \A v \in Windows \ {w} : N.node[v] = L.node[v]
  BY <1>3, NodeSet DEF N
<1>6. \A m \in WlMains : N.node[m] = L.node[m]
  BY <1>5, MainsAre
<1>7. \A b \in Bars \ {w} : N.node[b] = L.node[b]
  BY <1>5, WindowsAre
<1>8. CASE ~Shown(L, w)
  <2>1. M = L
    BY <1>1, <1>8
  <2>2. w \in Bars => ~L.node[w].shown
    BY <1>3, <1>8 DEF Shown
  <2> QED BY <2>1, <2>2 DEF KeptOut
<1>9. CASE Shown(L, w) /\ w \notin Bars
  <2>1. M = N
    BY <1>1, <1>9 DEF TakeBar
  <2>2. HalvesCut(M)
    BY <1>4, <2>1 DEF HalvesCut, SameAreas
  <2>3. \A b \in Bars \ {w} : KeptOut(L, b) => KeptOut(M, b)
    BY <1>4, <1>7, <2>1, OneKept
  <2> QED BY <1>4, <1>6, <1>9, <2>1, <2>2, <2>3 DEF SameAreas, Bars
<1>10. CASE Shown(L, w) /\ w \in Bars
  <2>1. L.node[w].shown
    BY <1>10 DEF Shown
  <2>2. /\ BarOK(w, n) /\ n.shown /\ n.rect.x = n.req.x /\ n.rect.y = n.req.y
        /\ n.rect.w = Lesser(Scaled(WlMax, L.vpr), n.req.w) /\ n.rect.h = Lesser(Scaled(WlMax, L.vpr), n.req.h)
    BY <1>2, <1>3, <1>10, <2>1, BarLaid
  <2>3. BarAsks(w, n.req)
    BY <2>2 DEF BarOK
  <2>4. N.limit = L.limit /\ N.size = L.size
    BY <1>4 DEF SameAreas
  <2>5. L.size \in WlSizes /\ L.vpr \in WlRatios /\ Display(N).w = L.size.w /\ Display(N).h = L.size.h
    BY <1>3, <2>4, DisplayIs DEF Base
  <2>6. w # "status" => Bottom(L.limit) = L.size.h
    BY <1>10 DEF Bars
  <2>7. LimitOK(L.size, limit)
    BY <1>3, <1>10, <2>2, <2>3, <2>4, <2>5, BarTakes
  <2>8. /\ L.limit.y <= limit.y /\ Bottom(limit) <= Bottom(L.limit)
        /\ w = "status" => Bottom(limit) = Bottom(L.limit)
        /\ n.rect.w = L.size.w => IF w = "status" THEN Bottom(n.rect) <= limit.y ELSE Bottom(limit) <= n.rect.y
    BY <1>3, <1>10, <2>2, <2>3, <2>4, <2>5, <2>6, BarCuts
  <2> HIDE DEF limit
  <2>9. M = LimitedTo(N, limit)
    BY <1>1, <1>5, <1>10 DEF TakeBar, limit
  <2>10. Halved(N)
    <3>1. WithNode(L, w, n) = N
      BY DEF N
    <3>2. /\ Similar(L, N) /\ N.restore = L.restore /\ N.limit = L.limit /\ N.points = L.points /\ OfWindows(N.node)
      BY <1>3, <3>1, NodeSet
    <3>3. Nodes(N)
      <4>1. \A b \in Bars : BarOK(b, N.node[b])
        BY <1>3, <1>5, <1>7, <2>2 DEF Base, Nodes
      <4>2. "divider" \in Windows \ {w}
        BY <1>10, WindowsAre DEF Bars
      <4>3. DividerAsks(N.node["divider"])
        BY <1>3, <1>5, <4>2 DEF Base, Nodes
      <4> QED BY <3>2, <4>1, <4>3 DEF Nodes
    <3> QED BY <1>3, <3>2, <3>3, SimilarKeeps DEF Base
  <2>11. HalvesCut(N)
    BY <1>4 DEF HalvesCut, SameAreas
  <2>12. HalvesCut(M) /\ M.node = N.node /\ M.limit = limit /\ M.size = L.size
    BY <1>3, <2>4, <2>7, <2>8, <2>9, <2>10, <2>11, LimitedCuts
  <2>13. KeptOut(M, w)
    <3>1. n.rect.y \in Int /\ n.rect.h \in Int
      <4>1. n.rect.h \in 0 .. WlBar /\ WlBar \in Nat
        BY <1>3, <2>2, SizesAre DEF Base, BarOK
      <4>2. n.req.y \in Int
        BY <2>3 DEF BarAsks, WlRect
      <4> QED BY <2>2, <4>1, <4>2
    <3> QED BY <1>5, <2>8, <2>12, <3>1 DEF KeptOut
  <2>14. ASSUME NEW b \in Bars \ {w}, KeptOut(L, b) PROVE KeptOut(M, b)
    <3>1. M.node[b] = L.node[b]
      BY <1>7, <2>12
    <3>2. /\ L.limit.y \in Int /\ limit.y \in Int /\ Bottom(L.limit) \in Int /\ Bottom(limit) \in Int
      BY <1>3, <2>7 DEF LimitOK, WlRect, Bottom
    <3> QED BY <2>8, <2>12, <2>14, <3>1, <3>2 DEF KeptOut, Bottom
  <2> QED BY <1>6, <1>10, <2>8, <2>12, <2>13, <2>14
<1> QED BY <1>8, <1>9, <1>10

LEMMA LayAboveClear ==
  ASSUME WlRoom, NEW L, Ready(L), HalvesCut(L), L.limit.y = 0, Bottom(L.limit) = L.size.h, NEW M, M = LayAbove(L)
  PROVE  Fresh(M) /\ \A m \in WlMains : M.node[m] = L.node[m]
<1> DEFINE L1 == LayAboveOne(L, "recents")
           L2 == LayAboveOne(L1, "dock")
           L3 == LayAboveOne(L2, "status")
           L4 == LayAboveOne(L3, "navigation")
<1>1. M = L4
  BY LayAboveIs
<1> HIDE DEF L1, L2, L3, L4
<1>2. Bars = {"status", "navigation"} /\ "recents" \notin Bars /\ "dock" \notin Bars
  BY DEF Bars
<1>3. /\ Ready(L1) /\ HalvesCut(L1) /\ L1.size = L.size /\ L1.limit = L.limit
      /\ \A m \in WlMains : L1.node[m] = L.node[m]
  BY <1>2, LayAboveOneOK, OneAboveClear DEF L1
<1>4. /\ Ready(L2) /\ HalvesCut(L2) /\ L2.size = L.size /\ L2.limit = L.limit
      /\ \A m \in WlMains : L2.node[m] = L.node[m]
  BY <1>2, <1>3, LayAboveOneOK, OneAboveClear DEF L2
<1>5. /\ Ready(L3) /\ HalvesCut(L3) /\ L3.size = L.size /\ Bottom(L3.limit) = L.size.h /\ KeptOut(L3, "status")
      /\ \A m \in WlMains : L3.node[m] = L.node[m]
  <2>1. "status" \in Bars /\ L2.limit.y = 0
    BY <1>2, <1>4
  <2>2. Ready(L3)
    BY <1>4, <2>1, LayAboveOneOK DEF L3
  <2>3. HalvesCut(L3) /\ L3.size = L.size /\ KeptOut(L3, "status") /\ Bottom(L3.limit) = Bottom(L.limit)
    BY <1>4, <2>1, OneAboveClear DEF L3
  <2>4. \A m \in WlMains : L3.node[m] = L2.node[m]
    BY <1>4, <2>1, OneAboveClear DEF L3
  <2> QED BY <1>4, <2>2, <2>3, <2>4
<1>6. /\ HalvesCut(L4) /\ KeptOut(L4, "navigation") /\ KeptOut(L4, "status")
      /\ \A m \in WlMains : L4.node[m] = L.node[m]
  <2>1. "navigation" \in Bars /\ "status" \in Bars \ {"navigation"}
    BY <1>2
  <2>2. HalvesCut(L4) /\ KeptOut(L4, "navigation")
    BY <1>5, <2>1, OneAboveClear DEF L4
  <2>3. KeptOut(L4, "status")
    BY <1>5, <2>1, OneAboveClear DEF L4
  <2>4. \A m \in WlMains : L4.node[m] = L3.node[m]
    BY <1>5, <2>1, OneAboveClear DEF L4
  <2> QED BY <1>5, <2>2, <2>3, <2>4
<1> QED BY <1>1, <1>2, <1>6 DEF Fresh

LEMMA LaySubsSame ==
  ASSUME NEW L, IsLay(L), NEW mains, NEW M, M = LaySubs(L, mains)
  PROVE  SameAreas(L, M) /\ \A w \in Windows \ WlSubs : M.node[w] = L.node[w]
<1> DEFINE f == [w \in Windows |-> IF w \in WlSubs /\ Shown(L, w) /\ WlParent[w] \in mains
                                   THEN Laid(L, w, FALSE) ELSE L.node[w]]
<1>1. M = [L EXCEPT !.node = f]
  BY DEF LaySubs
<1>2. \A w \in Windows \ WlSubs : f[w] = L.node[w]
  OBVIOUS
<1> HIDE DEF f
<1> QED BY <1>1, <1>2, NodesSame

LEMMA LayAppsClear ==
  ASSUME NEW L, IsLay(L), MainNodes(L), Fresh(L), NEW M, M = LayApps(L)
  PROVE  MainNodes(M) /\ Fresh(M) /\ \A m \in WlMains : InArea(M, m)
<1> DEFINE f == [w \in Windows |-> IF ~Shown(L, w) THEN L.node[w]
                                   ELSE IF w = "divider" THEN LaidDivider(L)
                                   ELSE IF w \in WlMains THEN Laid(L, w, FALSE) ELSE L.node[w]]
           N == [L EXCEPT !.node = f]
<1>1. M = LaySubs(N, WlMains)
  BY DEF LayApps
<1>2. ASSUME NEW b \in Bars PROVE f[b] = L.node[b]
  <2>1. b \in Windows /\ b # "divider" /\ b \notin WlMains
    BY WindowsAre DEF Bars
  <2> QED BY <2>1
<1>3. \A m \in WlMains : f[m] = IF L.node[m].shown THEN Laid(L, m, FALSE) ELSE L.node[m]
  BY MainsAre DEF Shown
<1>4. N = [L EXCEPT !.node = f]
  OBVIOUS
<1> HIDE DEF f, N
<1>5. SameAreas(L, N) /\ N.node = f /\ IsLay(N)
  BY <1>4, NodesSame
<1>6. SameAreas(N, M) /\ \A w \in Windows \ WlSubs : M.node[w] = N.node[w]
  BY <1>1, <1>5, LaySubsSame
<1>7. SameAreas(L, M)
  BY <1>5, <1>6 DEF SameAreas
<1>8. \A b \in Bars : M.node[b] = L.node[b]
  BY <1>2, <1>5, <1>6, WindowsAre
<1>9. \A m \in WlMains : M.node[m] = f[m]
  BY <1>5, <1>6, MainsAre
<1>10. ASSUME NEW m \in WlMains PROVE IsNode(M.node[m]) /\ InArea(M, m)
  <2>1. IsNode(L.node[m])
    BY DEF MainNodes
  <2>2. CASE ~L.node[m].shown
    BY <1>3, <1>9, <2>1, <2>2 DEF InArea
  <2>3. CASE L.node[m].shown
    <3>1. M.node[m] = Laid(L, m, FALSE)
      BY <1>3, <1>9, <2>3
    <3> DEFINE n == M.node[m]
               dragged == FALSE
    <3>2. n = Laid(L, m, dragged)
      BY <3>1
    <3> HIDE DEF n, dragged
    <3>3. IsNode(n) /\ (n.mode # "floating" /\ m \in WlAvoid => n.rect = GetLimitRect(L, n.mode))
      BY <2>1, <3>2, MainLaid
    <3> QED BY <1>7, <3>3 DEF InArea, GetLimitRect, SameAreas, n
  <2> QED BY <2>2, <2>3
<1> QED BY <1>7, <1>8, <1>10, FreshKept DEF MainNodes

LEMMA TreeClear ==
  ASSUME WlRoom, NEW L, Halved(L), MainNodes(L), NEW M, M = LayoutWindowTree(L)
  PROVE  Clear(M)
<1> DEFINE L1 == InitLimitRects(L)
           L2 == LayAbove(L1)
           N == IF Shown(L2, "recents") THEN L2 ELSE LayApps(L2)
           late == IF Shown(L2, "recents") THEN TRUE ELSE FALSE
<1>1. /\ Ready(L1) /\ HalvesCut(L1) /\ L1.node = L.node /\ L1.limit.y = 0 /\ Bottom(L1.limit) = L1.size.h
  BY InitLimitOK, InitLimitCuts
<1>2. M = LayBelowRecents(L2)
  BY DEF LayoutWindowTree
<1> HIDE DEF L1
<1>3. Ready(L2) /\ Fresh(L2) /\ \A m \in WlMains : L2.node[m] = L1.node[m]
  BY <1>1, LayAboveOK, LayAboveClear
<1> HIDE DEF L2
<1>4. MainNodes(L2) /\ IsLay(L2)
  BY <1>1, <1>3 DEF MainNodes, Ready, Halved, Base
<1>5. MainNodes(N) /\ Fresh(N) /\ (~late => \A m \in WlMains : InArea(N, m))
  BY <1>3, <1>4, LayAppsClear
<1>6. M = [N EXCEPT !.skipped = late]
  BY <1>2 DEF LayBelowRecents
<1>7. IsLay(N)
  BY <1>3, <1>4, LayAppsOK DEF Ready, Halved, Base
<1> HIDE DEF N, late
<1>8. /\ M.size = N.size /\ M.limit = N.limit /\ M.primary = N.primary /\ M.secondary = N.secondary /\ M.node = N.node
      /\ M.primaryLimit = N.primaryLimit /\ M.secondaryLimit = N.secondaryLimit /\ M.skipped = late
  BY <1>6, <1>7 DEF IsLay
<1>9. MainNodes(M) /\ Fresh(M)
  BY <1>5, <1>8 DEF MainNodes, Fresh, HalvesCut, KeptOut
<1>10. ~late => \A m \in WlMains : InArea(M, m)
  BY <1>5, <1>8 DEF InArea, GetLimitRect, Display
<1> QED BY <1>8, <1>9, <1>10 DEF Clear, ClearBut, SettledBut

(* What a call lays out alone has the area the last layout of the tree left. *)
LEMMA NodeClear ==
  ASSUME NEW L, Base(L), MainNodes(L), Fresh(L), NEW w \in Windows, SettledBut(L, {w}),
         w \notin Bars, NEW dragged, NEW M, M = LayoutWindowNode(L, w, dragged)
  PROVE  Clear(M)
<1> DEFINE n == Laid(L, w, dragged)
           N == WithNode(L, w, n)
<1>1. M = IF ~Shown(L, w) THEN L ELSE LaySubs(N, {w})
  BY DEF LayoutWindowNode, WithNode
<1>2. IsLay(L)
  BY DEF Base
<1>3. n = Laid(L, w, dragged)
  OBVIOUS
<1> HIDE DEF n, N
<1>4. SameAreas(L, N) /\ IsLay(N)
  BY <1>2, NodesSame DEF N, WithNode
<1>5. N.node[w] = n /\ \A v \in Windows \ {w} : N.node[v] = L.node[v]
  BY NodeSet DEF N
<1>6. CASE ~Shown(L, w)
  <2>1. M = L
    BY <1>1, <1>6
  <2>2. w \in WlMains => ~L.node[w].shown
    BY <1>6, MainsAre DEF Shown
  <2> QED BY <2>1, <2>2 DEF Clear, ClearBut, SettledBut, InArea
<1>7. CASE Shown(L, w)
  <2>1. SameAreas(N, M) /\ \A v \in Windows \ WlSubs : M.node[v] = N.node[v]
    BY <1>1, <1>4, <1>7, LaySubsSame
  <2>2. SameAreas(L, M)
    BY <1>4, <2>1 DEF SameAreas
  <2>3. \A b \in Bars : M.node[b] = L.node[b]
    BY <1>5, <2>1, WindowsAre
  <2>4. \A m \in WlMains \ {w} : M.node[m] = L.node[m]
    BY <1>5, <2>1, MainsAre
  <2>5. w \in WlMains => M.node[w] = n
    BY <1>5, <2>1, MainsAre
  <2>6. w \in WlMains => IsNode(M.node[w]) /\ InArea(M, w)
    <3> SUFFICES ASSUME w \in WlMains PROVE IsNode(n) /\ InArea(M, w)
      BY <2>5
    <3>1. IsNode(n) /\ (n.mode # "floating" /\ w \in WlAvoid => n.rect = GetLimitRect(L, n.mode))
      BY <1>3, MainLaid DEF MainNodes
    <3> QED BY <2>2, <2>5, <3>1 DEF InArea, GetLimitRect, SameAreas
  <2>7. MainNodes(M)
    BY <2>4, <2>6 DEF MainNodes
  <2>8. SettledBut(M, {})
    <3> SUFFICES ASSUME ~M.skipped, NEW m \in WlMains PROVE InArea(M, m)
      BY DEF SettledBut
    <3>1. ~L.skipped
      BY <2>2 DEF SameAreas
    <3>2. CASE m = w
      BY <2>6, <3>2
    <3>3. CASE m # w
      BY <2>2, <2>4, <3>1, <3>3, OneKept DEF SettledBut
    <3> QED BY <3>2, <3>3
  <2> QED BY <2>2, <2>3, <2>7, <2>8, FreshKept DEF Clear, ClearBut
<1> QED BY <1>6, <1>7

LEMMA SplitMains ==
  ASSUME NEW L, Base(L), MainNodes(L), NEW n, NEW M, M = SplitAt(L, n)
  PROVE  MainNodes(M)
<1> DEFINE N == WithNode(L, "divider", n)
<1>1. M = SetSplitRect(N, n.rect)
  BY DEF SplitAt, WithNode
<1>2. "divider" \in Windows
  BY WindowsAre
<1> HIDE DEF N
<1>3. \A m \in WlMains : N.node[m] = L.node[m]
  <2>1. \A v \in Windows \ {"divider"} : N.node[v] = L.node[v]
    BY <1>2, NodeSet DEF N
  <2> QED BY <2>1, MainsAre
<1>4. IsLay(N)
  BY <1>2, NodesSame DEF N, WithNode, Base
<1>5. M.node = N.node
  BY <1>1, <1>4 DEF SetSplitRect, IsLay
<1> QED BY <1>3, <1>5 DEF MainNodes

LEMMA UpdateClear ==
  ASSUME WlRoom, NEW L, Ready(L), MainNodes(L), NEW w \in Windows, NEW dragged,
         w = "divider" => L.node["divider"].shown,
         w \notin Bars /\ w # "divider" => Fresh(L) /\ SettledBut(L, {w}),
         NEW M, M = UpdateWindowNode(L, w, dragged)
  PROVE  Clear(M)
<1>1. CASE w = "divider"
  <2> DEFINE n == LaidDivider(L)
             N == SplitAt(L, n)
  <2>1. DividerAsks(n) /\ Between(L.size, n.rect) /\ Slim(n.rect)
    BY <1>1, LaidDividerOK
  <2>2. M = LayoutWindowTree(N)
    BY <1>1 DEF UpdateWindowNode
  <2> HIDE DEF n
  <2>3. Halved(N)
    BY <2>1, SplitAtOK
  <2>4. MainNodes(N)
    BY SplitMains DEF Ready, Halved
  <2> HIDE DEF N
  <2> QED BY <2>2, <2>3, <2>4, TreeClear
<1>2. CASE w # "divider" /\ (w \in Bars \/ Split(L, w))
  <2>1. M = LayoutWindowTree(L)
    BY <1>2 DEF UpdateWindowNode
  <2> QED BY <2>1, TreeClear DEF Ready
<1>3. CASE w # "divider" /\ w \notin Bars /\ ~Split(L, w)
  <2>1. M = LayoutWindowNode(L, w, dragged)
    BY <1>3 DEF UpdateWindowNode
  <2> QED BY <1>3, <2>1, NodeClear DEF Ready, Halved
<1> QED BY <1>1, <1>2, <1>3

LEMMA LaunchFresh ==
  ASSUME WlRoom, NEW L, Base(L), NEW M, M = Launch(L)
  PROVE  Fresh(M) /\ \A m \in WlMains : M.node[m] = L.node[m]
<1> DEFINE L1 == InitSplitRects(L)
           L2 == InitLimitRects(L1)
           L3 == LayAbove(L2)
           c == FirstCascadeRect(Display(L3), L3.limit)
<1>1. Halved(L1) /\ L1.node = L.node
  BY InitSplitOK
<1>2. /\ Ready(L2) /\ HalvesCut(L2) /\ L2.node = L1.node /\ L2.limit.y = 0 /\ Bottom(L2.limit) = L2.size.h
  BY <1>1, InitLimitOK, InitLimitCuts
<1>3. M = [L3 EXCEPT !.cascade = c]
  BY DEF Launch, InitCascadeRect
<1> HIDE DEF L1, L2
<1>4. Ready(L3) /\ Fresh(L3) /\ \A m \in WlMains : L3.node[m] = L2.node[m]
  BY <1>2, LayAboveOK, LayAboveClear
<1> HIDE DEF L3, c
<1>5. IsLay(L3)
  BY <1>4 DEF Ready, Halved, Base
<1>6. SameAreas(L3, M) /\ M.node = L3.node
  BY <1>3, <1>5 DEF IsLay, SameAreas
<1>7. Fresh(M)
  BY <1>4, <1>6, FreshKept
<1> QED BY <1>1, <1>2, <1>4, <1>6, <1>7

(* Some windows change, and what the areas do not depend on. *)
LEMMA SomeChanged ==
  ASSUME NEW L, MainNodes(L), NEW ms, SettledBut(L, ms), NEW M, SameAreas(L, M),
         \A m \in WlMains \ ms : M.node[m] = L.node[m], \A m \in WlMains \cap ms : IsNode(M.node[m])
  PROVE  MainNodes(M) /\ SettledBut(M, ms)
<1>1. MainNodes(M)
  BY DEF MainNodes
<1>2. SettledBut(M, ms)
  <2> SUFFICES ASSUME ~M.skipped, NEW m \in WlMains \ ms PROVE InArea(M, m)
    BY DEF SettledBut
  <2>1. ~L.skipped
    BY DEF SameAreas
  <2>2. InArea(L, m)
    BY <2>1 DEF SettledBut
  <2> QED BY <2>2, OneKept
<1> QED BY <1>1, <1>2

LEMMA NodesClear ==
  ASSUME NEW L, IsLay(L), NEW ms, ClearBut(L, ms), NEW f, NEW M, M = [L EXCEPT !.node = f],
         \A b \in Bars : f[b] = L.node[b],
         \A m \in WlMains \ ms : f[m] = L.node[m], \A m \in WlMains \cap ms : IsNode(f[m])
  PROVE  ClearBut(M, ms)
<1>1. SameAreas(L, M) /\ M.node = f
  BY NodesSame
<1>2. MainNodes(L) /\ SettledBut(L, ms) /\ Fresh(L)
  BY DEF ClearBut
<1>3. MainNodes(M) /\ SettledBut(M, ms)
  BY <1>1, <1>2, SomeChanged
<1>4. Fresh(M)
  BY <1>1, <1>2, FreshKept
<1> QED BY <1>3, <1>4 DEF ClearBut

LEMMA ClearAll ==
  ASSUME NEW L, Clear(L), NEW ms
  PROVE  ClearBut(L, ms)
BY DEF Clear, ClearBut, SettledBut

LEMMA AwayClear ==
  ASSUME NEW L, NEW w, ClearBut(L, {w}), w \in WlMains => InArea(L, w)
  PROVE  Clear(L)
<1>1. ASSUME ~L.skipped, NEW m \in WlMains PROVE InArea(L, m)
  BY <1>1 DEF ClearBut, SettledBut
<1> QED BY <1>1 DEF Clear, ClearBut, SettledBut

(* A window in the area of its mode is clear of the bars and of the other half. *)
LEMMA AreaIsClear ==
  ASSUME WlRoom, NEW L, Ready(L), Clear(L), ~L.skipped, NEW m \in WlMains, m \in WlAvoid, L.node[m].shown,
         L.node[m].mode # "floating", Split(L, m) => GapInside(L)
  PROVE  ClearOf(m, L)
<1> DEFINE r == L.node[m].rect
           mode == L.node[m].mode
<1>1. r = GetLimitRect(L, mode)
  BY DEF Clear, ClearBut, SettledBut, InArea
<1>2. /\ LimitOK(L.size, L.limit) /\ Halved(L) /\ HalvesCut(L) /\ \A b \in Bars : KeptOut(L, b)
  BY DEF Ready, LimitsOK, Clear, ClearBut, Fresh
<1>3. /\ L.size.w \in Nat /\ L.size.h \in Nat /\ WlBar \in Nat /\ WlGap \in Nat /\ 2 * WlBar + WlGap <= L.size.h
  BY <1>2, SizesAre DEF Halved, Base
<1>4. /\ L.limit.x = 0 /\ L.limit.w = L.size.w /\ L.limit.y \in Int /\ L.limit.h \in Int /\ Bottom(L.limit) = L.limit.y + L.limit.h
      /\ 0 <= L.limit.y /\ L.limit.y <= WlBar /\ L.size.h - WlBar <= Bottom(L.limit) /\ Bottom(L.limit) <= L.size.h
  BY <1>2, <1>3 DEF LimitOK, WlRect, Bottom
<1>5. ASSUME NEW b \in BarsOn(L) PROVE /\ b \in Bars
                                        /\ L.node[b].rect.y \in Int /\ L.node[b].rect.h \in Int
                                        /\ IF b = "status" THEN Bottom(L.node[b].rect) <= L.limit.y
                                                           ELSE Bottom(L.limit) <= L.node[b].rect.y
  <2>1. b \in Bars /\ Shown(L, b) /\ L.node[b].rect.w = L.size.w
    BY <1>5 DEF BarsOn
  <2>2. L.node[b].shown
    BY <2>1 DEF Shown
  <2> QED BY <1>2, <2>1, <2>2 DEF KeptOut
(* it is enough to be inside the limit *)
<1>6. ASSUME r.y \in Int, r.h \in Int, L.limit.y <= r.y, Bottom(r) <= Bottom(L.limit)
      PROVE  \A b \in BarsOn(L) : Apart(r, L.node[b].rect)
  <2> TAKE b \in BarsOn(L)
  <2>1. CASE b = "status"
    <3>1. Bottom(L.node[b].rect) <= r.y
      BY <1>4, <1>5, <1>6, <2>1 DEF Bottom
    <3> QED BY <3>1 DEF Apart
  <2>2. CASE b # "status"
    <3>1. Bottom(r) <= L.node[b].rect.y
      BY <1>4, <1>5, <1>6, <2>2 DEF Bottom
    <3> QED BY <3>1 DEF Apart
  <2> QED BY <2>1, <2>2
<1> HIDE DEF r, mode
<1>7. CASE mode \notin {"primary", "secondary"}
  <2>1. r = L.limit
    <3>1. GetLimitRect(L, mode) = L.limit
      BY <1>7 DEF GetLimitRect
    <3> QED BY <1>1, <3>1
  <2>2. r.w >= 0 /\ r.h >= 0
    BY <1>3, <1>4, <2>1
  <2>3. \A b \in BarsOn(L) : Apart(r, L.node[b].rect)
    BY <1>4, <1>6, <2>1
  <2> QED BY <1>7, <2>2, <2>3 DEF ClearOf, r, mode
<1>8. CASE mode \in {"primary", "secondary"}
  <2>1. /\ L.primary \in WlRect /\ L.secondary \in WlRect /\ L.divider.w \in Nat /\ L.divider.h \in Nat
        /\ 0 <= L.primary.w /\ 0 <= L.primary.h /\ 0 <= L.secondary.w /\ 0 <= L.secondary.h
    BY <1>2 DEF Halved, HalvesOK, HalvesOf, Dividing, Across
  <2>2. GapInside(L)
    BY <1>8 DEF Split, mode
  <2> DEFINE half == IF mode = "primary" THEN L.primary ELSE L.secondary
             other == IF mode = "primary" THEN L.secondary ELSE L.primary
             top == Greater(L.limit.y, half.y)
             end == Lesser(Bottom(L.limit), Bottom(half))
  <2>3. r = Rect(half.x, top, half.w, end - top)
    <3>1. r = IF mode = "primary" THEN L.primaryLimit ELSE L.secondaryLimit
      BY <1>1, <1>8 DEF GetLimitRect
    <3> QED BY <1>2, <3>1 DEF HalvesCut, Cut
  <2>4. half \in WlRect /\ other \in WlRect
    BY <2>1
  <2>5. top \in Int /\ end \in Int /\ L.limit.y <= top /\ half.y <= top /\ end <= Bottom(L.limit) /\ end <= Bottom(half)
        /\ top \in {L.limit.y, half.y} /\ end \in {Bottom(L.limit), Bottom(half)}
    BY <1>4, <2>4 DEF Greater, Lesser, Bottom, WlRect
  <2>6. top <= end /\ (\/ half.x + half.w <= other.x \/ other.x + other.w <= half.x
                       \/ Bottom(half) <= other.y \/ Bottom(other) <= half.y)
    <3>1. CASE Vertical(L.size)
      <4>1. /\ L.primary.y = 0 /\ L.secondary.y = L.primary.h + L.divider.h /\ Bottom(L.secondary) = L.size.h
            /\ L.limit.y <= L.primary.h /\ L.secondary.y <= Bottom(L.limit)
        BY <1>2, <2>2, <3>1 DEF Halved, HalvesOK, GapInside
      <4>2. Bottom(L.primary) = L.primary.h
        BY <2>1, <4>1 DEF Bottom, WlRect
      <4> HIDE DEF top, end
      <4>3. CASE mode = "primary"
        <5>1. half = L.primary /\ other = L.secondary
          BY <4>3
        <5> QED BY <1>3, <1>4, <2>1, <2>5, <4>1, <4>2, <5>1 DEF WlRect
      <4>4. CASE mode # "primary"
        <5>1. half = L.secondary /\ other = L.primary
          BY <4>4
        <5> QED BY <1>3, <1>4, <2>1, <2>5, <4>1, <4>2, <5>1 DEF WlRect
      <4> QED BY <4>3, <4>4
    <3>2. CASE ~Vertical(L.size)
      <4>1. /\ L.primary.y = 0 /\ L.primary.h = L.size.h /\ L.secondary.y = 0 /\ L.secondary.h = L.size.h
            /\ L.primary.x = 0 /\ L.secondary.x = L.primary.w + L.divider.w
        BY <1>2, <3>2 DEF Halved, HalvesOK, HalvesOf
      <4>2. Bottom(half) = L.size.h /\ half.y = 0
        BY <1>3, <4>1 DEF Bottom
      <4> HIDE DEF top, end
      <4>3. top <= end
        BY <1>3, <1>4, <2>5, <4>2
      <4>4. half.x + half.w <= other.x \/ other.x + other.w <= half.x
        BY <2>1, <4>1 DEF WlRect
      <4> QED BY <4>3, <4>4
    <3> QED BY <3>1, <3>2
  <2> HIDE DEF top, end, half, other
  <2>7. /\ r.x = half.x /\ r.y = top /\ r.w = half.w /\ r.h = end - top /\ Bottom(r) = end /\ Right(r) = half.x + half.w
    BY <2>3, <2>4, <2>5 DEF Rect, Bottom, Right, WlRect
  <2>8. r.w >= 0 /\ r.h >= 0
    BY <2>1, <2>5, <2>6, <2>7 DEF half
  <2>9. \A b \in BarsOn(L) : Apart(r, L.node[b].rect)
    BY <1>6, <2>5, <2>7
  <2>10. Apart(r, other)
    <3>1. half.y \in Int /\ Bottom(half) \in Int /\ other.y \in Int /\ Bottom(other) \in Int
      BY <2>4 DEF WlRect, Bottom
    <3>2. \/ Right(r) <= other.x \/ Right(other) <= r.x \/ Bottom(r) <= other.y \/ Bottom(other) <= r.y
      BY <2>5, <2>6, <2>7, <3>1 DEF Right
    <3> QED BY <3>2, Zenon DEF Apart
  <2> QED BY <2>8, <2>9, <2>10 DEF ClearOf, r, mode, other
<1> QED BY <1>7, <1>8

(* ---- the operations ---- *)
(* What a window may ask for. *)
Asked(w, r) == (w \in Bars => BarAsks(w, r)) /\ (w = "divider" => Slim(r))
NodeOK(w, n) == (w \in Bars => BarOK(w, n)) /\ (w = "divider" => DividerAsks(n))

Changed(L, w, n, first, restore, snap) ==
  [WithNode(L, w, n) EXCEPT !.first = first, !.restore = restore, !.snap = snap]

LEMMA RequestedNode ==
  ASSUME NEW m, IsNode(m), NEW req, NEW n, n = [m EXCEPT !.req = req]
  PROVE  n.shown <=> m.shown
BY DEF IsNode

(* A window's node changes, and what the places do not depend on. *)
LEMMA NodeChanged ==
  ASSUME NEW L, Base(L), NEW w \in Windows, NEW n, NodeOK(w, n),
         NEW first, NEW restore, NEW snap, restore = None \/ Slim(restore),
         NEW M, M = Changed(L, w, n, first, restore, snap)
  PROVE  /\ Base(M) /\ M.size = L.size /\ (Halved(L) => Halved(M)) /\ (Ready(L) => Ready(M))
         /\ M.node[w] = n /\ \A v \in Windows \ {w} : M.node[v] = L.node[v]
<1> DEFINE N == WithNode(L, w, n)
<1>1. Similar(L, N) /\ N.restore = L.restore /\ N.limit = L.limit /\ N.points = L.points
  BY NodeSet
<1>2. OfWindows(N.node) /\ N.node[w] = n
  BY NodeSet
<1>3. \A v \in Windows \ {w} : N.node[v] = L.node[v]
  BY NodeSet
<1>4. M = [N EXCEPT !.first = first, !.restore = restore, !.snap = snap]
  BY DEF Changed
<1> HIDE DEF N
<1>5. /\ IsLay(M) /\ M.size = N.size /\ M.vpr = N.vpr /\ M.divider = N.divider /\ M.primary = N.primary
      /\ M.secondary = N.secondary /\ M.restore = restore /\ M.limit = N.limit /\ M.points = N.points /\ M.node = N.node
  BY <1>1, <1>4 DEF Similar, IsLay
<1>6. Similar(L, M) /\ M.limit = L.limit /\ M.points = L.points
  BY <1>1, <1>5 DEF Similar
<1>7. Nodes(M)
  <2>1. \A b \in Bars : BarOK(b, M.node[b])
    <3> SUFFICES ASSUME NEW b \in Bars PROVE BarOK(b, M.node[b])
      OBVIOUS
    <3>1. CASE b = w
      BY <1>2, <1>5, <3>1 DEF NodeOK
    <3>2. CASE b # w
      <4>1. M.node[b] = L.node[b]
        BY <1>3, <1>5, <3>2, WindowsAre
      <4> QED BY <4>1 DEF Base, Nodes
    <3> QED BY <3>1, <3>2
  <2>2. DividerAsks(M.node["divider"])
    <3>1. CASE w = "divider"
      BY <1>2, <1>5, <3>1 DEF NodeOK
    <3>2. CASE w # "divider"
      <4>1. M.node["divider"] = L.node["divider"]
        BY <1>3, <1>5, <3>2, WindowsAre
      <4> QED BY <4>1 DEF Base, Nodes
    <3> QED BY <3>1, <3>2
  <2> QED BY <1>2, <1>5, <2>1, <2>2 DEF Nodes
<1>8. M.restore = None \/ Slim(M.restore)
  BY <1>5
<1> QED BY <1>2, <1>3, <1>5, <1>6, <1>7, <1>8, SimilarKeeps DEF Similar

LEMMA ChangedClear ==
  ASSUME NEW L, Base(L), NEW w \in Windows, ClearBut(L, {w}), NEW n, w \in WlMains => IsNode(n),
         NEW first, NEW restore, NEW snap, NEW M, M = Changed(L, w, n, first, restore, snap)
  PROVE  MainNodes(M) /\ (w \notin Bars => Fresh(M)) /\ SettledBut(M, {w})
<1> DEFINE N == WithNode(L, w, n)
<1>1. N.node[w] = n /\ \A v \in Windows \ {w} : N.node[v] = L.node[v]
  BY NodeSet
<1>2. M = [N EXCEPT !.first = first, !.restore = restore, !.snap = snap]
  BY DEF Changed
<1>3. SameAreas(L, N) /\ IsLay(N)
  BY NodesSame DEF WithNode, Base
<1> HIDE DEF N
<1>4. SameAreas(L, M) /\ M.node = N.node
  BY <1>2, <1>3 DEF IsLay, SameAreas
<1>5. \A m \in WlMains \ {w} : M.node[m] = L.node[m]
  BY <1>1, <1>4, MainsAre
<1>6. \A m \in WlMains \cap {w} : IsNode(M.node[m])
  BY <1>1, <1>4
<1>7. MainNodes(M) /\ SettledBut(M, {w})
  BY <1>4, <1>5, <1>6, SomeChanged DEF ClearBut
<1>8. ASSUME w \notin Bars PROVE Fresh(M)
  <2>1. \A b \in Bars : M.node[b] = L.node[b]
    BY <1>1, <1>4, <1>8, WindowsAre
  <2> QED BY <1>4, <2>1, FreshKept DEF ClearBut
<1> QED BY <1>7, <1>8

LEMMA ResizedOK ==
  ASSUME WlRoom, NEW L, Ready(L), Put(L), NEW w \in Windows, ClearBut(L, {w}), NEW r, Asked(w, r),
         w = "divider" => L.node["divider"].shown, NEW dragged,
         NEW M, M = Resized(L, w, r, dragged)
  PROVE  Ready(M) /\ M.size = L.size /\ Put(M) /\ Clear(M)
<1> DEFINE m == L.node[w]
           n == [m EXCEPT !.req = r]
           snap == L.snap /\ w # "divider"
           N == [L EXCEPT !.node[w].req = r, !.snap = @ /\ w # "divider"]
<1>1. M = UpdateWindowNode(N, w, dragged)
  BY DEF Resized
<1>2. N = Changed(L, w, n, L.first, L.restore, snap)
  <2>1. N = [[L EXCEPT !.node = [L.node EXCEPT ![w] = n]] EXCEPT !.snap = snap]
    OBVIOUS
  <2>3. IsLay(L)
    BY DEF Ready, Halved, Base
  <2> HIDE DEF n, snap
  <2> HIDE DEF N
  <2>5. Changed(L, w, n, L.first, L.restore, snap) = [[L EXCEPT !.node = [L.node EXCEPT ![w] = n]] EXCEPT !.first = L.first, !.restore = L.restore, !.snap = snap]
    BY DEF Changed, WithNode
  <2> QED BY <2>1, <2>3, <2>5 DEF IsLay
<1>3. Base(L) /\ (L.restore = None \/ Slim(L.restore))
  BY DEF Ready, Halved, Base
<1>4. NodeOK(w, n)
  <2>1. CASE w \in Bars
    <3>1. BarOK(w, m) /\ BarAsks(w, r) /\ w # "divider"
      BY <1>3, <2>1, WindowsAre DEF Base, Nodes, Asked, Bars
    <3> HIDE DEF m
    <3>2. IsNode(n) /\ n.rect = m.rect /\ n.req = r /\ n.mode = m.mode
      BY <3>1 DEF BarOK, IsNode
    <3>3. n.shown => m.shown
      BY <3>1, RequestedNode DEF BarOK
    <3> HIDE DEF n
    <3> QED BY <3>1, <3>2, <3>3 DEF NodeOK, BarOK
  <2>2. CASE w = "divider"
    <3>1. DividerAsks(m) /\ Slim(r) /\ w \notin Bars
      BY <1>3, <2>2, WindowsAre DEF Base, Nodes, Asked, Bars
    <3> HIDE DEF m
    <3>2. IsNode(n) /\ n.req = r
      BY <3>1 DEF DividerAsks, IsNode
    <3> HIDE DEF n
    <3> QED BY <3>1, <3>2 DEF NodeOK, DividerAsks
  <2> QED BY <2>1, <2>2 DEF NodeOK
<1> HIDE DEF n, N, snap
<1>5. /\ N.size = L.size /\ Ready(N)
  BY <1>2, <1>3, <1>4, NodeChanged
<1>6. N.node[w] = n /\ \A v \in Windows \ {w} : N.node[v] = L.node[v]
  BY <1>2, <1>3, <1>4, NodeChanged
<1>7. w = "divider" => N.node["divider"].shown
  <2> SUFFICES ASSUME w = "divider" PROVE n.shown
    BY <1>6
  <2>1. m.shown /\ IsNode(m)
    BY <1>3 DEF Base, Nodes, DividerAsks
  <2> HIDE DEF m
  <2> QED BY <2>1, RequestedNode DEF n
<1>8. w # "divider" => Put(N)
  BY <1>6, WindowsAre DEF Put
<1>9. MainNodes(N) /\ (w \notin Bars => Fresh(N)) /\ SettledBut(N, {w})
  <2>1. w \in WlMains => IsNode(n)
    <3> SUFFICES ASSUME w \in WlMains PROVE IsNode(n)
      OBVIOUS
    <3>1. IsNode(m)
      BY DEF ClearBut, MainNodes
    <3> HIDE DEF m
    <3> QED BY <3>1 DEF n, IsNode
  <2> QED BY <1>2, <1>3, <2>1, ChangedClear
<1>10. Clear(M)
  BY <1>1, <1>5, <1>7, <1>9, UpdateClear
<1> QED BY <1>1, <1>5, <1>7, <1>8, <1>10, UpdateWindowNodeOK

ThinSizes == {d \in [w : Nat, h : Nat] : Thin(d)}
(* The inductive invariant: what the divider is asked to be, is, was or will be is as
   slim as a divider, and the middle is a place for one.                            *)
WlInv == /\ Ready(wlLay) /\ Put(wlLay) /\ Clear(wlLay)
         /\ wlBackup = None \/ Slim(wlBackup)
         /\ wlResizes \in Seq(ThinSizes)

LEMMA WlInvInit == WlRoom /\ WlInit => WlInv
<1> SUFFICES ASSUME WlRoom, WlInit PROVE WlInv
  OBVIOUS
<1>1. PICK size \in WlSizes, vpr \in WlRatios :
        wlLay = Launch([size |-> size, vpr |-> vpr, node |-> [w \in Windows |-> Hidden],
                        limit |-> EmptyRect, primary |-> EmptyRect, secondary |-> EmptyRect,
                        primaryLimit |-> EmptyRect, secondaryLimit |-> EmptyRect, divider |-> EmptyRect,
                        cascade |-> EmptyRect, points |-> {}, snap |-> FALSE, first |-> TRUE, restore |-> None,
                        skipped |-> FALSE])
  BY DEF WlInit
<1> DEFINE f == [w \in Windows |-> Hidden]
           L == [size |-> size, vpr |-> vpr, node |-> f,
                 limit |-> EmptyRect, primary |-> EmptyRect, secondary |-> EmptyRect,
                 primaryLimit |-> EmptyRect, secondaryLimit |-> EmptyRect, divider |-> EmptyRect,
                 cascade |-> EmptyRect, points |-> {}, snap |-> FALSE, first |-> TRUE, restore |-> None,
                 skipped |-> FALSE]
<1>2. wlLay = Launch(L)
  BY <1>1
<1>3. OfWindows(f) /\ f["divider"] = Hidden /\ \A b \in Bars : f[b] = Hidden
  BY WindowsAre DEF OfWindows
<1>4. IsNode(Hidden) /\ ~Hidden.shown /\ Hidden.rect.h \in 0 .. WlBar
  <2>1. Hidden.rect.h = 0 /\ WlBar \in Nat
    BY RoomGives DEF Hidden, EmptyRect, Rect
  <2> QED BY <2>1 DEF Hidden, IsNode
<1> HIDE DEF f
<1>5. IsLay(L) /\ L.size = size /\ L.vpr = vpr /\ L.node = f /\ L.restore = None
  BY DEF IsLay
<1> HIDE DEF L
<1>6. Nodes(L)
  BY <1>3, <1>4, <1>5 DEF Nodes, BarOK, DividerAsks
<1>7. Base(L)
  BY <1>5, <1>6 DEF Base
<1>8. Ready(wlLay) /\ wlLay.node["divider"] = L.node["divider"]
  BY <1>2, <1>7, LaunchOK
<1>9. Put(wlLay)
  BY <1>3, <1>4, <1>5, <1>8 DEF Put
<1>10. Clear(wlLay)
  <2>1. Fresh(wlLay) /\ \A m \in WlMains : wlLay.node[m] = f[m]
    BY <1>2, <1>5, <1>7, LaunchFresh
  <2>2. \A m \in WlMains : wlLay.node[m] = Hidden
    BY <2>1, MainsAre DEF f
  <2> QED BY <1>4, <2>1, <2>2 DEF Clear, ClearBut, MainNodes, SettledBut, InArea
<1> QED BY <1>8, <1>9, <1>10 DEF WlInv, WlInit

(* What a window that is shown asks for. *)
LEMMA AsksOK ==
  ASSUME WlRoom, NEW L, Ready(L), NEW w \in Bars \cup {"divider"}, NEW r \in Asks(L, w)
  PROVE  r # EmptyRect /\ Asked(w, r)
<1>1. EmptyRect.w = 0 /\ EmptyRect.h = 0
  BY DEF EmptyRect, Rect
<1>2. CASE w \in Bars
  <2>1. r \in Strips(w) /\ w # "divider"
    BY <1>2, WindowsAre DEF Asks, Bars
  <2>2. PICK s \in WlSizes, t \in WlThick, at \in Edges(w) : r = Strip(s, t, at)
    BY <2>1 DEF Strips
  <2>3. s.w \in Nat /\ s.h \in Nat /\ t \in Nat /\ t <= WlBar /\ t # 0 /\ WlBar \in Nat
    BY SizesAre, RoomGives, WlAssumption
  <2>4. r = Rect(0, IF w = "status" THEN 0 ELSE s.h - t, s.w, t)
    BY <1>2, <2>2 DEF Edges, Strip, Bars
  <2> DEFINE y == IF w = "status" THEN 0 ELSE s.h - t
  <2>5. y \in Int
    BY <2>3
  <2>6. r \in WlRect /\ r.y = y /\ r.w = s.w /\ r.h = t
    <3> HIDE DEF y
    <3>1. r = Rect(0, y, s.w, t)
      BY <2>4 DEF y
    <3> QED BY <2>3, <2>5, <3>1 DEF Rect, WlRect
  <2>7. BarAsks(w, r)
    BY <2>3, <2>6 DEF BarAsks
  <2> QED BY <1>1, <2>1, <2>3, <2>6, <2>7 DEF Asked
<1>3. CASE w = "divider"
  <2>1. r = IF L.restore = None THEN L.divider ELSE L.restore
    BY <1>3, WindowsAre DEF Asks, Bars
  <2>2. WlGap \in Nat /\ w \notin Bars
    BY <1>3, RoomGives DEF Bars
  <2>3. Slim(r)
    BY <2>1 DEF Ready, Halved, Base, Dividing, Slim, Thin, Across
  <2>4. r.w # 0 \/ r.h # 0
    BY <2>2, <2>3 DEF Slim, Thin
  <2> QED BY <1>1, <2>2, <2>3, <2>4 DEF Asked
<1> QED BY <1>2, <1>3

LEMMA AddedNode ==
  ASSUME NEW m, IsNode(m), NEW mode, NEW req, NEW empty, NEW n, n = ShownAs(m, mode, req, empty)
  PROVE  IsNode(n) /\ n.shown /\ n.mode = mode /\ n.req = req /\ n.rect = m.rect
<1> DEFINE m1 == [m EXCEPT !.shown = TRUE, !.mode = mode, !.req = req]
           deco == m1.deco \/ empty
<1>1. n = [m1 EXCEPT !.deco = @ \/ empty]
  BY DEF ShownAs
<1>2. n = [m1 EXCEPT !.deco = deco]
  BY <1>1
<1> HIDE DEF deco
<1>3. n = [shown |-> TRUE, mode |-> mode, req |-> req, rect |-> m.rect, deco |-> deco, tall |-> m.tall]
  BY <1>2 DEF IsNode
<1>4. n.shown = TRUE /\ n.mode = mode /\ n.req = req /\ n.rect = m.rect /\ n.deco = deco /\ n.tall = m.tall
  BY <1>3
<1> QED BY <1>3, <1>4 DEF IsNode

LEMMA AddOK ==
  ASSUME WlRoom, WlInv, NEW w \in Windows, AddWindowNode(w)
  PROVE  WlInv'
<1>1. PICK mode \in ShowModes(w), r \in Asks(wlLay, w) :
        \E req \in IF r = EmptyRect THEN CascadeRects(wlLay, w) ELSE {r} :
          wlLay' = UpdateWindowNode([wlLay EXCEPT !.node[w] = ShownAs(@, mode, req, r = EmptyRect),
                                                  !.first = @ /\ ~(r = EmptyRect /\ w \in Apps),
                                                  !.restore = IF w = "divider" THEN None ELSE @,
                                                  !.snap = @ /\ w # "divider"], w, FALSE)
  BY DEF AddWindowNode
<1>2. PICK req \in IF r = EmptyRect THEN CascadeRects(wlLay, w) ELSE {r} :
          wlLay' = UpdateWindowNode([wlLay EXCEPT !.node[w] = ShownAs(@, mode, req, r = EmptyRect),
                                                  !.first = @ /\ ~(r = EmptyRect /\ w \in Apps),
                                                  !.restore = IF w = "divider" THEN None ELSE @,
                                                  !.snap = @ /\ w # "divider"], w, FALSE)
  BY <1>1
<1> DEFINE L == wlLay
           m == L.node[w]
           empty == r = EmptyRect
           n == ShownAs(m, mode, req, empty)
           first == L.first /\ ~(empty /\ w \in Apps)
           restore == IF w = "divider" THEN None ELSE L.restore
           snap == L.snap /\ w # "divider"
           N == [L EXCEPT !.node[w] = ShownAs(@, mode, req, empty), !.first = @ /\ ~(empty /\ w \in Apps),
                          !.restore = IF w = "divider" THEN None ELSE @, !.snap = @ /\ w # "divider"]
<1>3. wlLay' = UpdateWindowNode(N, w, FALSE)
  BY <1>2
<1>4. Ready(L) /\ Put(L) /\ Base(L) /\ IsLay(L) /\ OfWindows(L.node) /\ (L.restore = None \/ Slim(L.restore))
  BY DEF WlInv, Ready, Halved, Base, Nodes
<1>5. N = Changed(L, w, n, first, restore, snap)
  <2> DEFINE N1 == WithNode(L, w, n)
             N2 == [N1 EXCEPT !.first = @ /\ ~(empty /\ w \in Apps)]
             N3 == [N2 EXCEPT !.restore = IF w = "divider" THEN None ELSE @]
             N4 == [N3 EXCEPT !.snap = @ /\ w # "divider"]
  <2>1. N1 = [L EXCEPT !.node[w] = ShownAs(@, mode, req, empty)]
    BY DEF WithNode
  <2>2. N = N4
    BY DEF WithNode
  <2>3. IsLay(L)
    BY <1>4
  <2>4. IsLay(N1) /\ N1.first = L.first /\ N1.restore = L.restore /\ N1.snap = L.snap
    <3> DEFINE f == [L.node EXCEPT ![w] = n]
    <3>1. N1 = [L EXCEPT !.node = f]
      BY DEF WithNode
    <3> HIDE DEF f, N1, L
    <3> QED BY <2>3, <3>1 DEF IsLay
  <2> HIDE DEF L, n, N1, N
  <2>5. N2 = [N1 EXCEPT !.first = first]
    BY <2>4
  <2> HIDE DEF first
  <2>6. IsLay(N2) /\ N2.restore = L.restore /\ N2.snap = L.snap
    <3> HIDE DEF N2
    <3> QED BY <2>4, <2>5 DEF IsLay
  <2> HIDE DEF N2
  <2>7. N3 = [N2 EXCEPT !.restore = restore]
    BY <2>6
  <2> HIDE DEF restore
  <2>8. N3.snap = L.snap
    <3> HIDE DEF N3
    <3> QED BY <2>6, <2>7 DEF IsLay
  <2> HIDE DEF N3
  <2>9. N4 = [N3 EXCEPT !.snap = snap]
    BY <2>8
  <2> HIDE DEF N4, snap
  <2> QED BY <2>2, <2>5, <2>7, <2>9 DEF Changed, N1
<1>6. NodeOK(w, n) /\ (w = "divider" => n.shown)
  <2>1. CASE w \in Bars \cup {"divider"}
    <3>1. r # EmptyRect /\ Asked(w, r) /\ req = r
      BY <1>2, <1>4, <2>1, AsksOK
    <3>2. mode = "floating"
      BY <2>1, WindowsAre DEF ShowModes, Bars
    <3>3. IsNode(m) /\ (w \in Bars => BarOK(w, m))
      BY <1>4, <2>1 DEF Base, Nodes, BarOK, DividerAsks
    <3> HIDE DEF m, empty
    <3>5. IsNode(n) /\ n.shown /\ n.mode = mode /\ n.req = req /\ n.rect = m.rect
      BY <3>3, AddedNode
    <3> HIDE DEF n
    <3> QED BY <3>1, <3>2, <3>3, <3>5 DEF NodeOK, BarOK, DividerAsks, Asked
  <2>2. CASE w \notin Bars \cup {"divider"}
    BY <2>2 DEF NodeOK
  <2> QED BY <2>1, <2>2
<1>8. restore = None \/ Slim(restore)
  BY <1>4
<1> HIDE DEF L, N, n, first, restore, snap
<1>9. Ready(N)
  BY <1>4, <1>5, <1>6, <1>8, NodeChanged
<1>10. N.node[w] = n /\ \A v \in Windows \ {w} : N.node[v] = L.node[v]
  BY <1>4, <1>5, <1>6, <1>8, NodeChanged
<1>11. w # "divider" => Put(N)
  BY <1>4, <1>10, WindowsAre DEF Put
<1>12. w = "divider" => N.node["divider"].shown
  BY <1>6, <1>10
<1>13. Ready(wlLay') /\ Put(wlLay')
  BY <1>3, <1>9, <1>11, <1>12, UpdateWindowNodeOK
<1>14. MainNodes(N) /\ (w \notin Bars => Fresh(N)) /\ SettledBut(N, {w})
  <2>1. ClearBut(L, {w})
    BY ClearAll DEF WlInv, L
  <2>2. w \in WlMains => IsNode(m)
    BY <2>1 DEF ClearBut, MainNodes
  <2>3. w \in WlMains => IsNode(n)
    <3> HIDE DEF m
    <3> QED BY <2>2, AddedNode DEF n
  <2> QED BY <1>4, <1>5, <2>1, <2>3, ChangedClear
<1>15. Clear(wlLay')
  BY <1>3, <1>9, <1>12, <1>14, UpdateClear
<1> QED BY <1>13, <1>15 DEF WlInv, AddWindowNode, Ready, Put, Clear

(* What the other windows are does not matter. *)
LEMMA OthersKept ==
  ASSUME NEW L, Ready(L), NEW f, OfWindows(f), f["divider"] = L.node["divider"], \A b \in Bars : f[b] = L.node[b],
         NEW M, M = [L EXCEPT !.node = f]
  PROVE  Ready(M) /\ M.size = L.size /\ (Put(L) => Put(M)) /\ M.node = f
<1>1. IsLay(L) /\ Base(L)
  BY DEF Ready, Halved, Base
<1>2. Similar(L, M) /\ M.restore = L.restore /\ M.limit = L.limit /\ M.points = L.points /\ M.node = f
  BY <1>1, NodesSet
<1> QED BY <1>1, <1>2, NodesKept DEF Base, Nodes, Put

LEMMA OtherKept ==
  ASSUME NEW L, Ready(L), NEW w \in Windows, w \notin Bars, w # "divider", NEW n, NEW M, M = WithNode(L, w, n)
  PROVE  Ready(M) /\ M.size = L.size /\ (Put(L) => Put(M)) /\ M.node[w] = n
<1>1. Base(L)
  BY DEF Ready, Halved
<1>2. Similar(L, M) /\ M.restore = L.restore /\ M.limit = L.limit /\ M.points = L.points
  BY <1>1, NodeSet
<1>3. OfWindows(M.node) /\ M.node[w] = n
  BY <1>1, NodeSet
<1>4. M.node["divider"] = L.node["divider"] /\ \A b \in Bars : M.node[b] = L.node[b]
  <2>1. \A v \in Windows \ {w} : M.node[v] = L.node[v]
    BY <1>1, NodeSet
  <2> QED BY <2>1, WindowsAre
<1> QED BY <1>1, <1>2, <1>3, <1>4, NodesKept DEF Base, Nodes, Put

LEMMA HiddenNode ==
  ASSUME NEW m, IsNode(m), NEW n, n = [m EXCEPT !.shown = FALSE]
  PROVE  IsNode(n) /\ ~n.shown /\ n.mode = m.mode /\ n.rect = m.rect
BY DEF IsNode

LEMMA DividerShown ==
  ASSUME NEW L, Shown(L, "divider")
  PROVE  L.node["divider"].shown /\ "divider" \in Windows /\ "divider" \notin Bars
BY WindowsAre DEF Shown, Bars

LEMMA RemoveOK ==
  ASSUME WlRoom, WlInv, NEW w \in Windows, RemoveWindowNode(w)
  PROVE  WlInv'
<1> DEFINE L == wlLay
           m == L.node[w]
           n == [m EXCEPT !.shown = FALSE]
           M == WithNode(L, w, n)
           N == IF w \in Bars THEN LayoutWindowTree(M)
                ELSE IF w = "divider" THEN LayoutWindowTree(InitSplitRects(M)) ELSE M
<1>1. wlLay' = IF w \in Bars /\ Shown(N, "divider") THEN UpdateWindowNode(N, "divider", FALSE) ELSE N
  BY DEF RemoveWindowNode, WithNode
<1>2. Ready(L) /\ Put(L) /\ Base(L) /\ (L.restore = None \/ Slim(L.restore))
  BY DEF WlInv, Ready, Halved, Base
<1>3. NodeOK(w, n) /\ (w = "divider" => ~n.shown)
  <2>1. CASE w \in Bars \cup {"divider"}
    <3>1. IsNode(m) /\ (w \in Bars => BarOK(w, m))
      BY <1>2, <2>1 DEF Base, Nodes, BarOK, DividerAsks
    <3> HIDE DEF m
    <3>2. IsNode(n) /\ ~n.shown /\ n.rect = m.rect
      BY <3>1, HiddenNode
    <3> HIDE DEF n
    <3> QED BY <3>1, <3>2 DEF NodeOK, BarOK, DividerAsks
  <2>2. CASE w \notin Bars \cup {"divider"}
    BY <2>2 DEF NodeOK
  <2> QED BY <2>1, <2>2
<1> HIDE DEF n, M, L, N
<1>4. M = Changed(L, w, n, L.first, L.restore, L.snap)
  <2> DEFINE f == [L.node EXCEPT ![w] = n]
  <2>1. M = [L EXCEPT !.node = f]
    BY DEF M, WithNode
  <2>2. Changed(L, w, n, L.first, L.restore, L.snap) = [L EXCEPT !.node = f, !.first = L.first, !.restore = L.restore, !.snap = L.snap]
    BY DEF WithNode, Changed
  <2> HIDE DEF f
  <2>3. IsLay(L)
    BY <1>2 DEF Base
  <2> QED BY <2>1, <2>2, <2>3 DEF IsLay
<1>5. Ready(M) /\ Base(M)
  BY <1>2, <1>3, <1>4, NodeChanged
<1>6. M.node[w] = n /\ \A v \in Windows \ {w} : M.node[v] = L.node[v]
  BY <1>2, <1>3, <1>4, NodeChanged
<1>7. Put(M)
  BY <1>2, <1>3, <1>6, WindowsAre DEF Put
<1>8. Ready(N) /\ Put(N)
  <2>1. CASE w \in Bars
    BY <1>5, <1>7, <2>1, LayoutWindowTreeOK DEF N, Ready
  <2>2. CASE w \notin Bars /\ w = "divider"
    <3>1. Halved(InitSplitRects(M)) /\ InitSplitRects(M).node = M.node
      BY <1>5, InitSplitOK
    <3>2. Put(InitSplitRects(M))
      BY <1>7, <3>1 DEF Put
    <3> QED BY <2>2, <3>1, <3>2, LayoutWindowTreeOK DEF N
  <2>3. CASE w \notin Bars /\ w # "divider"
    BY <1>5, <1>7, <2>3 DEF N
  <2> QED BY <2>1, <2>2, <2>3
<1>9. Ready(wlLay') /\ Put(wlLay')
  <2>1. CASE w \in Bars /\ Shown(N, "divider")
    <3>1. "divider" \in Windows /\ N.node["divider"].shown
      BY <2>1, WindowsAre DEF Shown
    <3> QED BY <1>1, <1>8, <2>1, <3>1, UpdateWindowNodeOK
  <2>2. CASE ~(w \in Bars /\ Shown(N, "divider"))
    BY <1>1, <1>8, <2>2
  <2> QED BY <2>1, <2>2
<1>10. MainNodes(M) /\ (w \notin Bars => Fresh(M)) /\ SettledBut(M, {w}) /\ (w \in WlMains => ~n.shown)
  <2>1. ClearBut(L, {w})
    BY ClearAll DEF WlInv, L
  <2>2. w \in WlMains => IsNode(m)
    BY <2>1 DEF ClearBut, MainNodes
  <2>3. w \in WlMains => IsNode(n) /\ ~n.shown
    <3> HIDE DEF m
    <3> QED BY <2>2, HiddenNode DEF n
  <2> QED BY <1>2, <1>4, <2>1, <2>3, ChangedClear
<1>11. Clear(N)
  <2>1. CASE w \in Bars
    BY <1>5, <1>10, <2>1, TreeClear DEF N, Ready
  <2>2. CASE w \notin Bars /\ w = "divider"
    <3>1. Halved(InitSplitRects(M)) /\ InitSplitRects(M).node = M.node
      BY <1>5, InitSplitOK
    <3>2. MainNodes(InitSplitRects(M))
      BY <1>10, <3>1 DEF MainNodes
    <3> QED BY <2>2, <3>1, <3>2, TreeClear DEF N
  <2>3. CASE w \notin Bars /\ w # "divider"
    <3>1. w \in WlMains => InArea(M, w)
      BY <1>6, <1>10 DEF InArea
    <3>2. ClearBut(M, {w})
      BY <1>10, <2>3 DEF ClearBut
    <3> QED BY <2>3, <3>1, <3>2, AwayClear DEF N
  <2> QED BY <2>1, <2>2, <2>3
<1>12. Clear(wlLay')
  <2>1. CASE w \in Bars /\ Shown(N, "divider")
    <3>1. "divider" \in Windows /\ "divider" \notin Bars /\ N.node["divider"].shown
      BY <2>1, DividerShown
    <3>2. MainNodes(N)
      BY <1>11 DEF Clear, ClearBut
    <3> QED BY <1>1, <1>8, <2>1, <3>1, <3>2, UpdateClear
  <2>2. CASE ~(w \in Bars /\ Shown(N, "divider"))
    BY <1>1, <1>11, <2>2
  <2> QED BY <2>1, <2>2
<1> QED BY <1>9, <1>12 DEF WlInv, RemoveWindowNode, Ready, Put, Clear

(* A call that only changes what is laid out. *)
LEMMA LaidOK ==
  ASSUME WlInv, Ready(wlLay'), Put(wlLay'), Clear(wlLay'), UNCHANGED <<wlResizes, wlBackup>>
  PROVE  WlInv'
BY DEF WlInv, Ready, Put, Clear

LEMMA RequestOK ==
  ASSUME WlRoom, WlInv, NEW w \in Apps, Request(w)
  PROVE  WlInv'
<1>1. PICK r : wlLay' = Resized(wlLay, w, r, FALSE)
  BY DEF Request
<1>2. w \in Windows /\ Asked(w, r) /\ w # "divider"
  BY WindowsAre DEF Asked, Windows
<1>3. Ready(wlLay) /\ Put(wlLay) /\ ClearBut(wlLay, {w})
  BY ClearAll DEF WlInv
<1>4. Ready(wlLay') /\ Put(wlLay') /\ Clear(wlLay')
  BY <1>1, <1>2, <1>3, ResizedOK
<1> QED BY <1>4, LaidOK DEF Request

LEMMA DragOK ==
  ASSUME WlRoom, WlInv, NEW w \in Apps, DragTo(w)
  PROVE  WlInv'
<1>1. PICK r, tall : wlLay' = Resized([wlLay EXCEPT !.node[w].tall = tall], w, r, TRUE)
  BY DEF DragTo
<1> DEFINE n == [wlLay.node[w] EXCEPT !.tall = tall]
           M == WithNode(wlLay, w, n)
<1>2. wlLay' = Resized(M, w, r, TRUE)
  BY <1>1 DEF WithNode
<1>3. w \in Windows /\ Asked(w, r) /\ w # "divider" /\ w \notin Bars
  BY WindowsAre DEF Asked, Windows
<1>4. Ready(wlLay) /\ Put(wlLay)
  BY DEF WlInv
<1> HIDE DEF n
<1>5. Ready(M) /\ Put(M)
  BY <1>3, <1>4, OtherKept
<1>6. ClearBut(M, {w})
  <2> DEFINE f == [wlLay.node EXCEPT ![w] = n]
             ms == {w}
  <2>1. IsLay(wlLay) /\ OfWindows(wlLay.node) /\ ClearBut(wlLay, ms)
    BY <1>4, ClearAll DEF WlInv, Ready, Halved, Base, Nodes
  <2>2. w \in WlMains => IsNode(n)
    <3> DEFINE m == wlLay.node[w]
    <3>1. w \in WlMains => IsNode(m)
      BY <2>1 DEF ClearBut, MainNodes
    <3> HIDE DEF m
    <3> QED BY <3>1 DEF n, m, IsNode
  <2>3. M = [wlLay EXCEPT !.node = f]
    BY DEF WithNode
  <2>4. f[w] = n /\ \A v \in Windows \ {w} : f[v] = wlLay.node[v]
    <3> DEFINE g == wlLay.node
    <3>1. g = [v \in Windows |-> g[v]]
      BY <2>1 DEF OfWindows
    <3> HIDE DEF g
    <3> QED BY <1>3, <3>1 DEF g
  <2>5. \A b \in Bars : f[b] = wlLay.node[b]
    BY <1>3, <2>4, WindowsAre
  <2>6. \A m \in WlMains \ ms : f[m] = wlLay.node[m]
    BY <2>4, MainsAre
  <2>7. \A m \in WlMains \cap ms : IsNode(f[m])
    BY <2>2, <2>4
  <2> HIDE DEF f, ms
  <2>8. ClearBut(M, ms)
    BY <2>1, <2>3, <2>5, <2>6, <2>7, NodesClear
  <2> QED BY <2>8 DEF ms
<1> HIDE DEF M
<1>7. Ready(wlLay') /\ Put(wlLay') /\ Clear(wlLay')
  BY <1>2, <1>3, <1>5, <1>6, ResizedOK
<1> QED BY <1>7, LaidOK DEF DragTo

LEMMA MoveDividerOK ==
  ASSUME WlRoom, WlInv, MoveDivider
  PROVE  WlInv'
<1> DEFINE r == wlLay.node["divider"].rect
<1>1. PICK to \in WlMoves :
        wlLay' = Resized(wlLay, "divider", IF Vertical(wlLay.size) THEN [r EXCEPT !.y = to] ELSE [r EXCEPT !.x = to], FALSE)
  BY DEF MoveDivider
<1>2. wlLay.node["divider"].shown /\ "divider" \in Windows /\ "divider" \notin Bars
  BY DividerShown DEF MoveDivider
<1>3. Ready(wlLay) /\ Put(wlLay) /\ ClearBut(wlLay, {"divider"}) /\ to \in Int
  BY WlAssumption, ClearAll DEF WlInv
<1>4. Slim(r)
  BY <1>2, <1>3 DEF Put
<1> HIDE DEF r
<1>5. Slim([r EXCEPT !.y = to]) /\ Slim([r EXCEPT !.x = to])
  BY <1>3, <1>4 DEF Slim, WlRect, Thin
<1> DEFINE q == IF Vertical(wlLay.size) THEN [r EXCEPT !.y = to] ELSE [r EXCEPT !.x = to]
<1>6. Asked("divider", q)
  BY <1>2, <1>5 DEF Asked
<1>7. wlLay' = Resized(wlLay, "divider", q, FALSE)
  BY <1>1
<1> HIDE DEF q
<1>8. Ready(wlLay') /\ Put(wlLay') /\ Clear(wlLay')
  BY <1>2, <1>3, <1>6, <1>7, ResizedOK
<1> QED BY <1>8, LaidOK DEF MoveDivider

LEMMA ReleaseDividerOK ==
  ASSUME WlRoom, WlInv, ReleaseDivider
  PROVE  WlInv'
<1> DEFINE m == wlLay.node["divider"]
           n == [m EXCEPT !.req = m.rect]
           end == TRUE
           M == [wlLay EXCEPT !.snap = end, !.node["divider"].req = m.rect]
<1>1. wlLay' = UpdateWindowNode(M, "divider", FALSE)
  BY DEF ReleaseDivider
<1>2. m.shown /\ "divider" \in Windows /\ "divider" \notin Bars
  BY DividerShown DEF ReleaseDivider
<1>3. Ready(wlLay) /\ Base(wlLay) /\ IsLay(wlLay) /\ (wlLay.restore = None \/ Slim(wlLay.restore))
  BY DEF WlInv, Ready, Halved, Base
<1>4. IsNode(m) /\ Slim(m.rect)
  BY <1>2, <1>3 DEF WlInv, Put, Base, Nodes, DividerAsks
<1>5. NodeOK("divider", n) /\ n.shown
  <2> HIDE DEF m
  <2>1. IsNode(n) /\ n.req = m.rect
    BY <1>4 DEF IsNode
  <2>2. n.shown
    BY <1>2, <1>4, RequestedNode
  <2> HIDE DEF n
  <2> QED BY <1>2, <1>4, <2>1, <2>2 DEF NodeOK, DividerAsks
<1> HIDE DEF n
<1> HIDE DEF end
<1>6. M = Changed(wlLay, "divider", n, wlLay.first, wlLay.restore, end)
  <2> DEFINE f == [wlLay.node EXCEPT !["divider"] = n]
  <2>1. M = [[wlLay EXCEPT !.snap = end] EXCEPT !.node = f]
    BY <1>3 DEF IsLay, n
  <2>2. Changed(wlLay, "divider", n, wlLay.first, wlLay.restore, end)
        = [wlLay EXCEPT !.node = f, !.first = wlLay.first, !.restore = wlLay.restore, !.snap = end]
    BY DEF WithNode, Changed
  <2> HIDE DEF f, M
  <2> QED BY <1>3, <2>1, <2>2 DEF IsLay
<1> HIDE DEF M
<1>7. Ready(M) /\ M.node["divider"] = n
  BY <1>2, <1>3, <1>5, <1>6, NodeChanged
<1>8. Ready(wlLay') /\ Put(wlLay')
  BY <1>1, <1>2, <1>5, <1>7, UpdateWindowNodeOK
<1>9. MainNodes(M)
  <2>1. ClearBut(wlLay, {"divider"}) /\ "divider" \notin WlMains
    BY ClearAll, WindowsAre DEF WlInv
  <2> QED BY <1>2, <1>3, <1>6, <2>1, ChangedClear
<1>10. Clear(wlLay')
  BY <1>1, <1>2, <1>5, <1>7, <1>9, UpdateClear
<1> QED BY <1>8, <1>10, LaidOK DEF ReleaseDivider

LEMMA ResizeDividerOK ==
  ASSUME WlRoom, WlInv, ResizeDivider
  PROVE  WlInv'
<1>1. Ready(wlLay) /\ Put(wlLay) /\ Clear(wlLay) /\ ClearBut(wlLay, {"divider"})
  BY ClearAll DEF WlInv
<1>2. wlResizes \in Seq(ThinSizes) /\ wlResizes # <<>> /\ wlResizes' = Tail(wlResizes)
  BY DEF WlInv, ResizeDivider
<1>3. wlResizes' \in Seq(ThinSizes) /\ Head(wlResizes) \in ThinSizes
  BY <1>2
<1> DEFINE n == wlLay.node["divider"]
           d == Head(wlResizes)
           r == Rect(n.rect.x, n.rect.y, d.w, d.h)
<1>4. wlLay' = IF n.shown THEN Resized(wlLay, "divider", r, FALSE) ELSE wlLay
  BY DEF ResizeDivider
<1>5. n.shown => Asked("divider", r)
  <2> SUFFICES ASSUME n.shown PROVE Asked("divider", r)
    OBVIOUS
  <2>1. n.rect.x \in Int /\ n.rect.y \in Int
    BY <1>1 DEF Put, Slim, WlRect
  <2>2. d.w \in Nat /\ d.h \in Nat /\ Thin(d)
    BY <1>3 DEF ThinSizes
  <2> HIDE DEF d, n
  <2>3. r \in WlRect /\ r.w = d.w /\ r.h = d.h
    BY <2>1, <2>2 DEF Rect, WlRect
  <2> QED BY <2>2, <2>3 DEF Asked, Slim, Thin, Bars
<1> HIDE DEF r
<1>6. Ready(wlLay') /\ Put(wlLay') /\ Clear(wlLay')
  <2>1. CASE n.shown
    <3>1. wlLay.node["divider"].shown /\ "divider" \in Windows
      BY <2>1, WindowsAre
    <3> QED BY <1>1, <1>4, <1>5, <2>1, <3>1, ResizedOK
  <2>2. CASE ~n.shown
    BY <1>1, <1>4, <2>2
  <2> QED BY <2>1, <2>2
<1> QED BY <1>3, <1>6 DEF WlInv, ResizeDivider, Ready, Put, Clear

LEMMA SetModeOK ==
  ASSUME WlRoom, WlInv, NEW w \in WlMains, SetWindowModeOf(w)
  PROVE  WlInv'
<1>1. PICK mode : wlLay' = UpdateWindowNode([wlLay EXCEPT !.node[w] =
                  [@ EXCEPT !.mode = mode,
                            !.req = IF mode = "fullscreen" /\ wlLay.node[w].mode = "floating"
                                    THEN wlLay.node[w].rect ELSE @]], w, FALSE)
  BY DEF SetWindowModeOf
<1> DEFINE M == [wlLay EXCEPT !.node[w] =
                  [@ EXCEPT !.mode = mode,
                            !.req = IF mode = "fullscreen" /\ wlLay.node[w].mode = "floating"
                                    THEN wlLay.node[w].rect ELSE @]]
           f == [wlLay.node EXCEPT ![w] =
                  [@ EXCEPT !.mode = mode,
                            !.req = IF mode = "fullscreen" /\ wlLay.node[w].mode = "floating"
                                    THEN wlLay.node[w].rect ELSE @]]
<1>2. w \in Windows /\ w # "divider" /\ w \notin Bars
  BY WindowsAre DEF Windows, Apps
<1>3. Ready(wlLay) /\ Put(wlLay) /\ OfWindows(wlLay.node)
  BY DEF WlInv, Ready, Halved, Base, Nodes
<1>4. M = [wlLay EXCEPT !.node = f]
  OBVIOUS
<1>5. OfWindows(f) /\ \A v \in Windows \ {w} : f[v] = wlLay.node[v]
  <2> DEFINE g == wlLay.node
  <2>1. g = [v \in Windows |-> g[v]]
    BY <1>3 DEF OfWindows
  <2> HIDE DEF g
  <2> QED BY <2>1 DEF OfWindows, g
<1>9. wlLay' = UpdateWindowNode(M, w, FALSE)
  BY <1>1
<1> HIDE DEF M, f
<1>6. f["divider"] = wlLay.node["divider"] /\ \A b \in Bars : f[b] = wlLay.node[b]
  BY <1>2, <1>5, WindowsAre
<1>7. Ready(M) /\ Put(M)
  BY <1>3, <1>4, <1>5, <1>6, OthersKept
<1>8. Ready(wlLay') /\ Put(wlLay')
  BY <1>2, <1>7, <1>9, UpdateWindowNodeOK
<1>10. ClearBut(M, {w})
  <2> DEFINE ms == {w}
  <2>1. IsLay(wlLay) /\ ClearBut(wlLay, ms)
    BY <1>3, ClearAll DEF WlInv, Ready, Halved, Base
  <2>2. IsNode(f[w])
    <3> DEFINE m == wlLay.node[w]
               g == wlLay.node
    <3>1. IsNode(m)
      BY <2>1 DEF ClearBut, MainNodes
    <3>2. \E req : f[w] = [m EXCEPT !.mode = mode, !.req = req]
      <4>1. g = [v \in Windows |-> g[v]]
        BY <1>3 DEF OfWindows
      <4> HIDE DEF g
      <4> QED BY <1>2, <4>1 DEF f, g
    <3> HIDE DEF m
    <3> QED BY <3>1, <3>2 DEF IsNode
  <2>3. \A m \in WlMains \ ms : f[m] = wlLay.node[m]
    BY <1>5, MainsAre
  <2>4. \A m \in WlMains \cap ms : IsNode(f[m])
    BY <2>2
  <2> HIDE DEF ms
  <2>5. ClearBut(M, ms)
    BY <1>4, <1>6, <2>1, <2>3, <2>4, NodesClear DEF M
  <2> QED BY <2>5 DEF ms
<1>11. Clear(wlLay')
  BY <1>2, <1>7, <1>9, <1>10, UpdateClear DEF ClearBut
<1> QED BY <1>8, <1>11, LaidOK DEF SetWindowModeOf

LEMMA PutBarOK ==
  ASSUME WlRoom, NEW L, Ready(L), Put(L), Clear(L), NEW b \in Bars, NEW size \in WlSizes, NEW M, M = PutBar(L, b, size)
  PROVE  Ready(M) /\ Put(M) /\ Clear(M)
<1> DEFINE h == L.node[b].rect.h
           y == IF b = "status" THEN 0 ELSE size.h - h
           r == Rect(0, y, size.w, h)
<1>1. M = IF ~Shown(L, b) THEN L ELSE Resized(L, b, r, FALSE)
  BY DEF PutBar
<1>2. h \in 0 .. WlBar /\ size.w \in Nat /\ size.h \in Nat /\ WlBar \in Nat
  BY SizesAre DEF Ready, Halved, Base, Nodes, BarOK
<1>3. b \in Windows /\ b # "divider"
  BY WindowsAre DEF Bars
<1> HIDE DEF h
<1>4. y \in Int /\ (b = "status" => y = 0) /\ (b # "status" => size.h - WlBar <= y /\ y <= size.h)
  BY <1>2
<1> HIDE DEF y
<1>5. r \in WlRect /\ r.y = y /\ r.w = size.w /\ r.h = h
  BY <1>2, <1>4 DEF Rect, WlRect
<1> HIDE DEF r
<1>6. Asked(b, r)
  BY <1>2, <1>3, <1>4, <1>5 DEF Asked, BarAsks
<1>7. CASE ~Shown(L, b)
  BY <1>1, <1>7
<1>8. CASE Shown(L, b)
  BY <1>1, <1>3, <1>6, <1>8, ClearAll, ResizedOK
<1> QED BY <1>7, <1>8

LEMMA SizeChanged ==
  ASSUME NEW L, Base(L), NEW size \in WlSizes, NEW M, M = [L EXCEPT !.size = size]
  PROVE  Base(M) /\ M.size = size /\ M.node = L.node
<1>1. IsLay(M) /\ M.size = size /\ M.node = L.node /\ M.vpr = L.vpr /\ M.restore = L.restore
  BY DEF Base, IsLay
<1> QED BY <1>1 DEF Base, Nodes

LEMMA RatioChanged ==
  ASSUME NEW L, Halved(L), NEW vpr \in WlRatios, NEW M, M = [L EXCEPT !.vpr = vpr]
  PROVE  Halved(M) /\ M.node = L.node
<1>1. /\ IsLay(M) /\ M.size = L.size /\ M.node = L.node /\ M.vpr = vpr /\ M.restore = L.restore
      /\ M.divider = L.divider /\ M.primary = L.primary /\ M.secondary = L.secondary
  BY DEF Halved, Base, IsLay
<1>2. Base(M)
  BY <1>1 DEF Halved, Base, Nodes
<1> QED BY <1>1, <1>2 DEF Halved, Dividing, HalvesOK, HalvesOf

LEMMA SizeChangeOK ==
  ASSUME WlRoom, WlInv, NEW size \in WlSizes, ProcessDisplaySizeChangeOrRotation(size)
  PROVE  WlInv'
<1> DEFINE L1 == PutBar(wlLay, "status", size)
           L2 == PutBar(L1, "navigation", size)
           f == [w \in Windows |-> IF w \in Apps /\ FloatsOn(L2, w)
                                   THEN [L2.node[w] EXCEPT !.req = LimitWindowToBottomRightCorner(@, Display(L2))]
                                   ELSE L2.node[w]]
           L3 == [L2 EXCEPT !.node = f]
           L4 == [L3 EXCEPT !.size = size]
           L5 == Launch(L4)
<1>1. wlLay' = LayoutWindowTree(L5)
  <2>1. wlLay' = LayoutWindowTree(Launch([IntoDisplay(L2) EXCEPT !.size = size]))
    BY DEF ProcessDisplaySizeChangeOrRotation, ProcessSystemBarChange
  <2>2. IntoDisplay(L2) = L3
    <3> HIDE DEF L2
    <3> QED BY DEF IntoDisplay
  <2> HIDE DEF L3
  <2> QED BY <2>1, <2>2
<1>2. Ready(wlLay) /\ Put(wlLay) /\ Clear(wlLay) /\ wlResizes \in Seq(ThinSizes)
  BY DEF WlInv
<1>3. "status" \in Bars /\ "navigation" \in Bars
  BY DEF Bars
<1>4. Ready(L1) /\ Put(L1) /\ Clear(L1)
  BY <1>2, <1>3, PutBarOK
<1> HIDE DEF L1
<1>5. Ready(L2) /\ Put(L2) /\ Clear(L2)
  BY <1>3, <1>4, PutBarOK
<1> HIDE DEF L2
<1>6. OfWindows(f) /\ f["divider"] = L2.node["divider"] /\ \A b \in Bars : f[b] = L2.node[b]
  <2>1. OfWindows(f)
    BY DEF OfWindows
  <2>2. ASSUME NEW b \in Bars \cup {"divider"} PROVE f[b] = L2.node[b]
    <3>1. b \in Windows /\ b \notin Apps
      BY WindowsAre
    <3> QED BY <3>1
  <2> QED BY <2>1, <2>2
<1>15. \A m \in WlMains : IsNode(f[m])
  <2> TAKE m \in WlMains
  <2> DEFINE n == L2.node[m]
  <2>1. IsNode(n) /\ m \in Windows
    BY <1>5, MainsAre DEF Clear, ClearBut, MainNodes
  <2>2. f[m] = n \/ \E req : f[m] = [n EXCEPT !.req = req]
    BY <2>1
  <2> HIDE DEF n, f
  <2> QED BY <2>1, <2>2 DEF IsNode
<1> HIDE DEF f
<1>7. Ready(L3) /\ Put(L3) /\ L3.node = f
  BY <1>5, <1>6, OthersKept
<1> HIDE DEF L3
<1>8. Base(L4) /\ L4.node = L3.node /\ L4.size = size
  BY <1>7, SizeChanged DEF Ready, Halved
<1> HIDE DEF L4
<1>9. Ready(L5) /\ L5.node["divider"] = L4.node["divider"]
  BY <1>8, LaunchOK
<1>10. Put(L5) /\ Halved(L5)
  BY <1>7, <1>8, <1>9 DEF Put, Ready
<1>16. MainNodes(L5)
  <2>1. \A m \in WlMains : L5.node[m] = L4.node[m]
    BY <1>8, LaunchFresh
  <2> QED BY <1>7, <1>8, <1>15, <2>1 DEF MainNodes
<1> HIDE DEF L5
<1>17. Clear(wlLay')
  BY <1>1, <1>10, <1>16, TreeClear
<1>11. Ready(wlLay') /\ Put(wlLay')
  BY <1>1, <1>10, LayoutWindowTreeOK
<1> DEFINE d == [w |-> wlLay'.divider.w, h |-> wlLay'.divider.h]
<1>12. d \in ThinSizes
  BY <1>11 DEF ThinSizes, Thin, Ready, Halved, Dividing, Across
<1>13. wlResizes' = IF Shown(wlLay, "divider") THEN Append(wlResizes, d) ELSE wlResizes
  BY DEF ProcessDisplaySizeChangeOrRotation
<1> HIDE DEF d
<1>14. wlResizes' \in Seq(ThinSizes)
  BY <1>2, <1>12, <1>13
<1> QED BY <1>11, <1>14, <1>17 DEF WlInv, ProcessDisplaySizeChangeOrRotation, Ready, Put, Clear

LEMMA RatioOK ==
  ASSUME WlRoom, WlInv, NEW vpr \in WlRatios, SetVirtualPixelRatio(vpr)
  PROVE  WlInv'
<1> DEFINE M == [wlLay EXCEPT !.vpr = vpr]
<1>1. wlLay' = LayoutWindowTree(M)
  BY DEF SetVirtualPixelRatio
<1>2. Ready(wlLay) /\ Put(wlLay) /\ Clear(wlLay)
  BY DEF WlInv
<1>3. Halved(M) /\ M.node = wlLay.node
  BY <1>2, RatioChanged DEF Ready
<1>4. Put(M)
  BY <1>2, <1>3 DEF Put
<1>5. MainNodes(M)
  BY <1>2, <1>3 DEF Clear, ClearBut, MainNodes
<1> HIDE DEF M
<1>6. Ready(wlLay') /\ Put(wlLay') /\ Clear(wlLay')
  BY <1>1, <1>3, <1>4, <1>5, LayoutWindowTreeOK, TreeClear
<1> QED BY <1>6, LaidOK DEF SetVirtualPixelRatio

LEMMA ReorderOK ==
  ASSUME WlRoom, WlInv, Reorder
  PROVE  WlInv'
<1>1. PICK place :
        wlLay' = LayoutWindowTree([wlLay EXCEPT !.node =
            [w \in Windows |-> IF w \in Fitting(wlLay)
                               THEN [@[w] EXCEPT !.req = Stepped(wlLay)[place[w]], !.deco = TRUE, !.mode = "floating"]
                               ELSE @[w]]])
  BY DEF Reorder
<1> DEFINE f == [w \in Windows |-> IF w \in Fitting(wlLay)
                               THEN [wlLay.node[w] EXCEPT !.req = Stepped(wlLay)[place[w]], !.deco = TRUE, !.mode = "floating"]
                               ELSE wlLay.node[w]]
           M == [wlLay EXCEPT !.node = f]
<1>2. wlLay' = LayoutWindowTree(M)
  BY <1>1
<1>3. Ready(wlLay) /\ Put(wlLay) /\ Clear(wlLay)
  BY DEF WlInv
<1>4. OfWindows(f) /\ f["divider"] = wlLay.node["divider"] /\ \A b \in Bars : f[b] = wlLay.node[b]
  <2>1. OfWindows(f)
    BY DEF OfWindows
  <2>2. ASSUME NEW b \in Bars \cup {"divider"} PROVE f[b] = wlLay.node[b]
    <3>1. b \in Windows /\ b \notin Fitting(wlLay)
      BY WindowsAre DEF Fitting
    <3> QED BY <3>1
  <2> QED BY <2>1, <2>2
<1>7. \A m \in WlMains : IsNode(f[m])
  <2> TAKE m \in WlMains
  <2> DEFINE n == wlLay.node[m]
  <2>1. IsNode(n) /\ m \in Windows
    BY <1>3, MainsAre DEF Clear, ClearBut, MainNodes
  <2>2. f[m] = n \/ \E req, deco, mode : f[m] = [n EXCEPT !.req = req, !.deco = deco, !.mode = mode]
    BY <2>1
  <2> HIDE DEF n, f
  <2> QED BY <2>1, <2>2 DEF IsNode
<1> HIDE DEF f
<1>5. Ready(M) /\ Put(M) /\ M.node = f
  BY <1>3, <1>4, OthersKept
<1> HIDE DEF M
<1>8. MainNodes(M)
  BY <1>5, <1>7 DEF MainNodes
<1>6. Ready(wlLay') /\ Put(wlLay') /\ Clear(wlLay')
  BY <1>2, <1>5, <1>8, LayoutWindowTreeOK, TreeClear DEF Ready
<1> QED BY <1>6, LaidOK DEF Reorder

LEMMA BackUpOK ==
  ASSUME WlInv, BackUpDivider
  PROVE  WlInv'
<1>1. wlLay.node["divider"].shown /\ UNCHANGED <<wlLay, wlResizes>> /\ wlBackup' = wlLay.node["divider"].rect
  BY DividerShown DEF BackUpDivider
<1>2. Slim(wlBackup')
  BY <1>1 DEF WlInv, Put
<1> QED BY <1>1, <1>2 DEF WlInv, Ready, Put, Clear

LEMMA RestoreOK ==
  ASSUME WlInv, RestoreDivider
  PROVE  WlInv'
<1>1. wlLay' = [wlLay EXCEPT !.restore = wlBackup] /\ wlBackup' = None /\ UNCHANGED wlResizes /\ Slim(wlBackup)
  BY DEF RestoreDivider, WlInv
<1> DEFINE M == [wlLay EXCEPT !.restore = wlBackup]
<1>2. Ready(wlLay) /\ Put(wlLay) /\ IsLay(wlLay) /\ Base(wlLay)
  BY DEF WlInv, Ready, Halved, Base
<1>6. SameAreas(wlLay, M)
  BY <1>2 DEF SameAreas, IsLay
<1>3. Similar(wlLay, M) /\ M.limit = wlLay.limit /\ M.points = wlLay.points /\ M.node = wlLay.node /\ M.restore = wlBackup
  BY <1>2 DEF Similar, IsLay
<1> HIDE DEF M
<1>4. Ready(M)
  BY <1>1, <1>2, <1>3, SimilarKeeps DEF Base, Nodes
<1>7. Clear(M)
  <2>1. Clear(wlLay)
    BY DEF WlInv
  <2>2. MainNodes(M) /\ SettledBut(M, {})
    BY <1>3, <1>6, <2>1, SomeChanged DEF Clear, ClearBut
  <2> QED BY <1>3, <1>6, <2>1, <2>2, FreshKept DEF Clear, ClearBut
<1>5. Ready(wlLay') /\ Put(wlLay') /\ Clear(wlLay')
  BY <1>1, <1>2, <1>3, <1>4, <1>7 DEF Put, M
<1> QED BY <1>1, <1>5 DEF WlInv, Ready, Put, Clear

LEMMA WlInvNext == WlRoom /\ WlInv /\ [WlNext]_wlVars => WlInv'
<1> SUFFICES ASSUME WlRoom, WlInv, [WlNext]_wlVars PROVE WlInv'
  OBVIOUS
<1>1. ASSUME NEW w \in Windows, AddWindowNode(w) PROVE WlInv'
  BY <1>1, AddOK
<1>2. ASSUME NEW w \in Windows, RemoveWindowNode(w) PROVE WlInv'
  BY <1>2, RemoveOK
<1>3. ASSUME NEW w \in Apps, Request(w) PROVE WlInv'
  BY <1>3, RequestOK
<1>4. ASSUME NEW w \in Apps, DragTo(w) PROVE WlInv'
  BY <1>4, DragOK
<1>5. ASSUME NEW w \in WlMains, SetWindowModeOf(w) PROVE WlInv'
  BY <1>5, SetModeOK
<1>6. CASE MoveDivider
  BY <1>6, MoveDividerOK
<1>7. CASE ReleaseDivider
  BY <1>7, ReleaseDividerOK
<1>8. CASE ResizeDivider
  BY <1>8, ResizeDividerOK
<1>9. CASE BackUpDivider
  BY <1>9, BackUpOK
<1>10. CASE RestoreDivider
  BY <1>10, RestoreOK
<1>11. ASSUME NEW size \in WlSizes, ProcessDisplaySizeChangeOrRotation(size) PROVE WlInv'
  BY <1>11, SizeChangeOK
<1>12. ASSUME NEW vpr \in WlRatios, SetVirtualPixelRatio(vpr) PROVE WlInv'
  BY <1>12, RatioOK
<1>13. CASE Reorder
  BY <1>13, ReorderOK
<1>14. CASE UNCHANGED wlVars
  BY <1>14 DEF wlVars, WlInv, Ready, Put, Clear
<1> QED BY <1>1, <1>2, <1>3, <1>4, <1>5, <1>6, <1>7, <1>8, <1>9, <1>10, <1>11, <1>12, <1>13, <1>14 DEF WlNext, WlNextOf

(* The two halves of the split screen and the gap between them make up the display, and
   neither is less than nothing: wherever the divider was dragged, snapped, put back or
   resized by its dialog, whatever bars are shown and hidden and however the display
   turns, changes its size or its density. For any windows, sizes, limits and ratios,
   if a display has room for bars and divider (WlRoom): else the limits the code sets
   for the divider may cross, and it takes the gap from a half that is smaller.     *)
THEOREM HalvesTile == WlRoom => (WlSpec => []WlHalvesTile)
<1> SUFFICES ASSUME WlRoom PROVE WlSpec => []WlHalvesTile
  OBVIOUS
<1>1. WlInit => WlInv
  BY WlInvInit
<1>2. WlInv /\ [WlNext]_wlVars => WlInv'
  BY WlInvNext
<1>3. WlInv => WlHalvesTile
  BY DEF WlInv, Ready, Halved, HalvesOK, WlHalvesTile
<1> QED BY <1>1, <1>2, <1>3, PTL DEF WlSpec

(* Whatever windows, bars, dock and divider come, go, are asked for and are dragged, and
   however the display turns, a window that avoids the bars and does not float is laid
   clear of every bar across the display and of the other half: if the display has room. *)
THEOREM KeepsClear == WlRoom => (WlSpec => []WlFixedClear)
<1> SUFFICES ASSUME WlRoom PROVE WlSpec => []WlFixedClear
  OBVIOUS
<1>1. WlInit => WlInv
  BY WlInvInit
<1>2. WlInv /\ [WlNext]_wlVars => WlInv'
  BY WlInvNext
<1>3. WlInv => WlFixedClear
  <2> SUFFICES ASSUME WlInv, ~wlLay.skipped, NEW m \in WlMains \cap WlAvoid,
                      Shown(wlLay, m), wlLay.node[m].mode # "floating", Split(wlLay, m) => GapInside(wlLay)
               PROVE  ClearOf(m, wlLay)
    BY DEF WlFixedClear, WlClear
  <2>1. wlLay.node[m].shown
    BY MainsAre DEF Shown
  <2> QED BY <2>1, AreaIsClear DEF WlInv
<1> QED BY <1>1, <1>2, <1>3, PTL DEF WlSpec

-----------------------------------------------------------------------------
(* Tiles. *)
(* Induction, said of sets. *)
LEMMA WtUpTo ==
  ASSUME NEW N \in Nat, NEW T, 0 \in T, \A n \in 0 .. N : n \in T /\ n < N => n + 1 \in T
  PROVE  0 .. N \subseteq T
<1> SUFFICES ASSUME (0 .. N) \ T # {} PROVE FALSE
  OBVIOUS
<1> DEFINE A == (0 .. N) \ T
<1>1. PICK x \in A : \A y \in A : x <= y
  <2>1. A \in SUBSET Nat /\ A # {}
    OBVIOUS
  <2> HIDE DEF A
  <2> QED BY <2>1, WlLeast
<1>2. x # 0 /\ x - 1 \in 0 .. N /\ x - 1 < N
  BY <1>1
<1>3. x - 1 \in T
  BY <1>1, <1>2
<1>4. (x - 1) + 1 \in T
  BY <1>2, <1>3
<1> QED BY <1>1, <1>2, <1>4

(* ---- sequences ---- *)
LEMMA WtCat ==
  ASSUME NEW S, NEW p \in Seq(S), NEW q \in Seq(S)
  PROVE  /\ p \o q \in Seq(S) /\ Len(p \o q) = Len(p) + Len(q)
         /\ \A i \in 1 .. Len(p) : (p \o q)[i] = p[i]
         /\ \A i \in 1 .. Len(q) : (p \o q)[Len(p) + i] = q[i]
         /\ ToSet(p \o q) = ToSet(p) \cup ToSet(q)
<1> DEFINE r == p \o q
<1>1. /\ r \in Seq(S) /\ Len(r) = Len(p) + Len(q)
      /\ \A i \in 1 .. Len(p) : r[i] = p[i]
      /\ \A i \in 1 .. Len(q) : r[Len(p) + i] = q[i]
  OBVIOUS
<1> HIDE DEF r
<1>2. \A i \in 1 .. Len(r) : i \in 1 .. Len(p) \/ (i - Len(p) \in 1 .. Len(q) /\ r[i] = q[i - Len(p)])
  <2> SUFFICES ASSUME NEW i \in 1 .. Len(r), i \notin 1 .. Len(p)
               PROVE  i - Len(p) \in 1 .. Len(q) /\ r[i] = q[i - Len(p)]
    OBVIOUS
  <2>1. i - Len(p) \in 1 .. Len(q) /\ i = Len(p) + (i - Len(p))
    BY <1>1
  <2> QED BY <1>1, <2>1
<1>3. ASSUME NEW x \in ToSet(r) PROVE x \in ToSet(p) \cup ToSet(q)
  <2>1. PICK i \in 1 .. Len(r) : x = r[i]
    BY <1>1 DEF ToSet
  <2> QED BY <1>1, <1>2, <2>1 DEF ToSet
<1>4. ASSUME NEW x \in ToSet(p) PROVE x \in ToSet(r)
  <2>1. PICK i \in 1 .. Len(p) : x = p[i]
    BY DEF ToSet
  <2>2. i \in 1 .. Len(r)
    BY <1>1
  <2> QED BY <1>1, <2>1, <2>2 DEF ToSet
<1>5. ASSUME NEW x \in ToSet(q) PROVE x \in ToSet(r)
  <2>1. PICK i \in 1 .. Len(q) : x = q[i]
    BY DEF ToSet
  <2>2. Len(p) + i \in 1 .. Len(r)
    BY <1>1
  <2> QED BY <1>1, <2>1, <2>2 DEF ToSet
<1> QED BY <1>1, <1>3, <1>4, <1>5 DEF r

LEMMA WtAppend ==
  ASSUME NEW S, NEW p \in Seq(S), NEW x \in S
  PROVE  /\ Append(p, x) \in Seq(S) /\ Len(Append(p, x)) = Len(p) + 1
         /\ \A i \in 1 .. Len(p) : Append(p, x)[i] = p[i]
         /\ Append(p, x)[Len(p) + 1] = x
         /\ ToSet(Append(p, x)) = ToSet(p) \cup {x}
<1> DEFINE r == Append(p, x)
<1>1. r \in Seq(S) /\ Len(r) = Len(p) + 1 /\ r[Len(p) + 1] = x /\ \A i \in 1 .. Len(p) : r[i] = p[i]
  OBVIOUS
<1> HIDE DEF r
<1>2. 1 .. Len(r) = (1 .. Len(p)) \cup {Len(p) + 1}
  BY <1>1
<1>3. ToSet(r) = {r[i] : i \in 1 .. Len(r)} /\ ToSet(p) = {p[i] : i \in 1 .. Len(p)}
  BY <1>1 DEF ToSet
<1>4. ToSet(r) = ToSet(p) \cup {x}
  BY <1>1, <1>2, <1>3
<1> QED BY <1>1, <1>4 DEF r

(* A sequence is what is before a cut and what is behind it. *)
LEMMA WtCut ==
  ASSUME NEW S, NEW q \in Seq(S), NEW n \in 0 .. Len(q)
  PROVE  /\ SubSeq(q, 1, n) \in Seq(S) /\ Len(SubSeq(q, 1, n)) = n
         /\ \A i \in 1 .. n : SubSeq(q, 1, n)[i] = q[i]
         /\ SubSeq(q, n + 1, Len(q)) \in Seq(S) /\ Len(SubSeq(q, n + 1, Len(q))) = Len(q) - n
         /\ \A i \in 1 .. Len(q) - n : SubSeq(q, n + 1, Len(q))[i] = q[n + i]
         /\ ToSet(q) = ToSet(SubSeq(q, 1, n)) \cup ToSet(SubSeq(q, n + 1, Len(q)))
<1>1. PICK p \in Seq(S), r \in Seq(S) : p = SubSeq(q, 1, n) /\ r = SubSeq(q, n + 1, Len(q))
  <2>1. SubSeq(q, 1, n) \in Seq(S)
    OBVIOUS
  <2>2. SubSeq(q, n + 1, Len(q)) \in Seq(S)
    OBVIOUS
  <2> QED BY <2>1, <2>2
<1>2. Len(p) = n /\ \A i \in 1 .. n : p[i] = q[i]
  BY <1>1
<1>3. Len(r) = Len(q) - n /\ \A i \in 1 .. Len(q) - n : r[i] = q[n + i]
  BY <1>1
<1>4. PICK z \in Seq(S) : z = p \o r
  BY WtCat
<1>5. /\ Len(z) = Len(p) + Len(r)
      /\ \A i \in 1 .. Len(p) : z[i] = p[i]
      /\ \A i \in 1 .. Len(r) : z[Len(p) + i] = r[i]
      /\ ToSet(z) = ToSet(p) \cup ToSet(r)
  BY <1>4, WtCat
<1>6. ASSUME NEW i \in 1 .. Len(z) PROVE z[i] = q[i]
  <2>1. CASE i <= n
    <3>1. i \in 1 .. n /\ i \in 1 .. Len(p)
      BY <1>2, <2>1
    <3>2. z[i] = p[i] /\ p[i] = q[i]
      BY <1>2, <1>5, <3>1
    <3> QED BY <3>2
  <2>2. CASE n < i
    <3>1. i - n \in 1 .. Len(r) /\ n + (i - n) = i
      BY <1>2, <1>3, <1>5, <2>2
    <3>2. z[n + (i - n)] = r[i - n] /\ r[i - n] = q[n + (i - n)]
      BY <1>2, <1>3, <1>5, <3>1
    <3> QED BY <3>1, <3>2
  <2> QED BY <2>1, <2>2
<1>7. Len(z) = Len(q)
  BY <1>2, <1>3, <1>5
<1>8. z = q
  BY <1>6, <1>7, SeqEqual
<1> QED BY <1>1, <1>2, <1>3, <1>5, <1>8

(* The first of its kind is taken out. *)
FirstAt(q, k) == k \in 1 .. Len(q) /\ \A j \in 1 .. k - 1 : q[j] # q[k]
Without(r, q, k) == /\ Len(r) = Len(q) - 1
                    /\ \A j \in 1 .. k - 1 : r[j] = q[j]
                    /\ \A j \in k .. Len(q) - 1 : r[j] = q[j + 1]
LEMMA WtRemovedAt ==
  ASSUME NEW S, NEW q \in Seq(S), NEW k, FirstAt(q, k), NEW w, w = q[k], NEW r, r = RemoveFirst(q, w)
  PROVE  r \in Seq(S) /\ Without(r, q, k)
<1>0. k \in 1 .. Len(q) /\ \A j \in 1 .. k - 1 : q[j] # q[k]
  BY DEF FirstAt
<1> DEFINE I == {i \in 1 .. Len(q) : q[i] = w}
<1>1. k \in I /\ \A i \in I : k <= i
  BY <1>0
<1>2. Min(I) = k
  <2>1. I \in SUBSET Nat
    OBVIOUS
  <2> HIDE DEF I
  <2>2. PICK m : m = Min(I)
    OBVIOUS
  <2>3. m \in I /\ \A y \in I : m <= y
    BY <1>1, <2>2 DEF Min
  <2>4. m <= k /\ k <= m /\ m \in Nat /\ k \in Nat
    BY <1>1, <2>1, <2>3
  <2> QED BY <2>2, <2>4
<1>3. r = SubSeq(q, 1, k - 1) \o SubSeq(q, k + 1, Len(q))
  <2>1. \E i \in 1 .. Len(q) : q[i] = w
    BY <1>0
  <2> QED BY <1>1, <1>2, <2>1 DEF RemoveFirst, RemoveAt, SelectInSeq
<1>4. /\ SubSeq(q, 1, k - 1) \in Seq(S) /\ Len(SubSeq(q, 1, k - 1)) = k - 1
      /\ \A i \in 1 .. k - 1 : SubSeq(q, 1, k - 1)[i] = q[i]
  <2>1. k - 1 \in 0 .. Len(q)
    BY <1>0
  <2> QED BY <2>1, WtCut
<1>5. /\ SubSeq(q, k + 1, Len(q)) \in Seq(S) /\ Len(SubSeq(q, k + 1, Len(q))) = Len(q) - k
      /\ \A i \in 1 .. Len(q) - k : SubSeq(q, k + 1, Len(q))[i] = q[k + i]
  <2>1. k \in 0 .. Len(q)
    BY <1>0
  <2> QED BY <2>1, WtCut
<1> DEFINE a == SubSeq(q, 1, k - 1)
           b == SubSeq(q, k + 1, Len(q))
<1>6. r = a \o b /\ a \in Seq(S) /\ b \in Seq(S) /\ Len(a) = k - 1 /\ Len(b) = Len(q) - k
      /\ (\A i \in 1 .. k - 1 : a[i] = q[i]) /\ (\A i \in 1 .. Len(q) - k : b[i] = q[k + i])
  BY <1>3, <1>4, <1>5
<1> HIDE DEF a, b
<1>7. /\ r \in Seq(S) /\ Len(r) = (k - 1) + (Len(q) - k)
      /\ \A i \in 1 .. k - 1 : r[i] = a[i]
      /\ \A i \in 1 .. Len(q) - k : r[(k - 1) + i] = b[i]
  <2>0. a \in Seq(S) /\ b \in Seq(S)
    BY <1>6
  <2>1. /\ a \o b \in Seq(S) /\ Len(a \o b) = Len(a) + Len(b)
        /\ \A i \in 1 .. Len(a) : (a \o b)[i] = a[i]
        /\ \A i \in 1 .. Len(b) : (a \o b)[Len(a) + i] = b[i]
    BY <2>0, WtCat
  <2> QED BY <1>6, <2>1, Zenon
<1>8. ASSUME NEW j \in k .. Len(q) - 1 PROVE r[j] = q[j + 1]
  <2>1. j - k + 1 \in 1 .. Len(q) - k /\ (k - 1) + (j - k + 1) = j /\ k + (j - k + 1) = j + 1
    BY <1>0
  <2>2. r[(k - 1) + (j - k + 1)] = b[j - k + 1] /\ b[j - k + 1] = q[k + (j - k + 1)]
    BY <1>6, <1>7, <2>1, Zenon
  <2> QED BY <2>1, <2>2
<1>9. (k - 1) + (Len(q) - k) = Len(q) - 1
  BY <1>0
<1> QED BY <1>6, <1>7, <1>8, <1>9, Zenon DEF Without

Once(q) == \A i, j \in DOMAIN q : q[i] = q[j] => i = j

LEMMA WtRemoved ==
  ASSUME NEW S, NEW q \in Seq(S), NEW w, NEW r, r = RemoveFirst(q, w)
  PROVE  /\ r \in Seq(S) /\ ToSet(r) \subseteq ToSet(q) /\ ToSet(q) \subseteq ToSet(r) \cup {w}
         /\ Once(q) => Once(r) /\ w \notin ToSet(r)
<1>1. CASE ~\E i \in 1 .. Len(q) : q[i] = w
  <2>1. r = q
    BY <1>1 DEF RemoveFirst
  <2> QED BY <1>1, <2>1 DEF ToSet
<1>2. CASE \E i \in 1 .. Len(q) : q[i] = w
  <2> DEFINE I == {i \in 1 .. Len(q) : q[i] = w}
  <2>1. PICK k \in I : \A i \in I : k <= i
    <3>1. I \in SUBSET Nat /\ I # {}
      BY <1>2
    <3> HIDE DEF I
    <3> QED BY <3>1, WlLeast
  <2>2. k \in 1 .. Len(q) /\ q[k] = w /\ \A j \in 1 .. k - 1 : q[j] # q[k]
    BY <2>1
  <2>3. /\ r \in Seq(S) /\ Len(r) = Len(q) - 1
        /\ \A j \in 1 .. k - 1 : r[j] = q[j]
        /\ \A j \in k .. Len(q) - 1 : r[j] = q[j + 1]
    <3>1. FirstAt(q, k) /\ w = q[k]
      BY <2>2 DEF FirstAt
    <3>2. r \in Seq(S) /\ Without(r, q, k)
      BY <3>1, WtRemovedAt, Zenon
    <3> QED BY <3>2 DEF Without
  <2> DEFINE from(j) == IF j < k THEN j ELSE j + 1
  <2>4. \A j \in 1 .. Len(r) : from(j) \in 1 .. Len(q) /\ from(j) # k /\ r[j] = q[from(j)]
    BY <2>2, <2>3
  <2>5. \A i \in 1 .. Len(q) : i # k => \E j \in 1 .. Len(r) : i = from(j)
    <3> SUFFICES ASSUME NEW i \in 1 .. Len(q), i # k PROVE \E j \in 1 .. Len(r) : i = from(j)
      OBVIOUS
    <3> DEFINE j == IF i < k THEN i ELSE i - 1
    <3>1. j \in 1 .. Len(r) /\ i = from(j)
      BY <2>2, <2>3
    <3> QED BY <3>1
  <2>6. DOMAIN r = 1 .. Len(r) /\ DOMAIN q = 1 .. Len(q)
    BY <2>3
  <2>7. ToSet(r) \subseteq ToSet(q)
    BY <2>4, <2>6 DEF ToSet
  <2>8. ASSUME NEW x \in ToSet(q), x # w PROVE x \in ToSet(r)
    <3>1. PICK i \in 1 .. Len(q) : x = q[i]
      BY <2>6 DEF ToSet
    <3>2. i # k
      BY <2>2, <2>8, <3>1
    <3>3. PICK j \in 1 .. Len(r) : i = from(j)
      BY <2>5, <3>2
    <3> QED BY <2>4, <2>6, <3>1, <3>3 DEF ToSet
  <2>9. ASSUME Once(q) PROVE Once(r) /\ w \notin ToSet(r)
    <3>1. \A i, j \in 1 .. Len(r) : from(i) = from(j) => i = j
      BY <2>2, <2>3
    <3>2. Once(r)
      BY <2>4, <2>6, <2>9, <3>1 DEF Once
    <3>3. \A j \in 1 .. Len(r) : r[j] # w
      BY <2>2, <2>4, <2>6, <2>9 DEF Once
    <3> QED BY <2>6, <3>2, <3>3 DEF ToSet
  <2> QED BY <2>3, <2>7, <2>8, <2>9
<1> QED BY <1>1, <1>2

(* ---- the tiles ---- *)
WtPresets == [size : WtSizes, limit : WlRect, max : Nat \ {0}]

LEMMA WtSizesAre ==
  \A size \in WtSizes : size.w \in Nat \ {0} /\ size.h \in Nat \ {0}
BY WtAssumption

LEMMA WtDivided ==
  ASSUME NEW a \in Int, NEW d \in Nat \ {0}
  PROVE  a \div d \in Int /\ d * (a \div d) <= a /\ a < d * (a \div d) + d
<1>1. a \div d \in Int /\ a % d \in 0 .. (d - 1) /\ a = d * (a \div d) + (a % d)
  BY SMT
<1> QED BY <1>1

LEMMA WtPresetOK ==
  ASSUME NEW p \in WtPresets, NEW num \in Nat \ {0}, NEW i \in Nat
  PROVE  PresetRect(p, num, i) \in WlRect /\ TileWide(p, num) \in Int
<1>1. /\ p.size.w \in Nat /\ p.size.h \in Nat /\ p.limit \in WlRect
  BY WtSizesAre DEF WtPresets
<1>2. p.limit.x \in Int /\ p.limit.y \in Int /\ p.limit.w \in Int /\ p.limit.h \in Int
  BY <1>1 DEF WlRect
<1>3. \A n \in Nat : Part(n) \in Int
  BY DEF Part
<1>4. TileHigh(p) \in Int
  BY <1>1, <1>2, <1>3 DEF TileHigh, Lesser
<1>5. TileWide(p, num) \in Int
  <2>1. Lesser(p.limit.w, Part(p.size.w)) \in Int
    BY <1>1, <1>2, <1>3 DEF Lesser
  <2>2. p.limit.w - 2 * WtEdge - WtMid * (num - 1) \in Int
    <3>1. WtMid * (num - 1) \in Int
      BY WtAssumption
    <3> QED BY <1>2, <3>1, WtAssumption
  <2>3. (p.limit.w - 2 * WtEdge - WtMid * (num - 1)) \div num \in Int
    BY <2>2, WtDivided
  <2> QED BY <2>1, <2>3 DEF TileWide
<1>6. (p.limit.w - TileWide(p, 1)) \div 2 \in Int
  <2>1. TileWide(p, 1) \in Int
    BY <1>1, <1>2, <1>3 DEF TileWide, Lesser
  <2> QED BY <1>2, <2>1
<1>7. WtEdge + i * (TileWide(p, num) + WtMid) \in Int
  BY <1>5, WtAssumption
<1>8. (p.limit.h - TileHigh(p)) \div 2 \in Int
  BY <1>2, <1>4
<1> DEFINE x == p.limit.x + IF num = 1 THEN (p.limit.w - TileWide(p, 1)) \div 2 ELSE WtEdge + i * (TileWide(p, num) + WtMid)
           y == p.limit.y + (p.limit.h - TileHigh(p)) \div 2
<1>9. x \in Int /\ y \in Int
  BY <1>2, <1>6, <1>7, <1>8
<1>10. PresetRect(p, num, i) = Rect(x, y, TileWide(p, num), TileHigh(p))
  BY DEF PresetRect
<1> HIDE DEF x, y
<1> QED BY <1>4, <1>5, <1>9, <1>10 DEF Rect, WlRect

(* Tiles of one row do not cover each other; no more than the most there are to be have
   at least the least width.                                                         *)
LEMMA WtBeside ==
  ASSUME NEW p \in WtPresets, NEW num \in Nat, 2 <= num, num <= GetMaxTileWinNum(p.size, p.limit),
         NEW t \in Nat, NEW u \in Nat, t < u
  PROVE  /\ Apart(PresetRect(p, num, t), PresetRect(p, num, u))
         /\ Apart(PresetRect(p, num, u), PresetRect(p, num, t))
<1>1. p.limit.x \in Int /\ p.limit.w \in Int
  BY DEF WtPresets, WlRect
<1>2. PICK least \in Nat \ {0} : least = IF Vertical(p.size) THEN WlMin.w ELSE WlMin.h
  BY WlSizesAssumption
<1> DEFINE room == p.limit.w - 2 * WtEdge + WtMid
           wide == TileWide(p, num)
<1>3. WtMid \in Nat /\ WtEdge \in Nat /\ room \in Int /\ least + WtMid \in Nat \ {0}
  BY <1>1, <1>2, WtAssumption
<1>4. num * (least + WtMid) <= room
  <2>1. GetMaxTileWinNum(p.size, p.limit) = room \div (least + WtMid)
    BY <1>2 DEF GetMaxTileWinNum
  <2>2. (least + WtMid) * (room \div (least + WtMid)) <= room /\ room \div (least + WtMid) \in Int
    BY <1>3, WtDivided
  <2>3. PICK q \in Int : q = room \div (least + WtMid)
    BY <2>2
  <2>4. num <= q /\ (least + WtMid) * q <= room
    BY <2>1, <2>2, <2>3
  <2>5. PICK d \in Nat \ {0} : d = least + WtMid
    BY <1>3
  <2>6. num * d <= q * d
    <3>1. (q - num) * d >= 0
      BY <2>4, <2>5
    <3> QED BY <2>4, <2>5, <3>1
  <2>7. d * q = q * d
    BY <2>5, <2>3
  <2> HIDE DEF room
  <2> QED BY <2>4, <2>5, <2>6, <2>7, <1>3
<1>5. wide \in Int /\ 0 <= wide + WtMid
  <2>1. wide = (room - num * WtMid) \div num
    <3>1. WtMid * (num - 1) = num * WtMid - WtMid
      BY <1>3
    <3>2. p.limit.w - 2 * WtEdge - WtMid * (num - 1) = room - num * WtMid
      BY <1>1, <1>3, <3>1
    <3> QED BY <3>2 DEF TileWide
  <2>2. PICK a \in Int : a = room - num * WtMid
    BY <1>3
  <2>3. 0 <= a
    <3>1. num * (least + WtMid) = num * least + num * WtMid /\ num * least >= 0
      BY <1>2, <1>3
    <3> HIDE DEF room
    <3> QED BY <1>3, <1>4, <2>2, <3>1
  <2>4. wide = a \div num
    BY <2>1, <2>2
  <2>5. a \div num \in Int /\ a < num * (a \div num) + num
    BY WtDivided
  <2>6. 0 <= a \div num
    BY <2>3, <2>5
  <2> QED BY <1>3, <2>4, <2>5, <2>6
<1> HIDE DEF wide, room
<1>6. (u - t - 1) * (wide + WtMid) >= 0
  BY <1>3, <1>5
<1>7. t * (wide + WtMid) + wide + WtMid <= u * (wide + WtMid)
  <2>1. (u - t - 1) * (wide + WtMid) = u * (wide + WtMid) - t * (wide + WtMid) - (wide + WtMid)
    BY <1>3, <1>5
  <2>2. u * (wide + WtMid) \in Int /\ t * (wide + WtMid) \in Int
    BY <1>3, <1>5
  <2> QED BY <1>3, <1>5, <1>6, <2>1, <2>2
<1>8. \A i \in Nat : /\ PresetRect(p, num, i).x = p.limit.x + (WtEdge + i * (wide + WtMid))
                     /\ PresetRect(p, num, i).w = wide
  BY DEF PresetRect, Rect, wide
<1>9. Right(PresetRect(p, num, t)) <= PresetRect(p, num, u).x
  <2>1. PICK a \in Int, b \in Int : a = t * (wide + WtMid) /\ b = u * (wide + WtMid)
    BY <1>3, <1>5
  <2>2. a + wide + WtMid <= b
    BY <1>7, <2>1
  <2>3. PresetRect(p, num, t).x = p.limit.x + (WtEdge + a) /\ PresetRect(p, num, t).w = wide
    BY <1>8, <2>1
  <2>4. PresetRect(p, num, u).x = p.limit.x + (WtEdge + b)
    BY <1>8, <2>1
  <2> QED BY <1>1, <1>3, <1>5, <2>2, <2>3, <2>4 DEF Right
<1> QED BY <1>9 DEF Apart

(* ---- the state ---- *)
WtListed == WtWindows \cup {"null"}
WtStates == [tile : BOOLEAN, byOther : BOOLEAN, size : WtSizes, bar : [WtBars -> WlRect], limit : WlRect,
             preset : WtPresets, known : WtSizes, tree : Seq(WtWindows), queue : Seq(WtWindows),
             list : Seq(WtListed), full : SUBSET WtWindows, req : [WtWindows -> WlRect],
             asked : SUBSET WtWindows, kept : SUBSET WtWindows]
(* While tiles are given: how many have one, and who comes back. *)
WtRuns == [L : WtStates, placed : Nat, back : Seq(WtWindows)]
(* Only the queue, the list, the modes, the rectangles and who is kept may differ. *)
WtSame(N, L) == /\ N.tile = L.tile /\ N.byOther = L.byOther /\ N.size = L.size /\ N.bar = L.bar /\ N.limit = L.limit
                /\ N.preset = L.preset /\ N.known = L.known /\ N.tree = L.tree /\ N.asked = L.asked
(* Who stands in the queue or is on the list. *)
WtCovered(L) == ToSet(L.queue) \cup (ToSet(L.list) \cap WtWindows)
WtAside(L) == \A v, w \in ToSet(L.queue) \ L.kept : v # w => Apart(L.req[v], L.req[w])

LEMMA WtElements ==
  ASSUME NEW S, NEW q \in Seq(S)
  PROVE  /\ DOMAIN q = 1 .. Len(q) /\ Len(q) \in Nat /\ \A i \in 1 .. Len(q) : q[i] \in S /\ q[i] \in ToSet(q)
         /\ \A x \in ToSet(q) : x \in S /\ \E i \in 1 .. Len(q) : x = q[i]
BY DEF ToSet

(* The one put on the list last is taken off, and comes back if its window is there. *)
LEMMA WtRecovered ==
  ASSUME NEW L \in WtStates
  PROVE  /\ PopList(L) \in WtStates /\ GetRecoverdNode(L) \in Seq(WtWindows)
         /\ WtSame(PopList(L), L) /\ PopList(L).queue = L.queue /\ PopList(L).req = L.req /\ PopList(L).kept = L.kept
         /\ WtCovered(L) \subseteq WtCovered(PopList(L)) \cup ToSet(GetRecoverdNode(L))
<1>1. L.list \in Seq(WtListed)
  BY DEF WtStates
<1>2. CASE L.list = <<>>
  <2>1. PopList(L) = L /\ GetRecoverdNode(L) = <<>>
    BY <1>2 DEF PopList, GetRecoverdNode
  <2> QED BY <2>1 DEF WtSame
<1>3. CASE L.list # <<>>
  <2>1. PICK n \in Nat : n + 1 = Len(L.list)
    BY <1>1, <1>3
  <2>2. n \in 0 .. Len(L.list)
    BY <2>1
  <2>3. PICK q : q = SubSeq(L.list, 1, n)
    OBVIOUS
  <2>4. q \in Seq(WtListed) /\ Len(q) = n /\ \A i \in 1 .. n : q[i] = L.list[i]
    BY <1>1, <2>2, <2>3, WtCut
  <2>5. Front(L.list) = q
    BY <2>1, <2>3 DEF Front
  <2>6. PopList(L) = [L EXCEPT !.list = q]
    BY <1>3, <2>5 DEF PopList
  <2>7. PICK last \in WtListed : last = Last(L.list) /\ last = L.list[n + 1]
    BY <1>1, <2>1 DEF Last
  <2>8. ToSet(L.list) \subseteq ToSet(q) \cup {last}
    <3> SUFFICES ASSUME NEW i \in 1 .. Len(L.list) PROVE L.list[i] \in ToSet(q) \cup {last}
      BY <1>1, WtElements DEF ToSet
    <3>1. i \in 1 .. n \/ i = n + 1
      BY <2>1
    <3>2. i \in 1 .. n => q[i] \in ToSet(q)
      BY <2>4, WtElements
    <3> QED BY <2>4, <2>7, <3>1, <3>2
  <2>9. GetRecoverdNode(L) = IF last = "null" THEN <<>> ELSE <<last>>
    BY <1>3, <2>7 DEF GetRecoverdNode
  <2>10. last # "null" => last \in WtWindows
    BY <2>7 DEF WtListed
  <2>11. GetRecoverdNode(L) \in Seq(WtWindows)
    BY <2>9, <2>10
  <2>12. {last} \cap WtWindows \subseteq ToSet(GetRecoverdNode(L))
    <3>1. CASE last = "null"
      BY <3>1, WtAssumption
    <3>2. CASE last # "null"
      <4>1. DOMAIN <<last>> = 1 .. 1 /\ <<last>>[1] = last
        OBVIOUS
      <4>2. last \in ToSet(<<last>>)
        BY <4>1 DEF ToSet
      <4> QED BY <2>9, <3>2, <4>2
    <3> QED BY <3>1, <3>2
  <2>13. /\ PopList(L) \in WtStates /\ PopList(L).list = q
         /\ WtSame(PopList(L), L) /\ PopList(L).queue = L.queue /\ PopList(L).req = L.req /\ PopList(L).kept = L.kept
    BY <2>4, <2>6 DEF WtStates, WtSame
  <2>14. WtCovered(L) \subseteq WtCovered(PopList(L)) \cup ToSet(GetRecoverdNode(L))
    BY <2>8, <2>12, <2>13 DEF WtCovered
  <2> QED BY <2>11, <2>13, <2>14
<1> QED BY <1>2, <1>3

LEMMA WtNeedMinimize ==
  ASSUME NEW L \in WtStates, NEW w \in WtWindows, NEW N, N = AddNeedMinimize(L, w)
  PROVE  /\ N \in WtStates /\ WtSame(N, L) /\ N.queue = L.queue /\ N.req = L.req /\ N.kept = L.kept
         /\ WtCovered(N) = WtCovered(L) \cup {w}
<1>1. L.list \in Seq(WtListed) /\ w \in WtListed
  BY DEF WtStates, WtListed
<1>2. PICK q : q = Append(L.list, w) /\ q \in Seq(WtListed) /\ ToSet(q) = ToSet(L.list) \cup {w}
  <2>1. /\ Append(L.list, w) \in Seq(WtListed)
        /\ ToSet(Append(L.list, w)) = ToSet(L.list) \cup {w}
    BY <1>1, WtAppend
  <2> QED BY <2>1
<1>3. N = [L EXCEPT !.list = q]
  BY <1>2 DEF AddNeedMinimize
<1>4. N \in WtStates /\ WtSame(N, L) /\ N.queue = L.queue /\ N.req = L.req /\ N.kept = L.kept /\ N.list = q
  BY <1>2, <1>3 DEF WtStates, WtSame
<1> QED BY <1>2, <1>4 DEF WtCovered

(* One window of the queue that its tile does not suit. *)
WtOut(num, s, w) ==
  LET full == num = s.L.preset.max IN
  [s EXCEPT !.back = IF full THEN @ \o GetRecoverdNode(s.L) ELSE @,
            !.L = Refused(@, w, full)]
WtPutOut(t, s, w) ==
  /\ WtSame(t.L, s.L) /\ t.placed = s.placed
  /\ t.L.queue = RemoveFirst(s.L.queue, w) /\ t.L.req = s.L.req
  /\ WtCovered(s.L) \cup ToSet(s.back) \cup {w} \subseteq WtCovered(t.L) \cup ToSet(t.back)
LEMMA WtOutOK ==
  ASSUME NEW s \in WtRuns, NEW w \in WtWindows, NEW num \in Nat, NEW t, t = WtOut(num, s, w)
  PROVE  t \in WtRuns /\ WtPutOut(t, s, w)
<1> DEFINE full == num = s.L.preset.max
<1>1. s.L \in WtStates /\ s.back \in Seq(WtWindows)
  BY DEF WtRuns
<1>2. PICK M : M = IF full THEN PopList(s.L) ELSE s.L
  OBVIOUS
<1>3. PICK b : b = IF full THEN s.back \o GetRecoverdNode(s.L) ELSE s.back
  OBVIOUS
<1>4. /\ M \in WtStates /\ b \in Seq(WtWindows) /\ WtSame(M, s.L)
      /\ M.queue = s.L.queue /\ M.req = s.L.req /\ M.kept = s.L.kept
      /\ WtCovered(s.L) \cup ToSet(s.back) \subseteq WtCovered(M) \cup ToSet(b)
  <2>1. CASE full
    <3>1. PICK g \in Seq(WtWindows) : g = GetRecoverdNode(s.L)
      BY <1>1, WtRecovered
    <3>2. b \in Seq(WtWindows) /\ ToSet(b) = ToSet(s.back) \cup ToSet(g)
      BY <1>1, <1>3, <2>1, <3>1, WtCat
    <3>3. M = PopList(s.L)
      BY <1>2, <2>1
    <3> QED BY <1>1, <3>1, <3>2, <3>3, WtRecovered
  <2>2. CASE ~full
    BY <1>1, <1>2, <1>3, <2>2 DEF WtSame
  <2> QED BY <2>1, <2>2
<1>5. PICK N : N = AddNeedMinimize(M, w)
  OBVIOUS
<1>6. /\ N \in WtStates /\ WtSame(N, M) /\ N.queue = M.queue /\ N.req = M.req /\ N.kept = M.kept
      /\ WtCovered(N) = WtCovered(M) \cup {w}
  BY <1>4, <1>5, WtNeedMinimize
<1>7. PICK r : r = RemoveFirst(N.queue, w)
  OBVIOUS
<1>8. r \in Seq(WtWindows) /\ ToSet(N.queue) \subseteq ToSet(r) \cup {w}
  <2>1. N.queue \in Seq(WtWindows)
    BY <1>6 DEF WtStates
  <2> QED BY <1>7, <2>1, WtRemoved
<1>9. t = [s EXCEPT !.back = b, !.L = [N EXCEPT !.queue = r]]
  <2>1. Refused(s.L, w, full) = [N EXCEPT !.queue = r]
    BY <1>2, <1>5, <1>7 DEF Refused
  <2>2. t = [s EXCEPT !.back = b, !.L = Refused(s.L, w, full)]
    BY <1>3 DEF WtOut
  <2> QED BY <2>1, <2>2
<1>10. PICK R : R = [N EXCEPT !.queue = r]
  OBVIOUS
<1>11. R \in WtStates /\ WtSame(R, N) /\ R.queue = r /\ R.req = N.req /\ R.kept = N.kept /\ R.list = N.list
  BY <1>6, <1>8, <1>10 DEF WtStates, WtSame
<1>12. t \in WtRuns /\ t.L = R /\ t.back = b /\ t.placed = s.placed
  BY <1>4, <1>9, <1>10, <1>11 DEF WtRuns
<1>13. WtSame(R, s.L)
  BY <1>4, <1>6, <1>11, Zenon DEF WtSame
<1>14. w \in ToSet(N.list) \cap WtWindows
  <2>1. M.list \in Seq(WtListed) /\ w \in WtListed
    BY <1>4 DEF WtStates, WtListed
  <2>2. ToSet(Append(M.list, w)) = ToSet(M.list) \cup {w}
    BY <2>1, WtAppend
  <2>3. N.list = Append(M.list, w)
    BY <1>4, <1>5 DEF AddNeedMinimize, WtStates
  <2> QED BY <2>2, <2>3
<1>15. WtCovered(N) \subseteq WtCovered(R)
  BY <1>8, <1>11, <1>14 DEF WtCovered
<1> QED BY <1>4, <1>6, <1>7, <1>11, <1>12, <1>13, <1>15 DEF WtPutOut

(* ---- tiles are given ---- *)
(* The windows among the first i of the queue that a tile suits. *)
WtTiled(L, i) == {w \in WtWindows : /\ \E j \in 1 .. i : L.queue[j] = w
                                    /\ Suits(L, w, PresetRect(L.preset, Len(L.queue), 0))}
(* After the first i windows of the queue of L: k of them are still in it. *)
WtKeeps(s, L, i, k) ==
  /\ Len(s.L.queue) = k + (Len(L.queue) - i)
  /\ \A j \in 1 .. k : s.L.queue[j] \in WtTiled(L, i)
  /\ \A m \in 1 .. Len(L.queue) - i : s.L.queue[k + m] = L.queue[i + m]
WtGiven(s, L, i) ==
  \A w \in WtTiled(L, i) :
    /\ \E t \in 0 .. s.placed - 1 : s.L.req[w] = PresetRect(L.preset, Len(L.queue), t)
    /\ \A v \in WtTiled(L, i) : v # w => Apart(s.L.req[v], s.L.req[w])
WtRun(s, L, i) ==
  /\ s \in WtRuns /\ WtSame(s.L, L)
  /\ WtCovered(L) \subseteq WtCovered(s.L) \cup ToSet(s.back)
  /\ \E k \in 0 .. i : WtKeeps(s, L, i, k)
  /\ WtGiven(s, L, i)
(* The most tiles there are to be fit, or there is but one. *)
WtFits(p) == p.max = 1 \/ p.max = GetMaxTileWinNum(p.size, p.limit)

(* All tiles of a row are of one size. *)
LEMMA WtSuitsAlike ==
  ASSUME NEW L, NEW M, M.known = L.known, NEW w, NEW p, NEW num, NEW i, NEW j
  PROVE  Suits(M, w, PresetRect(p, num, i)) = Suits(L, w, PresetRect(p, num, j))
<1>1. /\ PresetRect(p, num, i).w = PresetRect(p, num, j).w
      /\ PresetRect(p, num, i).h = PresetRect(p, num, j).h
  BY DEF PresetRect, Rect
<1>2. PICK lim : lim = SizeLimits("main", WtCustom[w], WholeOf(L.known), WlScale)
  OBVIOUS
<1>3. IsRectSatisfiedWithSizeLimits(PresetRect(p, num, i), lim) = IsRectSatisfiedWithSizeLimits(PresetRect(p, num, j), lim)
  <2>1. RatioOf(PresetRect(p, num, i)) = RatioOf(PresetRect(p, num, j))
    BY <1>1 DEF RatioOf
  <2> QED BY <1>1, <2>1 DEF IsRectSatisfiedWithSizeLimits, RatioAllowed
<1> QED BY <1>2, <1>3 DEF Suits

(* One window of the queue that its tile suits. *)
WtIn(s, w, r) == [s EXCEPT !.placed = @ + 1, !.L = GivenTile(@, w, r)]
LEMMA WtInOK ==
  ASSUME NEW s \in WtRuns, NEW w \in WtWindows, NEW r \in WlRect, NEW t, t = WtIn(s, w, r)
  PROVE  /\ t \in WtRuns /\ WtSame(t.L, s.L) /\ t.placed = s.placed + 1 /\ t.back = s.back
         /\ t.L.queue = s.L.queue /\ t.L.list = s.L.list
         /\ t.L.req[w] = r /\ \A v \in WtWindows : v # w => t.L.req[v] = s.L.req[v]
<1>1. s.L \in WtStates /\ s.placed \in Nat /\ s.back \in Seq(WtWindows)
  BY DEF WtRuns
<1>2. PICK N : N = GivenTile(s.L, w, r)
  OBVIOUS
<1>3. /\ N \in WtStates /\ N.queue = s.L.queue /\ N.list = s.L.list /\ WtSame(N, s.L)
      /\ N.req = [s.L.req EXCEPT ![w] = r]
  BY <1>1, <1>2 DEF GivenTile, WtStates, WtSame
<1>0. PICK n \in Nat : n = s.placed + 1
  BY <1>1
<1>4. t = [s EXCEPT !.placed = n, !.L = N]
  BY <1>0, <1>2, Zenon DEF WtIn
<1>5. t \in WtRuns /\ t.L = N /\ t.placed = n /\ t.back = s.back
  BY <1>3, <1>4 DEF WtRuns
<1>6. s.L.req \in [WtWindows -> WlRect]
  BY <1>1 DEF WtStates
<1> QED BY <1>0, <1>3, <1>5, <1>6

LEMMA WtAssignIs ==
  ASSUME NEW s, NEW w, NEW num, NEW r, r = PresetRect(s.L.preset, num, s.placed)
  PROVE  /\ Suits(s.L, w, r) => Assign(num, s, w) = WtIn(s, w, r)
         /\ ~Suits(s.L, w, r) => Assign(num, s, w) = WtOut(num, s, w)
<1>1. CASE Suits(s.L, w, r)
  BY <1>1, Zenon DEF Assign, WtIn
<1>2. CASE ~Suits(s.L, w, r)
  BY <1>2, Zenon DEF Assign, WtOut
<1> QED BY <1>1, <1>2

LEMMA WtAssignTyped ==
  ASSUME NEW s \in WtRuns, NEW w \in WtWindows, NEW num \in Nat \ {0}
  PROVE  Assign(num, s, w) \in WtRuns
<1>1. PICK r : r = PresetRect(s.L.preset, num, s.placed)
  OBVIOUS
<1>2. s.L.preset \in WtPresets /\ s.placed \in Nat
  BY DEF WtRuns, WtStates
<1>3. r \in WlRect
  BY <1>1, <1>2, WtPresetOK
<1>4. WtIn(s, w, r) \in WtRuns
  BY <1>3, WtInOK
<1>5. WtOut(num, s, w) \in WtRuns
  BY WtOutOK
<1> QED BY <1>1, <1>4, <1>5, WtAssignIs

(* One more window. *)
WtStep(t, s, L, i) == t = Assign(Len(L.queue), s, L.queue[i + 1])
LEMMA WtAssignOK ==
  ASSUME NEW L \in WtStates, WtFits(L.preset), Len(L.queue) \in 1 .. L.preset.max,
         NEW i \in 0 .. Len(L.queue) - 1, NEW s, WtRun(s, L, i), NEW t, WtStep(t, s, L, i)
  PROVE  WtRun(t, L, i + 1)
<1>01. PICK num \in Nat \ {0}, w \in WtWindows : num = Len(L.queue) /\ w = L.queue[i + 1] /\ t = Assign(num, s, w)
  <2>1. L.queue \in Seq(WtWindows)
    BY DEF WtStates
  <2>2. Len(L.queue) \in Nat \ {0} /\ L.queue[i + 1] \in WtWindows
    BY <2>1
  <2> QED BY <2>2 DEF WtStep
<1> DEFINE P(n) == PresetRect(L.preset, num, n)
<1>02. t = Assign(num, s, w)
  BY <1>01
<1>1. /\ num \in Nat \ {0} /\ num = Len(L.queue) /\ w = L.queue[i + 1] /\ i + 1 \in 1 .. num /\ w \in WtWindows
      /\ L.queue \in Seq(WtWindows) /\ L.preset \in WtPresets /\ num <= L.preset.max
  BY <1>01 DEF WtStates, WtPresets
<1>2. s \in WtRuns /\ s.L \in WtStates /\ s.placed \in Nat /\ WtSame(s.L, L) /\ s.L.preset = L.preset /\ s.L.known = L.known
  BY DEF WtRun, WtRuns, WtSame
<1>3. PICK k \in 0 .. i : WtKeeps(s, L, i, k)
  BY DEF WtRun
<1>0. k \in Nat /\ i \in Nat /\ num \in Nat /\ k <= i /\ i < num
  BY <1>1
<1>11. /\ Len(s.L.queue) = k + (num - i)
       /\ \A j \in 1 .. k : s.L.queue[j] \in WtTiled(L, i)
       /\ \A m \in 1 .. num - i : s.L.queue[k + m] = L.queue[i + m]
  BY <1>1, <1>3 DEF WtKeeps
<1>4. t \in WtRuns
  BY <1>02, <1>2, WtAssignTyped
<1>5. PICK r : r = P(s.placed)
  OBVIOUS
<1>6. \A n : Suits(s.L, w, P(n)) = Suits(L, w, P(0))
  BY <1>2, WtSuitsAlike
<1>7. WtTiled(L, i + 1) = IF Suits(L, w, P(0)) THEN WtTiled(L, i) \cup {w} ELSE WtTiled(L, i)
  <2>1. \A j \in 1 .. i + 1 : j \in 1 .. i \/ j = i + 1
    OBVIOUS
  <2>2. \A j \in 1 .. i : j \in 1 .. i + 1
    OBVIOUS
  <2>3. i + 1 \in 1 .. i + 1
    OBVIOUS
  <2>4. \A n, v : v \in WtTiled(L, n) <=> v \in WtWindows /\ (\E j \in 1 .. n : L.queue[j] = v) /\ Suits(L, v, P(0))
    BY <1>1 DEF WtTiled
  <2>5. \A v : v \in WtTiled(L, i + 1) <=> v \in WtTiled(L, i) \/ (v = w /\ Suits(L, w, P(0)))
    <3> HIDE DEF P
    <3> QED BY <1>1, <2>1, <2>2, <2>3, <2>4
  <2> QED BY <2>5
<1>8. WtTiled(L, i) \subseteq WtWindows
  BY DEF WtTiled
<1>9. CASE Suits(L, w, P(0))
  <2>1. t = WtIn(s, w, r)
    <3>1. Suits(s.L, w, r) /\ r = PresetRect(s.L.preset, num, s.placed)
      BY <1>2, <1>5, <1>6, <1>9
    <3> QED BY <1>02, <3>1, WtAssignIs, Zenon
  <2>2. /\ WtSame(t.L, s.L) /\ t.L.queue = s.L.queue /\ t.L.list = s.L.list /\ t.back = s.back
        /\ t.placed = s.placed + 1
        /\ t.L.req[w] = r /\ \A v \in WtWindows : v # w => t.L.req[v] = s.L.req[v]
    <3>1. r \in WlRect
      BY <1>1, <1>2, <1>5, WtPresetOK
    <3> QED BY <1>2, <2>1, <3>1, WtInOK
  <2>3. t.L.req[w] = r /\ \A v \in WtWindows : v # w => t.L.req[v] = s.L.req[v]
    BY <2>2
  <2>4. WtSame(t.L, L)
    BY <1>2, <2>2, Zenon DEF WtSame
  <2>5. WtCovered(L) \subseteq WtCovered(t.L) \cup ToSet(t.back)
    BY <2>2 DEF WtRun, WtCovered
  <2>6. WtTiled(L, i + 1) = WtTiled(L, i) \cup {w}
    BY <1>7, <1>9
  <2>7. WtKeeps(t, L, i + 1, k + 1)
    <3>1. Len(t.L.queue) = (k + 1) + (num - (i + 1))
      <4>1. (k + 1) + (num - (i + 1)) = k + (num - i)
        BY <1>0
      <4> QED BY <1>11, <2>2, <4>1
    <3>2. s.L.queue[k + 1] = w
      <4>1. 1 \in 1 .. num - i
        BY <1>1
      <4> QED BY <1>1, <1>3, <4>1 DEF WtKeeps
    <3>3. \A j \in 1 .. k + 1 : j \in 1 .. k \/ j = k + 1
      OBVIOUS
    <3>4. \A j \in 1 .. k + 1 : t.L.queue[j] \in WtTiled(L, i + 1)
      BY <1>1, <1>3, <2>2, <2>6, <3>2, <3>3 DEF WtKeeps
    <3>5. ASSUME NEW m \in 1 .. num - (i + 1)
          PROVE  t.L.queue[(k + 1) + m] = L.queue[(i + 1) + m]
      <4>1. m + 1 \in 1 .. num - i /\ k + (m + 1) = (k + 1) + m /\ i + (m + 1) = (i + 1) + m
        BY <1>1
      <4>2. s.L.queue[k + (m + 1)] = L.queue[i + (m + 1)]
        BY <1>1, <1>3, <4>1 DEF WtKeeps
      <4> QED BY <2>2, <4>1, <4>2
    <3> QED BY <1>1, <3>1, <3>4, <3>5 DEF WtKeeps
  <2>8. WtGiven(t, L, i + 1)
    <3>1. t.L.req[w] = P(s.placed) /\ s.placed \in 0 .. t.placed - 1
      BY <1>2, <1>5, <2>2, <2>3
    <3>2. ASSUME NEW v \in WtTiled(L, i), v # w
          PROVE  /\ t.L.req[v] = s.L.req[v]
                 /\ \E n \in 0 .. s.placed - 1 : t.L.req[v] = P(n)
                 /\ Apart(t.L.req[v], t.L.req[w]) /\ Apart(t.L.req[w], t.L.req[v])
      <4>1. t.L.req[v] = s.L.req[v]
        BY <1>8, <2>3, <3>2
      <4>2. PICK n \in 0 .. s.placed - 1 : s.L.req[v] = P(n)
        BY <1>1 DEF WtRun, WtGiven
      <4>3. n \in Nat /\ n < s.placed
        BY <1>2
      <4>4. num >= 2
        <5>1. i # 0
          BY DEF WtTiled
        <5> QED BY <1>1, <5>1
      <4>5. num <= GetMaxTileWinNum(L.preset.size, L.preset.limit)
        BY <1>1, <4>4 DEF WtFits, WtPresets
      <4>6. Apart(P(n), P(s.placed)) /\ Apart(P(s.placed), P(n))
        BY <1>1, <1>2, <4>3, <4>4, <4>5, WtBeside
      <4> QED BY <3>1, <4>1, <4>2, <4>6
    <3>3. \A n \in 0 .. s.placed - 1 : n \in 0 .. t.placed - 1
      BY <1>2, <2>2
    <3>4. ASSUME NEW v \in WtTiled(L, i + 1)
          PROVE  \E n \in 0 .. t.placed - 1 : t.L.req[v] = P(n)
      <4>1. CASE v = w
        BY <3>1, <4>1
      <4>2. CASE v # w
        BY <2>6, <3>2, <3>3, <4>2
      <4> QED BY <4>1, <4>2
    <3>5. ASSUME NEW v \in WtTiled(L, i + 1), NEW u \in WtTiled(L, i + 1), v # u
          PROVE  Apart(t.L.req[v], t.L.req[u])
      <4>1. CASE v = w \/ u = w
        BY <2>6, <3>2, <3>5, <4>1
      <4>2. CASE v # w /\ u # w
        <5>1. v \in WtTiled(L, i) /\ u \in WtTiled(L, i)
          BY <2>6, <4>2
        <5>2. Apart(s.L.req[v], s.L.req[u])
          BY <3>5, <5>1 DEF WtRun, WtGiven
        <5> QED BY <3>2, <4>2, <5>1, <5>2
      <4> QED BY <4>1, <4>2
    <3> QED BY <1>1, <3>4, <3>5 DEF WtGiven
  <2>9. k + 1 \in 0 .. i + 1
    OBVIOUS
  <2> QED BY <1>4, <2>4, <2>5, <2>7, <2>8, <2>9 DEF WtRun
<1>10. CASE ~Suits(L, w, P(0))
  <2>1. t = WtOut(num, s, w)
    <3>1. ~Suits(s.L, w, PresetRect(s.L.preset, num, s.placed))
      BY <1>2, <1>6, <1>10
    <3> QED BY <1>02, <3>1, WtAssignIs, Zenon
  <2>2. /\ WtSame(t.L, s.L) /\ t.placed = s.placed
        /\ t.L.queue = RemoveFirst(s.L.queue, w) /\ t.L.req = s.L.req
        /\ WtCovered(s.L) \cup ToSet(s.back) \cup {w} \subseteq WtCovered(t.L) \cup ToSet(t.back)
    <3>1. num \in Nat
      BY <1>0
    <3>2. WtPutOut(t, s, w)
      BY <1>2, <2>1, <3>1, WtOutOK, Zenon
    <3> QED BY <3>2 DEF WtPutOut
  <2>3. WtSame(t.L, L)
    BY <1>2, <2>2, Zenon DEF WtSame
  <2>4. WtCovered(L) \subseteq WtCovered(t.L) \cup ToSet(t.back)
    BY <2>2 DEF WtRun
  <2>5. WtTiled(L, i + 1) = WtTiled(L, i)
    BY <1>7, <1>10
  <2>6. w \notin WtTiled(L, i)
    BY <1>1, <1>10 DEF WtTiled
  <2>7. WtGiven(t, L, i + 1)
    BY <1>1, <2>2, <2>5 DEF WtRun, WtGiven
  <2>8. WtKeeps(t, L, i + 1, k)
    <3>1. s.L.queue \in Seq(WtWindows) /\ Len(s.L.queue) = k + (num - i) /\ k + 1 \in 1 .. Len(s.L.queue)
      <4>1. s.L.queue \in Seq(WtWindows)
        BY <1>2 DEF WtStates
      <4> QED BY <1>0, <1>11, <4>1
    <3>2. s.L.queue[k + 1] = w
      <4>1. 1 \in 1 .. num - i
        BY <1>1
      <4> QED BY <1>1, <1>3, <4>1 DEF WtKeeps
    <3>3. \A j \in 1 .. (k + 1) - 1 : s.L.queue[j] # s.L.queue[k + 1]
      <4>1. (k + 1) - 1 = k
        BY <1>0
      <4> QED BY <1>11, <2>6, <3>2, <4>1
    <3>4. /\ Len(t.L.queue) = Len(s.L.queue) - 1
          /\ \A j \in 1 .. (k + 1) - 1 : t.L.queue[j] = s.L.queue[j]
          /\ \A j \in k + 1 .. Len(s.L.queue) - 1 : t.L.queue[j] = s.L.queue[j + 1]
      <4>1. FirstAt(s.L.queue, k + 1)
        BY <3>1, <3>3 DEF FirstAt
      <4>2. Without(t.L.queue, s.L.queue, k + 1)
        BY <2>2, <3>1, <3>2, <4>1, WtRemovedAt, Zenon
      <4> QED BY <4>2 DEF Without
    <3>5. Len(t.L.queue) = k + (num - (i + 1))
      <4>1. i \in Int /\ k \in Int /\ num \in Int
        BY <1>0, <1>1
      <4>2. Len(t.L.queue) = (k + (num - i)) - 1
        BY <3>1, <3>4
      <4> QED BY <4>1, <4>2
    <3>6. \A j \in 1 .. k : t.L.queue[j] \in WtTiled(L, i + 1)
      BY <1>0, <1>11, <2>5, <3>4
    <3>7. ASSUME NEW m \in 1 .. num - (i + 1)
          PROVE  t.L.queue[k + m] = L.queue[(i + 1) + m]
      <4>0. m \in Nat /\ 1 <= m /\ m <= num - (i + 1)
        BY <1>0
      <4>1. /\ m + 1 \in 1 .. num - i /\ k + (m + 1) = (k + m) + 1 /\ i + (m + 1) = (i + 1) + m
            /\ k + m \in k + 1 .. Len(s.L.queue) - 1
        <5>1. m + 1 \in 1 .. num - i /\ k + (m + 1) = (k + m) + 1 /\ i + (m + 1) = (i + 1) + m
          BY <1>0, <4>0
        <5>2. PICK n \in Nat : n = Len(s.L.queue) /\ n = k + (num - i)
          BY <3>1
        <5>3. k + m \in k + 1 .. n - 1
          BY <1>0, <4>0, <5>2
        <5> QED BY <5>1, <5>2, <5>3
      <4>2. s.L.queue[k + (m + 1)] = L.queue[i + (m + 1)]
        BY <1>1, <1>3, <4>1 DEF WtKeeps
      <4> QED BY <3>4, <4>1, <4>2
    <3> QED BY <1>1, <3>5, <3>6, <3>7 DEF WtKeeps
  <2>9. k \in 0 .. i + 1
    OBVIOUS
  <2> QED BY <1>4, <2>3, <2>4, <2>7, <2>8, <2>9 DEF WtRun
<1> QED BY <1>9, <1>10

(* f goes from x0 in N steps, and stays in X. *)
StaysIn(X, N, step) == \A n \in 1 .. N, x \in X : step[<<n, x>>] \in X
Goes(f, X, x0, N, step) == f \in [0 .. N -> X] /\ f[0] = x0 /\ \A n \in 1 .. N : f[n] = step[<<n, f[n - 1]>>]

(* A function that gives each value from the one before is there. *)
LEMMA Recursion ==
  ASSUME NEW X, NEW x0 \in X, NEW N \in Nat, NEW step, StaysIn(X, N, step)
  PROVE  \E f : Goes(f, X, x0, N, step)
<1> DEFINE Good(n, f) == Goes(f, X, x0, n, step)
           T == {n \in 0 .. N : \E f : Good(n, f)}
<1>1. 0 \in T
  <2>1. Good(0, [i \in 0 .. 0 |-> x0])
    BY DEF Goes
  <2>2. 0 \in 0 .. N
    OBVIOUS
  <2> HIDE DEF Good
  <2> QED BY <2>1, <2>2
<1>2. ASSUME NEW n \in 0 .. N, n \in T, n < N
      PROVE  n + 1 \in T
  <2>1. PICK f : Good(n, f)
    BY <1>2
  <2> DEFINE g == [i \in 0 .. n + 1 |-> IF i = n + 1 THEN step[<<n + 1, f[n]>>] ELSE f[i]]
  <2>2. f[n] \in X /\ n + 1 \in 1 .. N
    BY <1>2, <2>1 DEF Goes
  <2>3. step[<<n + 1, f[n]>>] \in X
    BY <2>2 DEF StaysIn
  <2>4. g \in [0 .. n + 1 -> X]
    BY <2>1, <2>3 DEF Goes
  <2>5. \A i \in 1 .. n + 1 : g[i] = step[<<i, g[i - 1]>>]
    <3> SUFFICES ASSUME NEW i \in 1 .. n + 1 PROVE g[i] = step[<<i, g[i - 1]>>]
      OBVIOUS
    <3>1. g[i - 1] = f[i - 1]
      OBVIOUS
    <3>2. CASE i = n + 1
      <4>1. g[i] = step[<<n + 1, f[n]>>] /\ i - 1 = n
        BY <3>2
      <4> QED BY <4>1, <3>1, <3>2
    <3>3. CASE i # n + 1
      <4>1. g[i] = f[i] /\ i \in 1 .. n
        BY <3>3
      <4> QED BY <4>1, <3>1, <2>1 DEF Goes
    <3> QED BY <3>2, <3>3
  <2>6. g[0] = x0
    BY <2>1 DEF Goes
  <2>7. Good(n + 1, g)
    BY <2>4, <2>5, <2>6 DEF Goes
  <2>8. n + 1 \in 0 .. N
    BY <1>2
  <2> HIDE DEF Good, g
  <2> QED BY <2>7, <2>8
<1>3. N \in T
  <2> HIDE DEF T
  <2>1. 0 .. N \subseteq T
    BY <1>1, <1>2, WtUpTo
  <2> QED BY <2>1
<1>4. PICK f : Good(N, f)
  <2> HIDE DEF Good
  <2> QED BY <1>3
<1> QED BY <1>4

(* Tiles are given to the windows of the queue in turn. *)
LEMMA WtUnassignedOK ==
  ASSUME NEW L \in WtStates
  PROVE  Unassigned(L) \in WtRuns /\ WtRun(Unassigned(L), L, 0)
<1>1. PICK s : s = Unassigned(L)
  OBVIOUS
<1>2. s \in WtRuns /\ s.L = L /\ s.placed = 0 /\ s.back = <<>>
  <2>1. <<>> \in Seq(WtWindows)
    OBVIOUS
  <2> QED BY <1>1, <2>1 DEF Unassigned, WtRuns
<1>3. WtTiled(L, 0) = {}
  BY DEF WtTiled
<1>4. WtKeeps(s, L, 0, 0)
  <2>1. L.queue \in Seq(WtWindows) /\ Len(L.queue) \in Nat
    BY DEF WtStates
  <2> QED BY <1>2, <2>1 DEF WtKeeps
<1>5. WtGiven(s, L, 0)
  BY <1>3 DEF WtGiven
<1>6. WtSame(s.L, L) /\ 0 \in 0 .. 0
  BY <1>2 DEF WtSame
<1>7. WtRun(s, L, 0)
  BY <1>2, <1>4, <1>5, <1>6 DEF WtRun
<1> QED BY <1>1, <1>2, <1>7

LEMMA WtAssignedOK ==
  ASSUME NEW L \in WtStates, WtFits(L.preset), Len(L.queue) \in 1 .. L.preset.max
  PROVE  WtRun(Assigned(L), L, Len(L.queue))
<1> DEFINE N == Len(L.queue)
           x0 == Unassigned(L)
           step == [z \in (1 .. N) \X WtRuns |-> Assign(N, z[2], L.queue[z[1]])]
           Gives(f) == f = [i \in 0 .. Len(L.queue) |->
                              IF i = 0 THEN Unassigned(L) ELSE Assign(Len(L.queue), f[i - 1], L.queue[i])]
<1>1. N \in Nat \ {0} /\ L.queue \in Seq(WtWindows)
  BY DEF WtStates
<1>2. \A n \in 1 .. N, s \in WtRuns : step[<<n, s>>] = Assign(N, s, L.queue[n])
  OBVIOUS
<1>3. StaysIn(WtRuns, N, step)
  <2> SUFFICES ASSUME NEW n \in 1 .. N, NEW s \in WtRuns PROVE step[<<n, s>>] \in WtRuns
    BY DEF StaysIn
  <2>1. L.queue[n] \in WtWindows
    BY <1>1
  <2>2. Assign(N, s, L.queue[n]) \in WtRuns
    <3> HIDE DEF N
    <3> QED BY <1>1, <2>1, WtAssignTyped
  <2> HIDE DEF step
  <2> QED BY <1>2, <2>2
<1>4. x0 \in WtRuns /\ WtRun(x0, L, 0)
  BY WtUnassignedOK
<1>5. PICK g : Goes(g, WtRuns, x0, N, step)
  <2> HIDE DEF N, x0, step
  <2> QED BY <1>1, <1>3, <1>4, Recursion
<1>6. \A i \in 1 .. N : g[i - 1] \in WtRuns /\ g[i] = Assign(N, g[i - 1], L.queue[i])
  <2> SUFFICES ASSUME NEW i \in 1 .. N PROVE g[i - 1] \in WtRuns /\ g[i] = Assign(N, g[i - 1], L.queue[i])
    OBVIOUS
  <2>1. i - 1 \in 0 .. N
    OBVIOUS
  <2> HIDE DEF N, step
  <2> QED BY <2>1, <1>2, <1>5 DEF Goes
<1>7. Gives(g)
  <2>1. g = [i \in 0 .. N |-> g[i]] /\ g[0] = x0
    <3> HIDE DEF N, x0, step
    <3> QED BY <1>5 DEF Goes
  <2>2. \A i \in 0 .. N : g[i] = IF i = 0 THEN x0 ELSE Assign(N, g[i - 1], L.queue[i])
    <3> SUFFICES ASSUME NEW i \in 0 .. N PROVE g[i] = IF i = 0 THEN x0 ELSE Assign(N, g[i - 1], L.queue[i])
      OBVIOUS
    <3>1. i # 0 => i \in 1 .. N
      OBVIOUS
    <3> HIDE DEF step, x0, N
    <3> QED BY <1>6, <2>1, <3>1, Zenon
  <2> HIDE DEF step
  <2> QED BY <2>1, <2>2
<1>8. Gives(CHOOSE r : Gives(r))
  <2> HIDE DEF Gives
  <2> QED BY <1>7, Zenon
<1>9. PICK r : r = (CHOOSE x : Gives(x))
  OBVIOUS
<1>10. Gives(r)
  BY <1>8, <1>9
<1>11. Assigned(L) = r[N]
  BY <1>9 DEF Assigned
<1>12. \A j \in 0 .. N : r[j] = IF j = 0 THEN x0 ELSE Assign(N, r[j - 1], L.queue[j])
  BY <1>10, Zenon
<1> HIDE DEF Gives
<1> DEFINE T == {i \in 0 .. N : WtRun(r[i], L, i)}
<1>13. 0 \in T
  <2>1. 0 \in 0 .. N
    BY <1>1
  <2>2. r[0] = x0
    BY <1>12, <2>1
  <2> HIDE DEF N, x0
  <2> QED BY <1>4, <2>1, <2>2
<1>14. ASSUME NEW i \in 0 .. N, i \in T, i < N
       PROVE  i + 1 \in T
  <2>1. i + 1 \in 0 .. N /\ i + 1 # 0 /\ (i + 1) - 1 = i /\ i \in 0 .. N - 1
    BY <1>1, <1>14
  <2>2. r[i + 1] = Assign(N, r[i], L.queue[i + 1])
    <3> HIDE DEF N, x0
    <3> QED BY <1>12, <2>1
  <2>3. PICK s, t : s = r[i] /\ t = r[i + 1]
    OBVIOUS
  <2>4. WtStep(t, s, L, i)
    BY <2>2, <2>3 DEF WtStep
  <2>5. WtRun(s, L, i)
    BY <1>14, <2>3
  <2>6. WtRun(t, L, i + 1)
    BY <2>1, <2>4, <2>5, WtAssignOK
  <2> QED BY <2>1, <2>3, <2>6
<1>15. N \in T
  <2> HIDE DEF T, N
  <2>1. 0 .. N \subseteq T
    BY <1>1, <1>13, <1>14, WtUpTo
  <2>2. N \in 0 .. N
    BY <1>1
  <2> QED BY <2>1, <2>2
<1> QED BY <1>11, <1>15

(* Who comes back is put behind the others, which stand beside each other. *)
LEMMA WtRequeuedOK ==
  ASSUME NEW L \in WtStates, NEW s, WtRun(s, L, Len(L.queue)), NEW R, R = Requeued(s)
  PROVE  R \in WtStates /\ WtSame(R, L) /\ WtCovered(L) \subseteq WtCovered(R) /\ WtAside(R)
<1>1. /\ s.L \in WtStates /\ s.back \in Seq(WtWindows) /\ WtSame(s.L, L)
      /\ WtCovered(L) \subseteq WtCovered(s.L) \cup ToSet(s.back) /\ WtGiven(s, L, Len(L.queue))
  BY DEF WtRun, WtRuns
<1>2. PICK q : q = s.L.queue \o s.back
  OBVIOUS
<1>3. PICK K : K = s.L.kept \cup ToSet(s.back)
  OBVIOUS
<1>4. q \in Seq(WtWindows) /\ ToSet(q) = ToSet(s.L.queue) \cup ToSet(s.back) /\ s.L.queue \in Seq(WtWindows)
  <2>1. s.L.queue \in Seq(WtWindows)
    BY <1>1 DEF WtStates
  <2> QED BY <1>1, <1>2, <2>1, WtCat
<1>5. K \in SUBSET WtWindows
  <2>1. s.L.kept \in SUBSET WtWindows
    BY <1>1 DEF WtStates
  <2>2. ToSet(s.back) \subseteq WtWindows
    BY <1>1, WtElements
  <2> QED BY <1>3, <2>1, <2>2
<1>6. R = [s.L EXCEPT !.queue = q, !.kept = K]
  BY <1>2, <1>3 DEF Requeued
<1>7. R \in WtStates /\ WtSame(R, s.L) /\ R.queue = q /\ R.kept = K /\ R.list = s.L.list /\ R.req = s.L.req
  BY <1>1, <1>4, <1>5, <1>6 DEF WtStates, WtSame
<1>8. WtSame(R, L)
  BY <1>1, <1>7, Zenon DEF WtSame
<1>9. WtCovered(L) \subseteq WtCovered(R)
  BY <1>1, <1>4, <1>7 DEF WtCovered
<1>10. ToSet(s.L.queue) \subseteq WtTiled(L, Len(L.queue))
  <2>1. PICK N \in Nat : N = Len(L.queue)
    BY DEF WtStates
  <2>2. PICK k \in 0 .. N : WtKeeps(s, L, N, k)
    BY <2>1 DEF WtRun
  <2>3. Len(s.L.queue) = k
    BY <2>1, <2>2 DEF WtKeeps
  <2>4. \A j \in 1 .. Len(s.L.queue) : s.L.queue[j] \in WtTiled(L, N)
    BY <2>2, <2>3 DEF WtKeeps
  <2> QED BY <1>4, <2>1, <2>4, WtElements
<1>11. WtAside(R)
  <2> SUFFICES ASSUME NEW v \in ToSet(R.queue) \ R.kept, NEW w \in ToSet(R.queue) \ R.kept, v # w
               PROVE  Apart(R.req[v], R.req[w])
    BY DEF WtAside
  <2>1. v \in ToSet(s.L.queue) /\ w \in ToSet(s.L.queue)
    BY <1>3, <1>4, <1>7
  <2>2. v \in WtTiled(L, Len(L.queue)) /\ w \in WtTiled(L, Len(L.queue))
    BY <1>10, <2>1
  <2>3. Apart(s.L.req[v], s.L.req[w])
    BY <1>1, <2>2 DEF WtGiven
  <2> QED BY <1>7, <2>3
<1> QED BY <1>7, <1>8, <1>9, <1>11

LEMMA WtAssignedAll ==
  ASSUME NEW L \in WtStates, WtFits(L.preset), Len(L.queue) <= L.preset.max \/ WtAside(L),
         NEW R, R = AssignNodePropertyForTileWindows(L)
  PROVE  R \in WtStates /\ WtSame(R, L) /\ WtCovered(L) \subseteq WtCovered(R) /\ WtAside(R)
<1>1. CASE Len(L.queue) \in 1 .. L.preset.max
  <2>1. WtRun(Assigned(L), L, Len(L.queue))
    BY <1>1, WtAssignedOK
  <2>2. R = Requeued(Assigned(L))
    BY <1>1 DEF AssignNodePropertyForTileWindows
  <2> QED BY <2>1, <2>2, WtRequeuedOK
<1>2. CASE Len(L.queue) \notin 1 .. L.preset.max
  <2>1. R = L
    BY <1>2 DEF AssignNodePropertyForTileWindows
  <2>2. CASE WtAside(L)
    BY <2>1, <2>2 DEF WtSame
  <2>3. CASE Len(L.queue) <= L.preset.max
    <3>1. L.queue \in Seq(WtWindows) /\ L.preset.max \in Nat
      BY DEF WtStates, WtPresets
    <3>2. Len(L.queue) = 0
      BY <1>2, <2>3, <3>1
    <3>3. ToSet(L.queue) = {}
      BY <3>1, <3>2, WtElements
    <3> QED BY <2>1, <3>3 DEF WtSame, WtAside
  <2> QED BY <2>2, <2>3
<1> QED BY <1>1, <1>2

(* ---- the queue ---- *)
LEMMA WtPopFrontOK ==
  ASSUME NEW L \in WtStates, NEW R, R = PopFront(L)
  PROVE  /\ R \in WtStates /\ WtSame(R, L) /\ R.req = L.req /\ R.kept = L.kept
         /\ WtCovered(L) \subseteq WtCovered(R) /\ Len(R.queue) < L.preset.max
<1>1. PICK n : n = NotBelowZero(Len(L.queue) - L.preset.max + 1)
  OBVIOUS
<1>2. L.queue \in Seq(WtWindows) /\ L.list \in Seq(WtListed) /\ L.preset.max \in Nat \ {0} /\ Len(L.queue) \in Nat
  BY DEF WtStates, WtPresets
<1>3. n \in 0 .. Len(L.queue) /\ Len(L.queue) - n < L.preset.max
  BY <1>1, <1>2 DEF NotBelowZero, Greater
<1>4. PICK q, p : q = SubSeq(L.queue, n + 1, Len(L.queue)) /\ p = SubSeq(L.queue, 1, n)
  OBVIOUS
<1>5. /\ q \in Seq(WtWindows) /\ Len(q) = Len(L.queue) - n /\ p \in Seq(WtWindows)
      /\ ToSet(L.queue) = ToSet(p) \cup ToSet(q)
  BY <1>2, <1>3, <1>4, WtCut
<1>6. p \in Seq(WtListed)
  BY <1>5 DEF WtListed
<1>7. PICK l : l = L.list \o p
  OBVIOUS
<1>8. l \in Seq(WtListed) /\ ToSet(l) = ToSet(L.list) \cup ToSet(p)
  BY <1>2, <1>6, <1>7, WtCat
<1>9. R = [L EXCEPT !.queue = q, !.list = l]
  BY <1>1, <1>4, <1>7 DEF PopFront
<1>10. R \in WtStates /\ WtSame(R, L) /\ R.queue = q /\ R.list = l /\ R.req = L.req /\ R.kept = L.kept
  BY <1>5, <1>8, <1>9 DEF WtStates, WtSame
<1>11. ToSet(p) \subseteq WtWindows
  BY <1>5, WtElements
<1> QED BY <1>3, <1>5, <1>8, <1>10, <1>11 DEF WtCovered

LEMMA WtPushOK ==
  ASSUME NEW L \in WtStates, NEW w \in WtWindows, NEW R, R = ForegroundNodeQueuePushBack(L, w)
  PROVE  /\ R \in WtStates /\ WtSame(R, L) /\ R.req = L.req /\ R.kept = L.kept
         /\ WtCovered(L) \cup {w} \subseteq WtCovered(R)
         /\ R.queue = L.queue \/ Len(R.queue) <= L.preset.max
<1>1. CASE Contains(L.queue, w)
  <2>1. R = L
    BY <1>1 DEF ForegroundNodeQueuePushBack
  <2>2. L.queue \in Seq(WtWindows)
    BY DEF WtStates
  <2>3. w \in ToSet(L.queue)
    BY <1>1, <2>2, WtElements DEF Contains
  <2> QED BY <2>1, <2>3 DEF WtSame, WtCovered
<1>2. CASE ~Contains(L.queue, w) /\ w \in WtFixed
  <2>1. R = AddNeedMinimize(L, w)
    BY <1>2 DEF ForegroundNodeQueuePushBack
  <2> QED BY <2>1, WtNeedMinimize
<1>3. CASE ~Contains(L.queue, w) /\ w \notin WtFixed
  <2>1. PICK N : N = PopFront(L)
    OBVIOUS
  <2>2. /\ N \in WtStates /\ WtSame(N, L) /\ N.req = L.req /\ N.kept = L.kept
        /\ WtCovered(L) \subseteq WtCovered(N) /\ Len(N.queue) < L.preset.max
    BY <2>1, WtPopFrontOK
  <2>3. N.queue \in Seq(WtWindows) /\ L.preset.max \in Nat
    BY <2>2 DEF WtStates, WtPresets
  <2>4. PICK q : q = Append(N.queue, w)
    OBVIOUS
  <2>5. q \in Seq(WtWindows) /\ Len(q) = Len(N.queue) + 1 /\ ToSet(q) = ToSet(N.queue) \cup {w}
    BY <2>3, <2>4, WtAppend
  <2>6. R = [N EXCEPT !.queue = q]
    <3>1. R = [PopFront(L) EXCEPT !.queue = Append(@, w)]
      BY <1>3, Zenon DEF ForegroundNodeQueuePushBack
    <3> QED BY <2>1, <2>4, <3>1
  <2>7. R \in WtStates /\ WtSame(R, N) /\ R.queue = q /\ R.list = N.list /\ R.req = N.req /\ R.kept = N.kept
    BY <2>2, <2>5, <2>6 DEF WtStates, WtSame
  <2>8. WtSame(R, L)
    BY <2>2, <2>7, Zenon DEF WtSame
  <2>9. Len(q) <= L.preset.max
    BY <2>2, <2>3, <2>5
  <2> QED BY <2>2, <2>5, <2>7, <2>8, <2>9 DEF WtCovered
<1> QED BY <1>1, <1>2, <1>3

(* The windows that are shown are pushed one after the other. *)
WtPushed(R, L, i) ==
  /\ R \in WtStates /\ WtSame(R, Emptied(L)) /\ Len(R.queue) <= R.preset.max
  /\ \A j \in 1 .. i : L.tree[j] \in WtCovered(R)
LEMMA WtInitQueueOK ==
  ASSUME NEW L, L.tree \in Seq(WtWindows), Emptied(L) \in WtStates, Emptied(L).queue = <<>>
  PROVE  WtPushed(InitForegroundNodeQueue(L), L, Len(L.tree))
<1> DEFINE N == Len(L.tree)
           x0 == Emptied(L)
           step == [z \in (1 .. N) \X WtStates |-> ForegroundNodeQueuePushBack(z[2], L.tree[z[1]])]
           Gives(f) == f = [i \in 0 .. Len(L.tree) |->
                              IF i = 0 THEN Emptied(L) ELSE ForegroundNodeQueuePushBack(f[i - 1], L.tree[i])]
<1>1. N \in Nat
  OBVIOUS
<1>2. \A n \in 1 .. N, s \in WtStates : step[<<n, s>>] = ForegroundNodeQueuePushBack(s, L.tree[n])
  OBVIOUS
<1>3. StaysIn(WtStates, N, step)
  <2> SUFFICES ASSUME NEW n \in 1 .. N, NEW s \in WtStates PROVE step[<<n, s>>] \in WtStates
    BY DEF StaysIn
  <2>1. L.tree[n] \in WtWindows
    BY <1>1
  <2>2. ForegroundNodeQueuePushBack(s, L.tree[n]) \in WtStates
    BY <2>1, WtPushOK
  <2> HIDE DEF step
  <2> QED BY <1>2, <2>2
<1>4. x0 \in WtStates
  OBVIOUS
<1>5. PICK g : Goes(g, WtStates, x0, N, step)
  <2> HIDE DEF N, x0, step
  <2> QED BY <1>1, <1>3, <1>4, Recursion
<1>6. \A i \in 1 .. N : g[i - 1] \in WtStates /\ g[i] = ForegroundNodeQueuePushBack(g[i - 1], L.tree[i])
  <2> SUFFICES ASSUME NEW i \in 1 .. N PROVE g[i - 1] \in WtStates /\ g[i] = ForegroundNodeQueuePushBack(g[i - 1], L.tree[i])
    OBVIOUS
  <2>1. i - 1 \in 0 .. N
    OBVIOUS
  <2> HIDE DEF N, step
  <2> QED BY <2>1, <1>2, <1>5 DEF Goes
<1>7. Gives(g)
  <2>1. g = [i \in 0 .. N |-> g[i]] /\ g[0] = x0
    <3> HIDE DEF N, x0, step
    <3> QED BY <1>5 DEF Goes
  <2>2. \A i \in 0 .. N : g[i] = IF i = 0 THEN x0 ELSE ForegroundNodeQueuePushBack(g[i - 1], L.tree[i])
    <3> SUFFICES ASSUME NEW i \in 0 .. N PROVE g[i] = IF i = 0 THEN x0 ELSE ForegroundNodeQueuePushBack(g[i - 1], L.tree[i])
      OBVIOUS
    <3>1. i # 0 => i \in 1 .. N
      OBVIOUS
    <3> HIDE DEF step, x0, N
    <3> QED BY <1>6, <2>1, <3>1, Zenon
  <2> HIDE DEF step
  <2> QED BY <2>1, <2>2
<1>8. Gives(CHOOSE r : Gives(r))
  <2> HIDE DEF Gives
  <2> QED BY <1>7, Zenon
<1>9. PICK r : r = (CHOOSE x : Gives(x))
  OBVIOUS
<1>10. Gives(r)
  BY <1>8, <1>9
<1>11. InitForegroundNodeQueue(L) = r[N]
  BY <1>9 DEF InitForegroundNodeQueue
<1>12. \A j \in 0 .. N : r[j] = IF j = 0 THEN x0 ELSE ForegroundNodeQueuePushBack(r[j - 1], L.tree[j])
  BY <1>10, Zenon
<1> HIDE DEF Gives
<1> DEFINE T == {i \in 0 .. N : WtPushed(r[i], L, i)}
<1>13. 0 \in T
  <2>1. 0 \in 0 .. N
    BY <1>1
  <2>2. r[0] = x0
    BY <1>12, <2>1
  <2>3. x0.preset.max \in Nat /\ Len(x0.queue) = 0
    BY DEF WtStates, WtPresets
  <2>4. WtPushed(x0, L, 0)
    BY <1>4, <2>3 DEF WtPushed, WtSame
  <2> HIDE DEF N, x0
  <2> QED BY <2>1, <2>2, <2>4
<1>14. ASSUME NEW i \in 0 .. N, i \in T, i < N
       PROVE  i + 1 \in T
  <2>1. i + 1 \in 0 .. N /\ i + 1 # 0 /\ (i + 1) - 1 = i /\ i + 1 \in 1 .. N
    BY <1>1, <1>14
  <2>2. r[i + 1] = ForegroundNodeQueuePushBack(r[i], L.tree[i + 1])
    <3> HIDE DEF N, x0
    <3> QED BY <1>12, <2>1
  <2>3. PICK s, t : s = r[i] /\ t = r[i + 1]
    OBVIOUS
  <2>4. PICK w \in WtWindows : w = L.tree[i + 1]
    BY <2>1
  <2>5. /\ s \in WtStates /\ WtSame(s, Emptied(L)) /\ Len(s.queue) <= s.preset.max
        /\ \A j \in 1 .. i : L.tree[j] \in WtCovered(s)
    BY <1>14, <2>3 DEF WtPushed
  <2>6. t = ForegroundNodeQueuePushBack(s, w)
    BY <2>2, <2>3, <2>4
  <2>7. /\ t \in WtStates /\ WtSame(t, s) /\ WtCovered(s) \cup {w} \subseteq WtCovered(t)
        /\ t.queue = s.queue \/ Len(t.queue) <= s.preset.max
    BY <2>5, <2>6, WtPushOK
  <2>8. WtSame(t, Emptied(L)) /\ t.preset = s.preset
    BY <2>5, <2>7, Zenon DEF WtSame
  <2>9. \A j \in 1 .. i + 1 : j \in 1 .. i \/ j = i + 1
    OBVIOUS
  <2>10. \A j \in 1 .. i + 1 : L.tree[j] \in WtCovered(t)
    BY <2>4, <2>5, <2>7, <2>9
  <2>11. WtPushed(t, L, i + 1)
    BY <2>5, <2>7, <2>8, <2>10 DEF WtPushed
  <2> QED BY <2>1, <2>3, <2>11
<1>15. N \in T
  <2> HIDE DEF T, N
  <2>1. 0 .. N \subseteq T
    BY <1>1, <1>13, <1>14, WtUpTo
  <2>2. N \in 0 .. N
    BY <1>1
  <2> QED BY <2>1, <2>2
<1> QED BY <1>11, <1>15

(* ---- what the bars leave ---- *)
WtBar == {EmptyRect} \cup {BarRect(b, size) : b \in WtBars, size \in WtSizes}
WtBarsOK(L) == \A b \in WtBars : L.bar[b] \in WtBar
(* The bars leave the display its width. *)
Wide(limit, size) == limit \in WlRect /\ limit.x = 0 /\ limit.w = size.w

LEMMA WtBarsAreRects ==
  \A bar \in WtBar : bar \in WlRect
<1>1. EmptyRect \in WlRect
  BY DEF EmptyRect, Rect, WlRect
<1>2. ASSUME NEW b \in WtBars, NEW size \in WtSizes PROVE BarRect(b, size) \in WlRect
  <2>1. size.w \in Nat /\ size.h \in Nat /\ WtThick \in Nat
    BY WtSizesAre, WtAssumption
  <2> QED BY <2>1 DEF BarRect, Rect, WlRect
<1> QED BY <1>1, <1>2 DEF WtBar

LEMMA WtLeftBy ==
  ASSUME WtRoom, NEW bar \in WtBar, bar # EmptyRect, NEW size \in WtSizes, NEW limit, Wide(limit, size)
  PROVE  Wide(UpdateLimitRect(bar, limit, WholeOf(size)), size)
<1>1. PICK b \in WtBars, other \in WtSizes : bar = BarRect(b, other)
  BY DEF WtBar
<1>2. /\ size.w \in Nat \ {0} /\ size.h \in Nat \ {0} /\ other.w \in Nat \ {0} /\ other.h \in Nat \ {0}
      /\ WtThick \in Nat \ {0} /\ WtThick < size.h /\ WtThick < other.h
  BY WtSizesAre, WtAssumption DEF WtRoom
<1>3. bar.x = 0 /\ bar.w = other.w /\ bar.h = WtThick /\ bar.y \in Int
  BY <1>1, <1>2 DEF BarRect, Rect
<1>4. limit.x = 0 /\ limit.w = size.w /\ limit.y \in Int /\ limit.h \in Int
  BY DEF Wide, WlRect
<1>5. PICK at : at = GetAvoidPosType(bar, WholeOf(size))
  OBVIOUS
<1>6. at # "left" /\ at # "right"
  BY <1>2, <1>3, <1>5 DEF GetAvoidPosType, WholeOf, Rect
<1>7. PICK y \in Int, bottom \in Int : UpdateLimitRect(bar, limit, WholeOf(size)) = Rect(0, y, NotBelowZero(size.w - 0), NotBelowZero(bottom - y))
  <2>1. Right(limit) = size.w /\ Bottom(limit) \in Int /\ Bottom(bar) \in Int
    BY <1>2, <1>3, <1>4 DEF Right, Bottom
  <2> DEFINE y == IF at = "top" THEN Bottom(bar) ELSE limit.y
             bottom == IF at = "bottom" THEN bar.y ELSE Bottom(limit)
  <2>2. y \in Int /\ bottom \in Int
    BY <1>3, <1>4, <2>1
  <2>3. UpdateLimitRect(bar, limit, WholeOf(size)) = Rect(0, y, NotBelowZero(size.w - 0), NotBelowZero(bottom - y))
    BY <1>4, <1>5, <1>6, <2>1 DEF UpdateLimitRect
  <2> QED BY <2>2, <2>3
<1>8. NotBelowZero(size.w - 0) = size.w /\ NotBelowZero(bottom - y) \in Int
  BY <1>2 DEF NotBelowZero, Greater
<1> QED BY <1>2, <1>7, <1>8 DEF Wide, WlRect, Rect

LEMMA WtLimitOK ==
  ASSUME WtRoom, NEW L, WtBarsOK(L), L.size \in WtSizes
  PROVE  Wide(LimitOf(L), L.size)
<1>1. Wide(WholeOf(L.size), L.size)
  <2>1. L.size.w \in Nat /\ L.size.h \in Nat
    BY WtSizesAre
  <2> QED BY <2>1 DEF Wide, WholeOf, Rect, WlRect
<1> DEFINE LeftBy(b, limit) == IF L.bar[b] = EmptyRect THEN limit ELSE UpdateLimitRect(L.bar[b], limit, WholeOf(L.size))
<1>2. ASSUME NEW b \in WtBars, NEW limit, Wide(limit, L.size) PROVE Wide(LeftBy(b, limit), L.size)
  <2>1. L.bar[b] \in WtBar
    BY DEF WtBarsOK
  <2> QED BY <1>2, <2>1, WtLeftBy
<1>3. "status" \in WtBars /\ "navigation" \in WtBars
  BY DEF WtBars
<1>4. LimitOf(L) = LeftBy("navigation", LeftBy("status", WholeOf(L.size)))
  BY DEF LimitOf
<1> HIDE DEF LeftBy
<1>5. Wide(LeftBy("status", WholeOf(L.size)), L.size)
  BY <1>1, <1>2, <1>3
<1>6. Wide(LeftBy("navigation", LeftBy("status", WholeOf(L.size))), L.size)
  BY <1>2, <1>3, <1>5
<1> QED BY <1>4, <1>6

(* There is room for one tile at least. *)
LEMMA WtMaxOK ==
  ASSUME WtRoom, NEW size \in WtSizes, NEW limit, Wide(limit, size), NEW p,
         p = [size |-> size, limit |-> limit, max |-> GetMaxTileWinNum(size, limit)]
  PROVE  p \in WtPresets /\ WtFits(p)
<1>1. PICK least \in Nat \ {0} : least = IF Vertical(size) THEN WlMin.w ELSE WlMin.h
  BY WlSizesAssumption
<1>2. /\ limit \in WlRect /\ limit.w = size.w /\ size.w \in Nat /\ 2 * WtEdge + least <= size.w
      /\ WtEdge \in Nat /\ WtMid \in Nat
  BY <1>1, WtSizesAre, WtAssumption DEF Wide, WtRoom
<1>3. PICK a \in Int : a = limit.w - 2 * WtEdge + WtMid
  BY <1>2
<1>4. PICK d \in Nat \ {0} : d = least + WtMid
  BY <1>1, <1>2
<1>5. d <= a
  BY <1>2, <1>3, <1>4
<1>6. GetMaxTileWinNum(size, limit) = a \div d
  BY <1>1, <1>3, <1>4 DEF GetMaxTileWinNum
<1>7. PICK m \in Int : m = a \div d /\ d * m <= a /\ a < d * m + d
  BY WtDivided
<1>8. 1 <= m
  <2>1. CASE m <= 0
    <3>1. d * m <= 0
      BY <2>1
    <3> QED BY <1>5, <1>7, <3>1
  <2> QED BY <2>1
<1>9. p.max = m /\ m \in Nat \ {0} /\ p.size = size /\ p.limit = limit
  BY <1>6, <1>7, <1>8
<1>10. p \in WtPresets
  BY <1>2, <1>6, <1>7, <1>9 DEF WtPresets
<1> QED BY <1>6, <1>7, <1>9, <1>10 DEF WtFits

(* ---- the invariant ---- *)
(* What is shown has its place. *)
WtShownOK(L) == ToSet(L.tree) \subseteq WtCovered(L) \cup L.asked
WtTiles(L) == WtShownOK(L) /\ WtAside(L)
WtGood(L) == L \in WtStates /\ WtBarsOK(L) /\ WtFits(L.preset) /\ Once(L.tree)
WtOf(L) == WtGood(L) /\ (L.tile => WtTiles(L))
WtInv == WtOf(wt)

LEMMA WtInvPlaces ==
  WtInv => WtPlaced
<1> SUFFICES ASSUME WtInv, wt.tile PROVE WtPlaced
  BY DEF WtPlaced
<1>1. wt.queue \in Seq(WtWindows) /\ WtTiles(wt)
  BY DEF WtInv, WtOf, WtGood, WtStates
<1>2. WtShown \subseteq ToSet(wt.queue) \cup ToSet(wt.list) \cup wt.asked
  BY <1>1 DEF WtTiles, WtShownOK, WtCovered, WtShown
<1>3. ASSUME NEW i \in 1 .. Len(wt.queue), NEW j \in 1 .. Len(wt.queue),
             wt.queue[i] # wt.queue[j], {wt.queue[i], wt.queue[j]} \cap wt.kept = {}
      PROVE  Apart(wt.req[wt.queue[i]], wt.req[wt.queue[j]])
  <2>1. wt.queue[i] \in ToSet(wt.queue) \ wt.kept /\ wt.queue[j] \in ToSet(wt.queue) \ wt.kept
    BY <1>1, <1>3, WtElements
  <2> QED BY <1>1, <1>3, <2>1 DEF WtTiles, WtAside
<1> QED BY <1>2, <1>3 DEF WtPlaced

(* Who is full screen, and what is known of the display, is not in it. *)
LEMMA WtFullOK ==
  ASSUME NEW L, WtOf(L), NEW F \in SUBSET WtWindows, NEW R, R = [L EXCEPT !.full = F]
  PROVE  WtOf(R) /\ WtSame(R, L) /\ R.list = L.list /\ R.queue = L.queue
<1>1. L \in WtStates
  BY DEF WtOf, WtGood
<1>2. /\ R \in WtStates /\ WtSame(R, L) /\ R.list = L.list /\ R.queue = L.queue /\ R.kept = L.kept /\ R.req = L.req
  BY <1>1 DEF WtStates, WtSame
<1>3. /\ R.tile = L.tile /\ R.bar = L.bar /\ R.preset = L.preset /\ R.tree = L.tree /\ R.asked = L.asked
  BY <1>2 DEF WtSame
<1>4. WtGood(R)
  BY <1>2, <1>3 DEF WtOf, WtGood, WtBarsOK
<1>5. R.tile => WtTiles(R)
  BY <1>2, <1>3 DEF WtOf, WtTiles, WtShownOK, WtCovered, WtAside
<1> QED BY <1>2, <1>4, <1>5 DEF WtOf

LEMMA WtExecutedOK ==
  ASSUME NEW L, WtOf(L), NEW others, NEW R, R = ExecuteMinimizeAll(L, others)
  PROVE  WtOf(R)
<1>1. L \in WtStates /\ L.asked \in SUBSET WtWindows /\ L.tree \in Seq(WtWindows)
  BY DEF WtOf, WtGood, WtStates
<1>2. PICK A : A = L.asked \cup ((ToSet(L.list) \cup others) \cap ToSet(L.tree))
  OBVIOUS
<1>3. ToSet(L.tree) \subseteq WtWindows
  BY <1>1, WtElements
<1>4. A \in SUBSET WtWindows
  BY <1>1, <1>2, <1>3
<1>5. <<>> \in Seq(WtListed) /\ ToSet(<<>>) = {}
  <2>1. <<>> \in Seq(WtListed) /\ DOMAIN <<>> = {}
    OBVIOUS
  <2> QED BY <2>1 DEF ToSet
<1>6. R = [L EXCEPT !.asked = A, !.list = <<>>]
  BY <1>2 DEF ExecuteMinimizeAll
<1>7. /\ R \in WtStates /\ R.tile = L.tile /\ R.bar = L.bar /\ R.preset = L.preset /\ R.tree = L.tree
      /\ R.queue = L.queue /\ R.kept = L.kept /\ R.req = L.req /\ R.asked = A /\ R.list = <<>>
  BY <1>1, <1>4, <1>5, <1>6 DEF WtStates
<1>8. WtGood(R)
  BY <1>7 DEF WtOf, WtGood, WtBarsOK
<1>9. ASSUME L.tile PROVE WtTiles(R)
  <2>1. WtTiles(L)
    BY <1>9 DEF WtOf
  <2>2. WtShownOK(R)
    BY <1>2, <1>7, <2>1 DEF WtTiles, WtShownOK, WtCovered
  <2>3. WtAside(R)
    BY <1>7, <2>1 DEF WtTiles, WtAside
  <2> QED BY <2>2, <2>3 DEF WtTiles
<1> QED BY <1>7, <1>8, <1>9 DEF WtOf

(* Tiles are given, after the queue was changed. *)
LEMMA WtTilesGiven ==
  ASSUME NEW L, WtGood(L), WtShownOK(L), Len(L.queue) <= L.preset.max \/ WtAside(L),
         NEW R, R = AssignNodePropertyForTileWindows(L)
  PROVE  WtOf(R) /\ WtSame(R, L)
<1>1. R \in WtStates /\ WtSame(R, L) /\ WtCovered(L) \subseteq WtCovered(R) /\ WtAside(R)
  BY WtAssignedAll DEF WtGood
<1>2. R.bar = L.bar /\ R.preset = L.preset /\ R.tree = L.tree /\ R.asked = L.asked
  BY <1>1 DEF WtSame
<1>3. WtGood(R)
  BY <1>1, <1>2 DEF WtGood, WtBarsOK
<1>4. WtTiles(R)
  BY <1>1, <1>2 DEF WtTiles, WtShownOK
<1> QED BY <1>1, <1>3, <1>4 DEF WtOf

(* What a display is before its windows are tiled. *)
WtBare(L) == L \in WtStates /\ WtBarsOK(L) /\ Once(L.tree)
WtKept(R, L) == /\ R.tile = L.tile /\ R.size = L.size /\ R.bar = L.bar /\ R.tree = L.tree /\ R.byOther = L.byOther
LEMMA WtLaunched ==
  ASSUME WtRoom, NEW L, WtBare(L), NEW R, R = LaunchTile(L)
  PROVE  WtOf(R) /\ WtKept(R, L)
<1>1. L \in WtStates /\ L.size \in WtSizes /\ L.tree \in Seq(WtWindows)
  BY DEF WtBare, WtStates
<1>2. PICK limit : limit = LimitOf(L)
  OBVIOUS
<1>3. Wide(limit, L.size) /\ limit \in WlRect
  BY <1>1, <1>2, WtLimitOK DEF WtBare, Wide
<1>4. PICK p : p = [size |-> L.size, limit |-> limit, max |-> GetMaxTileWinNum(L.size, limit)]
  OBVIOUS
<1>5. p \in WtPresets /\ WtFits(p)
  BY <1>1, <1>3, <1>4, WtMaxOK
<1>6. PICK E : E = Emptied(L)
  OBVIOUS
<1>7. E = [L EXCEPT !.limit = limit, !.preset = p, !.queue = <<>>]
  <2>1. PICK N : N = [L EXCEPT !.limit = limit]
    OBVIOUS
  <2>2. N.size = L.size /\ N.limit = limit
    BY <1>1, <2>1 DEF WtStates
  <2>3. InitTileWindowRects(N) = [N EXCEPT !.preset = p]
    BY <1>4, <2>2 DEF InitTileWindowRects
  <2>4. E = [[N EXCEPT !.preset = p] EXCEPT !.queue = <<>>]
    BY <1>2, <1>6, <2>1, <2>3 DEF Emptied
  <2> QED BY <1>1, <2>1, <2>4 DEF WtStates
<1>8. /\ E \in WtStates /\ E.queue = <<>> /\ E.preset = p /\ WtKept(E, L)
  <2>1. <<>> \in Seq(WtWindows)
    OBVIOUS
  <2> QED BY <1>1, <1>3, <1>5, <1>7, <2>1 DEF WtStates, WtKept
<1>9. PICK Q : Q = InitForegroundNodeQueue(L)
  OBVIOUS
<1>10. WtPushed(Q, L, Len(L.tree))
  BY <1>1, <1>6, <1>8, <1>9, WtInitQueueOK
<1>11. Q \in WtStates /\ WtSame(Q, E) /\ Len(Q.queue) <= Q.preset.max /\ \A j \in 1 .. Len(L.tree) : L.tree[j] \in WtCovered(Q)
  BY <1>6, <1>10 DEF WtPushed
<1>12. Q.preset = p /\ WtKept(Q, L)
  BY <1>8, <1>11 DEF WtSame, WtKept
<1>13. WtGood(Q)
  BY <1>5, <1>11, <1>12 DEF WtGood, WtBare, WtBarsOK, WtKept
<1>14. WtShownOK(Q)
  <2>1. ToSet(L.tree) \subseteq WtCovered(Q)
    BY <1>1, <1>11, WtElements
  <2> QED BY <1>12, <2>1 DEF WtShownOK, WtKept
<1>15. R = AssignNodePropertyForTileWindows(Q)
  BY <1>9 DEF LaunchTile
<1>16. WtOf(R) /\ WtSame(R, Q)
  BY <1>11, <1>13, <1>14, <1>15, WtTilesGiven
<1> QED BY <1>12, <1>16 DEF WtSame, WtKept

(* A bar takes its part, and gives it back. *)
LEMMA WtLaid ==
  ASSUME WtRoom, NEW L, WtBare(L), NEW R, R = LayTree(L)
  PROVE  /\ R \in WtStates /\ WtKept(R, L) /\ Wide(R.limit, R.size) /\ R.preset = L.preset
         /\ R.queue = L.queue /\ R.list = L.list /\ R.req = L.req /\ R.kept = L.kept /\ R.asked = L.asked
<1>1. L \in WtStates /\ L.size \in WtSizes
  BY DEF WtBare, WtStates
<1>2. PICK limit : limit = LimitOf(L)
  OBVIOUS
<1>3. Wide(limit, L.size) /\ limit \in WlRect
  BY <1>1, <1>2, WtLimitOK DEF WtBare, Wide
<1>4. R = [L EXCEPT !.limit = limit, !.known = L.size]
  BY <1>2 DEF LayTree
<1> QED BY <1>1, <1>3, <1>4 DEF WtStates, WtKept

LEMMA WtLaidOf ==
  ASSUME WtRoom, NEW L, WtOf(L), NEW R, R = LayTree(L)
  PROVE  WtOf(R) /\ WtKept(R, L)
<1>1. WtBare(L)
  BY DEF WtOf, WtGood, WtBare
<1>2. /\ R \in WtStates /\ WtKept(R, L) /\ R.preset = L.preset
      /\ R.queue = L.queue /\ R.list = L.list /\ R.req = L.req /\ R.kept = L.kept /\ R.asked = L.asked
  BY <1>1, WtLaid
<1>3. R.tile = L.tile /\ R.bar = L.bar /\ R.tree = L.tree
  BY <1>2 DEF WtKept
<1>4. WtGood(R)
  BY <1>2, <1>3 DEF WtOf, WtGood, WtBarsOK
<1>5. R.tile => WtTiles(R)
  BY <1>2, <1>3 DEF WtOf, WtTiles, WtShownOK, WtCovered, WtAside
<1> QED BY <1>2, <1>4, <1>5 DEF WtOf

LEMMA WtBarOK ==
  ASSUME WtRoom, NEW L, WtOf(L), NEW b \in WtBars, NEW bar \in WtBar, NEW N, N = [L EXCEPT !.bar[b] = bar]
  PROVE  WtOf(N) /\ N.tile = L.tile /\ N.tree = L.tree /\ N.size = L.size
<1>1. L \in WtStates /\ bar \in WlRect
  BY WtBarsAreRects DEF WtOf, WtGood
<1>2. /\ N \in WtStates /\ N.tile = L.tile /\ N.tree = L.tree /\ N.size = L.size /\ N.preset = L.preset
      /\ N.queue = L.queue /\ N.list = L.list /\ N.req = L.req /\ N.kept = L.kept /\ N.asked = L.asked
      /\ N.bar = [L.bar EXCEPT ![b] = bar]
  BY <1>1 DEF WtStates
<1>3. L.bar \in [WtBars -> WlRect]
  BY <1>1 DEF WtStates
<1>4. WtBarsOK(N)
  BY <1>2, <1>3 DEF WtOf, WtGood, WtBarsOK
<1>5. WtGood(N)
  BY <1>2, <1>4 DEF WtOf, WtGood
<1>6. N.tile => WtTiles(N)
  BY <1>2 DEF WtOf, WtTiles, WtShownOK, WtCovered, WtAside
<1> QED BY <1>2, <1>5, <1>6 DEF WtOf

LEMMA WtBarUpdated ==
  ASSUME WtRoom, NEW L, WtOf(L), NEW R, R = UpdateBar(L)
  PROVE  WtOf(R) /\ WtKept(R, L)
<1>1. CASE ~L.tile
  BY <1>1, WtLaidOf DEF UpdateBar
<1>2. CASE L.tile
  <2>1. PICK N : N = LayTree(L)
    OBVIOUS
  <2>2. WtBare(L)
    BY DEF WtOf, WtGood, WtBare
  <2>3. /\ N \in WtStates /\ WtKept(N, L) /\ Wide(N.limit, N.size) /\ N.size \in WtSizes
    BY <2>1, <2>2, WtLaid DEF WtStates
  <2>4. WtOf(N)
    BY <2>1, WtLaidOf
  <2>5. PICK p : p = [size |-> N.size, limit |-> N.limit, max |-> GetMaxTileWinNum(N.size, N.limit)]
    OBVIOUS
  <2>6. p \in WtPresets /\ WtFits(p)
    BY <2>3, <2>5, WtMaxOK
  <2>7. PICK M : M = InitTileWindowRects(N)
    OBVIOUS
  <2>8. M = [N EXCEPT !.preset = p]
    BY <2>5, <2>7 DEF InitTileWindowRects
  <2>9. /\ M \in WtStates /\ M.preset = p /\ M.tile = N.tile /\ M.tree = N.tree /\ M.bar = N.bar /\ M.size = N.size
        /\ M.queue = N.queue /\ M.list = N.list /\ M.req = N.req /\ M.kept = N.kept /\ M.asked = N.asked /\ M.byOther = N.byOther
    BY <2>3, <2>6, <2>8 DEF WtStates
  <2>10. WtTiles(N)
    BY <1>2, <2>3, <2>4 DEF WtOf, WtKept
  <2>11. WtGood(M)
    BY <2>4, <2>6, <2>9 DEF WtOf, WtGood, WtBarsOK
  <2>12. WtShownOK(M) /\ WtAside(M)
    BY <2>9, <2>10 DEF WtTiles, WtShownOK, WtCovered, WtAside
  <2>13. R = AssignNodePropertyForTileWindows(M)
    BY <1>2, <2>1, <2>7 DEF UpdateBar
  <2>14. WtOf(R) /\ WtSame(R, M)
    BY <2>11, <2>12, <2>13, WtTilesGiven
  <2> QED BY <2>3, <2>9, <2>14 DEF WtSame, WtKept
<1> QED BY <1>1, <1>2

(* The policy is switched. *)
LEMMA WtSwitched ==
  ASSUME WtRoom, NEW L, WtOf(L), NEW tile \in BOOLEAN, NEW R, R = SwitchLayoutPolicy(L, tile)
  PROVE  WtOf(R) /\ R.tree = L.tree
<1>1. CASE tile = L.tile
  BY <1>1 DEF SwitchLayoutPolicy
<1>2. CASE tile # L.tile /\ tile
  <2>1. PICK N : N = [L EXCEPT !.tile = TRUE]
    OBVIOUS
  <2>2. WtBare(N) /\ N.tree = L.tree
    BY <2>1 DEF WtOf, WtGood, WtBare, WtBarsOK, WtStates
  <2>3. R = LaunchTile(N)
    BY <1>2, <2>1 DEF SwitchLayoutPolicy
  <2> QED BY <2>2, <2>3, WtLaunched DEF WtKept
<1>3. CASE tile # L.tile /\ ~tile
  <2>1. R = [L EXCEPT !.tile = FALSE]
    BY <1>3 DEF SwitchLayoutPolicy
  <2>2. /\ R \in WtStates /\ ~R.tile /\ R.tree = L.tree /\ R.bar = L.bar /\ R.preset = L.preset
    BY <2>1 DEF WtOf, WtGood, WtStates
  <2> QED BY <2>2 DEF WtOf, WtGood, WtBarsOK
<1> QED BY <1>1, <1>2, <1>3

(* ---- the operations ---- *)
LEMMA WtStarts ==
  ASSUME WtInit
  PROVE  WtInv
<1>1. PICK size \in WtSizes, byOther \in BOOLEAN :
        wt = [tile |-> FALSE, byOther |-> byOther, size |-> size, bar |-> [b \in WtBars |-> EmptyRect], limit |-> WholeOf(size),
              preset |-> [size |-> size, limit |-> WholeOf(size), max |-> 1], known |-> size, tree |-> <<>>, queue |-> <<>>,
              list |-> <<>>, full |-> {}, req |-> [w \in WtWindows |-> EmptyRect], asked |-> {}, kept |-> {}]
  BY DEF WtInit
<1>2. EmptyRect \in WlRect /\ EmptyRect \in WtBar
  BY WtBarsAreRects DEF WtBar
<1>3. WholeOf(size) \in WlRect
  BY WtSizesAre DEF WholeOf, Rect, WlRect
<1>4. PICK p : p = [size |-> size, limit |-> WholeOf(size), max |-> 1]
  OBVIOUS
<1>5. p \in WtPresets /\ WtFits(p)
  BY <1>3, <1>4 DEF WtPresets, WtFits
<1>6. PICK bar, req : bar = [b \in WtBars |-> EmptyRect] /\ req = [w \in WtWindows |-> EmptyRect]
  OBVIOUS
<1>7. bar \in [WtBars -> WlRect] /\ req \in [WtWindows -> WlRect] /\ \A b \in WtBars : bar[b] \in WtBar
  BY <1>2, <1>6
<1>8. <<>> \in Seq(WtWindows) /\ <<>> \in Seq(WtListed) /\ DOMAIN <<>> = {}
  OBVIOUS
<1>9. wt = [tile |-> FALSE, byOther |-> byOther, size |-> size, bar |-> bar, limit |-> WholeOf(size),
            preset |-> p, known |-> size, tree |-> <<>>, queue |-> <<>>,
            list |-> <<>>, full |-> {}, req |-> req, asked |-> {}, kept |-> {}]
  BY <1>1, <1>4, <1>6
<1>10. wt \in WtStates
  BY <1>3, <1>5, <1>7, <1>8, <1>9 DEF WtStates
<1>11. ~wt.tile /\ wt.bar = bar /\ wt.preset = p /\ wt.tree = <<>>
  BY <1>9
<1>12. Once(wt.tree)
  BY <1>8, <1>11 DEF Once
<1> QED BY <1>5, <1>7, <1>10, <1>11, <1>12 DEF WtInv, WtOf, WtGood, WtBarsOK

(* One more window is shown. *)
LEMMA WtTreeGrows ==
  ASSUME NEW q \in Seq(WtWindows), Once(q), NEW w \in WtWindows, w \notin ToSet(q)
  PROVE  /\ Append(q, w) \in Seq(WtWindows) /\ ToSet(Append(q, w)) = ToSet(q) \cup {w} /\ Once(Append(q, w))
<1>1. PICK r : r = Append(q, w)
  OBVIOUS
<1>2. /\ r \in Seq(WtWindows) /\ Len(r) = Len(q) + 1 /\ r[Len(q) + 1] = w /\ ToSet(r) = ToSet(q) \cup {w}
      /\ \A i \in 1 .. Len(q) : r[i] = q[i]
  BY <1>1, WtAppend
<1>3. \A i \in 1 .. Len(q) : q[i] # w
  BY WtElements
<1>4. \A i \in DOMAIN r : i \in 1 .. Len(q) \/ i = Len(q) + 1
  BY <1>2
<1>5. \A i \in 1 .. Len(q) : i \in DOMAIN q
  OBVIOUS
<1>6. Once(r)
  BY <1>2, <1>3, <1>4, <1>5 DEF Once
<1> QED BY <1>1, <1>2, <1>6

LEMMA WtShowOK ==
  ASSUME WtRoom, WtInv, NEW w \in WtWindows, ShowMain(w)
  PROVE  WtInv'
<1>1. PICK full \in BOOLEAN :
        LET L == [wt EXCEPT !.tree = Append(@, w), !.full = IF full THEN @ \cup {w} ELSE @ \ {w}] IN
        wt' = ExecuteMinimizeAll(IF wt.tile THEN AssignNodePropertyForTileWindows(ForegroundNodeQueuePushBack(L, w)) ELSE L,
                                 MinimizeStructured(wt, w, full))
  <2>1. \A full \in {(w \in WtFixed), TRUE} : full \in BOOLEAN
    <3>1. (w \in WtFixed) \in BOOLEAN /\ TRUE \in BOOLEAN
      OBVIOUS
    <3> QED BY <3>1, Zenon
  <2> QED BY <2>1, Zenon DEF ShowMain
<1>2. w \notin ToSet(wt.tree)
  BY DEF ShowMain, WtShown
<1>3. /\ WtOf(wt) /\ wt \in WtStates /\ wt.tree \in Seq(WtWindows) /\ wt.full \in SUBSET WtWindows
      /\ wt.queue \in Seq(WtWindows) /\ Once(wt.tree)
  BY DEF WtInv, WtOf, WtGood, WtStates
<1>4. PICK q, F : q = Append(wt.tree, w) /\ F = IF full THEN wt.full \cup {w} ELSE wt.full \ {w}
  OBVIOUS
<1>5. q \in Seq(WtWindows) /\ ToSet(q) = ToSet(wt.tree) \cup {w} /\ Once(q)
  BY <1>2, <1>3, <1>4, WtTreeGrows
<1>6. F \in SUBSET WtWindows
  BY <1>3, <1>4
<1>7. PICK L : L = [wt EXCEPT !.tree = q, !.full = F]
  OBVIOUS
<1>8. wt' = ExecuteMinimizeAll(IF wt.tile THEN AssignNodePropertyForTileWindows(ForegroundNodeQueuePushBack(L, w)) ELSE L,
                               MinimizeStructured(wt, w, full))
  BY <1>1, <1>4, <1>7
<1>9. /\ L \in WtStates /\ L.tree = q /\ L.tile = wt.tile /\ L.bar = wt.bar /\ L.preset = wt.preset /\ L.asked = wt.asked
      /\ L.queue = wt.queue /\ L.list = wt.list /\ L.req = wt.req /\ L.kept = wt.kept
  BY <1>3, <1>5, <1>6, <1>7 DEF WtStates
<1>10. WtGood(L)
  BY <1>3, <1>5, <1>9 DEF WtOf, WtGood, WtBarsOK
<1>11. PICK R : R = IF wt.tile THEN AssignNodePropertyForTileWindows(ForegroundNodeQueuePushBack(L, w)) ELSE L
  OBVIOUS
<1>12. WtOf(R)
  <2>1. CASE ~wt.tile
    BY <1>9, <1>10, <1>11, <2>1 DEF WtOf
  <2>2. CASE wt.tile
    <3>1. PICK N : N = ForegroundNodeQueuePushBack(L, w)
      OBVIOUS
    <3>2. /\ N \in WtStates /\ WtSame(N, L) /\ N.req = L.req /\ N.kept = L.kept
          /\ WtCovered(L) \cup {w} \subseteq WtCovered(N) /\ (N.queue = L.queue \/ Len(N.queue) <= L.preset.max)
      BY <1>9, <3>1, WtPushOK
    <3>3. N.tree = L.tree /\ N.bar = L.bar /\ N.preset = L.preset /\ N.asked = L.asked
      BY <3>2 DEF WtSame
    <3>4. WtGood(N)
      BY <1>10, <3>2, <3>3 DEF WtGood, WtBarsOK
    <3>5. WtShownOK(wt) /\ WtAside(wt)
      BY <1>3, <2>2 DEF WtOf, WtTiles
    <3>6. WtShownOK(N)
      BY <1>5, <1>9, <3>2, <3>3, <3>5 DEF WtShownOK, WtCovered
    <3>7. Len(N.queue) <= N.preset.max \/ WtAside(N)
      BY <1>9, <3>2, <3>3, <3>5 DEF WtAside
    <3>8. R = AssignNodePropertyForTileWindows(N)
      BY <1>11, <2>2, <3>1
    <3> QED BY <3>4, <3>6, <3>7, <3>8, WtTilesGiven
  <2> QED BY <2>1, <2>2
<1>13. wt' = ExecuteMinimizeAll(R, MinimizeStructured(wt, w, full))
  BY <1>8, <1>11
<1>14. PICK s : s = wt' /\ WtOf(s)
  BY <1>12, <1>13, WtExecutedOK
<1> QED BY <1>14 DEF WtInv

(* What is on the list, when a window was destroyed. *)
LEMMA WtGoneOK ==
  ASSUME NEW l \in Seq(WtListed), NEW w, NEW r, r = Gone(l, w)
  PROVE  r \in Seq(WtListed) /\ ToSet(l) \subseteq ToSet(r) \cup {w}
<1>1. Len(l) \in Nat /\ DOMAIN l = 1 .. Len(l) /\ \A i \in 1 .. Len(l) : l[i] \in WtListed
  BY WtElements
<1>2. r = [i \in 1 .. Len(l) |-> IF l[i] = w THEN "null" ELSE l[i]]
  BY <1>1 DEF Gone
<1>3. \A i \in 1 .. Len(l) : (IF l[i] = w THEN "null" ELSE l[i]) \in WtListed
  BY <1>1 DEF WtListed
<1>4. r \in Seq(WtListed)
  BY <1>1, <1>2, <1>3
<1>5. ASSUME NEW x \in ToSet(l), x # w PROVE x \in ToSet(r)
  <2>1. PICK i \in 1 .. Len(l) : x = l[i]
    BY WtElements
  <2>2. r[i] = x /\ i \in DOMAIN r
    BY <1>2, <1>5, <2>1
  <2> QED BY <2>2 DEF ToSet
<1> QED BY <1>4, <1>5

LEMMA WtRemoveOK ==
  ASSUME WtRoom, WtInv, NEW w \in WtWindows, RemoveMain(w)
  PROVE  WtInv'
<1>1. PICK destroyed \in BOOLEAN :
        LET L == [wt EXCEPT !.tree = RemoveFirst(@, w), !.asked = @ \ {w}, !.list = IF destroyed THEN Gone(@, w) ELSE @] IN
        wt' = IF wt.tile THEN AssignNodePropertyForTileWindows([L EXCEPT !.queue = RemoveFirst(@, w)]) ELSE L
  BY Zenon DEF RemoveMain
<1>3. /\ WtOf(wt) /\ wt \in WtStates /\ wt.tree \in Seq(WtWindows) /\ wt.list \in Seq(WtListed)
      /\ wt.queue \in Seq(WtWindows) /\ Once(wt.tree) /\ wt.asked \in SUBSET WtWindows
  BY DEF WtInv, WtOf, WtGood, WtStates
<1>4. PICK q, l, A : q = RemoveFirst(wt.tree, w) /\ l = (IF destroyed THEN Gone(wt.list, w) ELSE wt.list) /\ A = wt.asked \ {w}
  OBVIOUS
<1>5. q \in Seq(WtWindows) /\ ToSet(q) \subseteq ToSet(wt.tree) /\ w \notin ToSet(q) /\ Once(q)
  BY <1>3, <1>4, WtRemoved
<1>6. l \in Seq(WtListed) /\ ToSet(wt.list) \subseteq ToSet(l) \cup {w}
  <2>1. CASE destroyed
    BY <1>3, <1>4, <2>1, WtGoneOK
  <2>2. CASE ~destroyed
    BY <1>3, <1>4, <2>2
  <2> QED BY <2>1, <2>2
<1>7. A \in SUBSET WtWindows
  BY <1>3, <1>4
<1>8. PICK L : L = [wt EXCEPT !.tree = q, !.asked = A, !.list = l]
  OBVIOUS
<1>9. wt' = IF wt.tile THEN AssignNodePropertyForTileWindows([L EXCEPT !.queue = RemoveFirst(@, w)]) ELSE L
  BY <1>1, <1>4, <1>8
<1>10. /\ L \in WtStates /\ L.tree = q /\ L.tile = wt.tile /\ L.bar = wt.bar /\ L.preset = wt.preset /\ L.asked = A
       /\ L.queue = wt.queue /\ L.list = l /\ L.req = wt.req /\ L.kept = wt.kept
  BY <1>3, <1>5, <1>6, <1>7, <1>8 DEF WtStates
<1>11. WtGood(L)
  BY <1>3, <1>5, <1>10 DEF WtOf, WtGood, WtBarsOK
<1>12. PICK s : s = wt'
  OBVIOUS
<1>13. WtOf(s)
  <2>1. CASE ~wt.tile
    BY <1>9, <1>10, <1>11, <1>12, <2>1 DEF WtOf
  <2>2. CASE wt.tile
    <3>1. PICK p : p = RemoveFirst(wt.queue, w)
      OBVIOUS
    <3>2. p \in Seq(WtWindows) /\ ToSet(p) \subseteq ToSet(wt.queue) /\ ToSet(wt.queue) \subseteq ToSet(p) \cup {w}
      BY <1>3, <3>1, WtRemoved
    <3>3. PICK N : N = [L EXCEPT !.queue = p]
      OBVIOUS
    <3>4. /\ N \in WtStates /\ N.tree = q /\ N.bar = wt.bar /\ N.preset = wt.preset /\ N.asked = A
          /\ N.queue = p /\ N.list = l /\ N.req = wt.req /\ N.kept = wt.kept
      BY <1>10, <3>2, <3>3 DEF WtStates
    <3>5. WtGood(N)
      BY <1>10, <1>11, <3>4 DEF WtGood, WtBarsOK
    <3>6. WtShownOK(wt) /\ WtAside(wt)
      BY <1>3, <2>2 DEF WtOf, WtTiles
    <3>7. WtShownOK(N)
      BY <1>4, <1>5, <1>6, <3>2, <3>4, <3>6 DEF WtShownOK, WtCovered
    <3>8. WtAside(N)
      BY <3>2, <3>4, <3>6 DEF WtAside
    <3>9. s = AssignNodePropertyForTileWindows(N)
      <4>1. [L EXCEPT !.queue = RemoveFirst(@, w)] = N
        BY <1>10, <3>1, <3>3
      <4> QED BY <1>9, <1>12, <2>2, <4>1
    <3> QED BY <3>5, <3>7, <3>8, <3>9, WtTilesGiven
  <2> QED BY <2>1, <2>2
<1> QED BY <1>12, <1>13 DEF WtInv

(* After the policy was switched some are told to minimize. *)
LEMMA WtSwitchesOK ==
  ASSUME WtRoom, WtInv, SwitchTiles \/ MinimizeAll \/ \E w \in WtWindows : SetMainMode(w) \/ UpdateMain(w)
  PROVE  WtInv'
<1>1. \A tile \in BOOLEAN : WtOf(SwitchLayoutPolicy(wt, tile))
  BY WtSwitched DEF WtInv
<1>2. PICK R : R = SwitchLayoutPolicy(wt, FALSE)
  OBVIOUS
<1>3. WtOf(R) /\ R.full \in SUBSET WtWindows
  BY <1>1, <1>2 DEF WtOf, WtGood, WtStates
<1>4. PICK s : s = wt'
  OBVIOUS
<1>5. ASSUME NEW others, NEW L, WtOf(L), s = ExecuteMinimizeAll(L, others) PROVE WtOf(s)
  BY <1>5, WtExecutedOK
<1>6. ASSUME NEW others, NEW F \in SUBSET WtWindows, wt' = ExecuteMinimizeAll([SwitchLayoutPolicy(wt, FALSE) EXCEPT !.full = F], others)
      PROVE  WtOf(s)
  <2>1. PICK N : N = [R EXCEPT !.full = F]
    OBVIOUS
  <2>2. WtOf(N)
    BY <1>3, <2>1, WtFullOK
  <2>3. s = ExecuteMinimizeAll(N, others)
    BY <1>2, <1>4, <1>6, <2>1
  <2> QED BY <1>5, <2>2, <2>3
<1>7. CASE wt' = ExecuteMinimizeAll(SwitchLayoutPolicy(wt, TRUE), {})
  <2>1. PICK N : N = SwitchLayoutPolicy(wt, TRUE) /\ WtOf(N)
    BY <1>1
  <2>2. s = ExecuteMinimizeAll(N, {})
    BY <1>4, <1>7, <2>1
  <2> QED BY <1>4, <1>5, <2>1, <2>2 DEF WtInv
<1>8. ASSUME NEW out, wt' = ExecuteMinimizeAll([SwitchLayoutPolicy(wt, FALSE) EXCEPT !.full = @ \cap out], out) PROVE WtInv'
  <2>1. PICK F \in SUBSET WtWindows : F = R.full \cap out
    BY <1>3
  <2>2. wt' = ExecuteMinimizeAll([SwitchLayoutPolicy(wt, FALSE) EXCEPT !.full = F], out)
    BY <1>2, <1>8, <2>1
  <2> QED BY <1>4, <1>6, <2>2 DEF WtInv
<1>9. ASSUME NEW w \in WtWindows, SetMainMode(w) PROVE WtInv'
  <2>1. PICK full : wt' = ExecuteMinimizeAll([SwitchLayoutPolicy(wt, FALSE) EXCEPT !.full = IF full THEN @ \cup {w} ELSE @ \ {w}],
                              MinimizeStructured(wt, w, full))
    BY <1>9, Zenon DEF SetMainMode
  <2>2. PICK F \in SUBSET WtWindows : F = IF full THEN R.full \cup {w} ELSE R.full \ {w}
    BY <1>3
  <2>3. wt' = ExecuteMinimizeAll([SwitchLayoutPolicy(wt, FALSE) EXCEPT !.full = F], MinimizeStructured(wt, w, full))
    BY <1>2, <2>1, <2>2
  <2> QED BY <1>4, <1>6, <2>3 DEF WtInv
<1>10. ASSUME NEW w \in WtWindows, UpdateMain(w) PROVE WtInv'
  BY <1>2, <1>3, <1>10 DEF UpdateMain, WtInv
<1>11. ASSUME MinimizeAll PROVE WtInv'
  <2>1. s = ExecuteMinimizeAll(R, WtShown)
    BY <1>2, <1>4, <1>11 DEF MinimizeAll
  <2>2. WtOf(s)
    BY <1>3, <1>5, <2>1
  <2> QED BY <1>4, <2>2 DEF WtInv
<1>12. ASSUME SwitchTiles PROVE WtInv'
  BY <1>7, <1>8, <1>12 DEF SwitchTiles
<1> QED BY <1>9, <1>10, <1>11, <1>12

LEMMA WtBarsStep ==
  ASSUME WtRoom, WtInv, NEW b \in WtBars, ShowBar(b) \/ HideBar(b)
  PROVE  WtInv'
<1>1. WtOf(wt) /\ wt.size \in WtSizes
  BY DEF WtInv, WtOf, WtGood, WtStates
<1>2. BarRect(b, wt.size) \in WtBar /\ EmptyRect \in WtBar
  BY <1>1 DEF WtBar
<1>3. PICK s : s = wt'
  OBVIOUS
<1>4. CASE ShowBar(b)
  <2>1. PICK N : N = [wt EXCEPT !.bar[b] = BarRect(b, wt.size)]
    OBVIOUS
  <2>2. WtOf(N)
    BY <1>1, <1>2, <2>1, WtBarOK
  <2>3. PICK R : R = UpdateBar(N) /\ WtOf(R)
    BY <2>2, WtBarUpdated
  <2>4. s = ExecuteMinimizeAll(R, {})
    BY <1>3, <1>4, <2>1, <2>3 DEF ShowBar
  <2>5. WtOf(s)
    BY <2>3, <2>4, WtExecutedOK
  <2> QED BY <1>3, <2>5 DEF WtInv
<1>5. CASE HideBar(b)
  <2>1. PICK N : N = [wt EXCEPT !.bar[b] = EmptyRect]
    OBVIOUS
  <2>2. WtOf(N)
    BY <1>1, <1>2, <2>1, WtBarOK
  <2>3. s = LayTree(N)
    BY <1>3, <1>5, <2>1 DEF HideBar
  <2>4. WtOf(s)
    BY <2>2, <2>3, WtLaidOf
  <2> QED BY <1>3, <2>4 DEF WtInv
<1> QED BY <1>4, <1>5

LEMMA WtBarTurned ==
  ASSUME WtRoom, NEW L, WtOf(L), NEW b \in WtBars, NEW size \in WtSizes, NEW R, R = TurnBar(L, b, size)
  PROVE  WtOf(R) /\ R.tile = L.tile
<1>1. CASE L.bar[b] = EmptyRect
  BY <1>1 DEF TurnBar
<1>2. CASE L.bar[b] # EmptyRect
  <2>1. PICK N : N = [L EXCEPT !.bar[b] = BarRect(b, size)]
    OBVIOUS
  <2>2. BarRect(b, size) \in WtBar
    BY DEF WtBar
  <2>3. WtOf(N) /\ N.tile = L.tile
    BY <2>1, <2>2, WtBarOK
  <2>4. R = UpdateBar(N)
    BY <1>2, <2>1 DEF TurnBar
  <2>5. WtOf(R) /\ WtKept(R, N)
    BY <2>3, <2>4, WtBarUpdated
  <2> QED BY <2>3, <2>5 DEF WtKept
<1> QED BY <1>1, <1>2

LEMMA WtTurnOK ==
  ASSUME WtRoom, WtInv, NEW size \in WtSizes, Turn(size)
  PROVE  WtInv'
<1>1. "status" \in WtBars /\ "navigation" \in WtBars
  BY DEF WtBars
<1>2. PICK M : M = TurnBar(wt, "status", size)
  OBVIOUS
<1>3. WtOf(M) /\ M.tile = wt.tile
  BY <1>1, <1>2, WtBarTurned DEF WtInv
<1>4. PICK N : N = TurnBar(M, "navigation", size)
  OBVIOUS
<1>5. WtOf(N) /\ N.tile = wt.tile
  BY <1>1, <1>3, <1>4, WtBarTurned
<1>6. PICK L : L = [N EXCEPT !.size = size]
  OBVIOUS
<1>7. N \in WtStates /\ N.tile \in BOOLEAN
  BY <1>5 DEF WtOf, WtGood, WtStates
<1>8. /\ L \in WtStates /\ L.tree = N.tree /\ L.tile = N.tile /\ L.bar = N.bar /\ L.preset = N.preset /\ L.asked = N.asked
      /\ L.queue = N.queue /\ L.list = N.list /\ L.req = N.req /\ L.kept = N.kept
  BY <1>6, <1>7 DEF WtStates
<1>9. WtGood(L) /\ WtBare(L)
  BY <1>5, <1>8 DEF WtOf, WtGood, WtBarsOK, WtBare
<1>10. PICK R : R = IF wt.tile THEN LaunchTile(L) ELSE L
  OBVIOUS
<1>11. WtOf(R)
  <2>1. CASE wt.tile
    BY <1>9, <1>10, <2>1, WtLaunched
  <2>2. CASE ~wt.tile
    BY <1>5, <1>8, <1>9, <1>10, <2>2 DEF WtOf
  <2> QED BY <2>1, <2>2
<1>12. PICK s : s = wt' /\ s = LayTree(R)
  <2>1. wt' = LayTree(IF wt.tile THEN LaunchTile(L) ELSE L)
    BY <1>2, <1>4, <1>6 DEF Turn
  <2> QED BY <1>10, <2>1
<1>13. WtOf(s)
  BY <1>11, <1>12, WtLaidOf
<1> QED BY <1>12, <1>13 DEF WtInv

LEMMA WtSteps ==
  ASSUME WtRoom, WtInv, [WtNext]_wtVars
  PROVE  WtInv'
<1>1. CASE UNCHANGED wtVars
  BY <1>1 DEF wtVars, WtInv
<1>2. ASSUME NEW w \in WtWindows, ShowMain(w) \/ RemoveMain(w) \/ SetMainMode(w) \/ UpdateMain(w) PROVE WtInv'
  <2>1. CASE ShowMain(w)
    BY <2>1, WtShowOK
  <2>2. CASE RemoveMain(w)
    BY <2>2, WtRemoveOK
  <2>3. CASE SetMainMode(w) \/ UpdateMain(w)
    BY <2>3, WtSwitchesOK
  <2> QED BY <1>2, <2>1, <2>2, <2>3
<1>3. ASSUME NEW b \in WtBars, ShowBar(b) \/ HideBar(b) PROVE WtInv'
  BY <1>3, WtBarsStep
<1>4. ASSUME NEW size \in WtSizes, Turn(size) PROVE WtInv'
  BY <1>4, WtTurnOK
<1>5. CASE SwitchTiles \/ MinimizeAll
  BY <1>5, WtSwitchesOK
<1> QED BY <1>1, <1>2, <1>3, <1>4, <1>5 DEF WtNext

(* While windows are tiled, every window that is shown has its place or is to go, and
   those that were given a tile stand beside each other: whatever the windows, their
   limits and the sizes of the display, if only one tile fits beside the edges and a
   bar leaves some of the display.                                                   *)
THEOREM TilesPlaced ==
  WtRoom => (WtSpec => []WtPlaced)
<1> SUFFICES ASSUME WtRoom PROVE WtSpec => []WtPlaced
  OBVIOUS
<1>1. WtInit => WtInv
  BY WtStarts
<1>2. WtInv /\ [WtNext]_wtVars => WtInv'
  BY WtSteps
<1>3. WtInv => WtPlaced
  BY WtInvPlaces
<1> QED BY <1>1, <1>2, <1>3, PTL DEF WtSpec
=============================================================================
