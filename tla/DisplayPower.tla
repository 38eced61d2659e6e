------------------------------ MODULE DisplayPower ------------------------------
(* The power of the displays: the state the service holds (DisplayPowerController),
   the windows that are frozen while the device sleeps, and an application that sets
   the state with a callback (DisplayManager::SetDisplayState) on two threads. A
   third caller, the system, sets the state from another process, suspends, and
   tells of the keyguard. The callback is told through a queue of messages, the
   window service by tasks; the power listeners get their messages in the order they
   are sent in, which is all that is kept of them.                               *)
EXTENDS Naturals, Sequences

CONSTANTS DpCallers,   \* the threads of the application
          DpCallsMax   \* bound on the calls
ASSUME DpAssumption == DpCallsMax \in Nat /\ {"sys", "none"} \cap DpCallers = {}

VARIABLES dpState, dpDrawn,        \* displayState_, isKeyguardDrawn_
          dpCall, dpCalls,         \* what each caller is at; the calls so far
          dpSlot, dpAsked, dpAgent,  \* displayStateCallback_: whose it is, what was asked; displayStateAgent_
          dpAnswer,                \* the thread of the messages: whose callback it has just called
          dpStateWire, dpHeard,    \* messages of the state agent; what the power listeners were sent last
          dpTasks,                 \* tasks of the window service: "freeze" or "thaw"
          dpShown, dpFlagged, dpFrozen,  \* a window: shown, shows when locked, frozen
          dpLost, dpForeign, dpOverlap, dpAwake, dpReflagged  \* history, see the properties
dpVars == <<dpState, dpDrawn, dpCall, dpCalls, dpSlot, dpAsked, dpAgent, dpAnswer, dpStateWire, dpHeard,
            dpTasks, dpShown, dpFlagged, dpFrozen, dpLost, dpForeign, dpOverlap, dpAwake, dpReflagged>>

DpAll    == DpCallers \cup {"sys"}
NoDpCall == [pc |-> "idle", state |-> "OFF"]
DpIdle(c) == dpCall[c].pc = "idle"

DpInit == /\ dpState = "UNKNOWN" /\ dpDrawn = FALSE
          /\ dpCall = [c \in DpAll |-> NoDpCall] /\ dpCalls = 0
          /\ dpSlot = "none" /\ dpAsked = "OFF" /\ dpAgent = FALSE /\ dpAnswer = "none"
          /\ dpStateWire = <<>> /\ dpHeard = "UNKNOWN"
          /\ dpTasks = <<>> /\ dpShown = TRUE /\ dpFlagged = FALSE /\ dpFrozen = FALSE
          /\ dpLost = FALSE /\ dpForeign = FALSE /\ dpOverlap = FALSE /\ dpAwake = FALSE /\ dpReflagged = FALSE

dpClient  == <<dpSlot, dpAsked, dpAgent, dpAnswer, dpStateWire, dpLost, dpForeign>>
dpWindow  == <<dpShown, dpFlagged, dpFrozen, dpReflagged>>
dpService == <<dpState, dpDrawn, dpTasks, dpOverlap, dpAwake>>

DpGoes(c, pc) == dpCall' = [dpCall EXCEPT ![c] = IF pc = "idle" THEN NoDpCall ELSE [@ EXCEPT !.pc = pc]]
DpStarts(c, pc, s) == /\ DpIdle(c) /\ dpCalls < DpCallsMax /\ dpCalls' = dpCalls + 1
                      /\ dpCall' = [dpCall EXCEPT ![c] = [pc |-> pc, state |-> s]]
DpInService == {"set", "unlock", "tell", "changed", "unlocked"}
DpOverlaps(c) == dpOverlap' = (dpOverlap \/ \E d \in DpAll \ {c} : dpCall[d].pc \in DpInService)

(* DisplayManager::SetDisplayState: refused while a callback waits *)
DpSetDisplayStateAlways(c, s) ==
  /\ DpStarts(c, "check", s)
  /\ dpSlot' = c /\ dpAsked' = s /\ dpAgent' = TRUE /\ dpLost' = (dpLost \/ dpSlot # "none")
  /\ UNCHANGED <<dpAnswer, dpStateWire, dpForeign, dpService, dpHeard, dpWindow>>
DpSetDisplayState(c, s) ==
  /\ dpSlot = "none" /\ DpStarts(c, "check", s)
  /\ dpSlot' = c /\ dpAsked' = s /\ dpAgent' = TRUE /\ UNCHANGED dpLost
  /\ UNCHANGED <<dpAnswer, dpStateWire, dpForeign, dpService, dpHeard, dpWindow>>
DpSetBySystem(s) == /\ DpStarts("sys", "check", s)
                    /\ UNCHANGED <<dpClient, dpService, dpHeard, dpWindow>>

(* DisplayPowerController::SetDisplayState: the lock is held for the check, then
   for the change, and not while others are told                                *)
DpCheck(c) == /\ dpCall[c].pc = "check"
              /\ DpGoes(c, IF dpState # dpCall[c].state THEN "set" ELSE IF c = "sys" THEN "idle" ELSE "clear")
              /\ UNCHANGED <<dpCalls, dpClient, dpService, dpHeard, dpWindow>>
DpToldWhenDrawn(s) == s = "ON" /\ dpDrawn
DpUnlocksNow(s) == s = "ON" /\ ~dpDrawn
DpSet(c) == LET s == dpCall[c].state IN
            /\ dpCall[c].pc = "set" /\ dpState' = s
            /\ DpGoes(c, IF DpUnlocksNow(s) THEN "unlock" ELSE "tell")
            /\ dpAwake' = (dpAwake /\ s # "OFF") /\ DpOverlaps(c)
            /\ UNCHANGED <<dpDrawn, dpTasks, dpCalls, dpClient, dpHeard, dpWindow>>
DpUnlock(c) == /\ dpCall[c].pc = "unlock" /\ DpGoes(c, "tell")
               /\ dpTasks' = Append(dpTasks, "thaw")
               /\ UNCHANGED <<dpState, dpDrawn, dpOverlap, dpAwake, dpCalls, dpClient, dpHeard, dpWindow>>
DpEventWithoutBreak(s) == "OFF"
DpEvent(s) == s
DpTell(c) == /\ dpCall[c].pc = "tell" /\ DpGoes(c, "changed")
             /\ dpHeard' = DpEvent(dpCall[c].state)
             /\ UNCHANGED <<dpState, dpDrawn, dpTasks, dpOverlap, dpAwake, dpCalls, dpClient, dpWindow>>
DpChanged(c) == /\ dpCall[c].pc = "changed" /\ DpGoes(c, "idle")
                /\ dpStateWire' = IF dpAgent THEN Append(dpStateWire, dpCall[c].state) ELSE dpStateWire
                /\ dpForeign' = (dpForeign \/ (c = "sys" /\ dpAgent))
                /\ UNCHANGED <<dpSlot, dpAsked, dpAgent, dpAnswer, dpLost, dpCalls, dpService, dpHeard, dpWindow>>

(* DisplayManager::Impl::ClearDisplayStateCallback, after a call that failed or
   after a callback; somebody else's may be there by then                       *)
DpClear(c) == /\ dpCall[c].pc = "clear" /\ DpGoes(c, "idle")
              /\ dpSlot' = "none" /\ dpAsked' = "OFF" /\ dpAgent' = FALSE
              /\ dpLost' = (dpLost \/ dpSlot \notin {c, "none"})
              /\ UNCHANGED <<dpCalls, dpAnswer, dpStateWire, dpForeign, dpService, dpHeard, dpWindow>>
(* DisplayManager::Impl::NotifyDisplayStateChanged *)
DpCallback == LET s == Head(dpStateWire) IN
              /\ dpStateWire # <<>> /\ dpAnswer = "none" /\ dpStateWire' = Tail(dpStateWire)
              /\ dpAnswer' = dpSlot
              /\ dpLost' = (dpLost \/ (dpSlot # "none" /\ s # dpAsked))
              /\ UNCHANGED <<dpCall, dpCalls, dpSlot, dpAsked, dpAgent, dpForeign, dpService, dpHeard, dpWindow>>
DpAnswered == /\ dpAnswer # "none" /\ dpAnswer' = "none"
              /\ dpSlot' = "none" /\ dpAsked' = "OFF" /\ dpAgent' = FALSE
              /\ dpLost' = (dpLost \/ dpSlot \notin {dpAnswer, "none"})
              /\ UNCHANGED <<dpCall, dpCalls, dpStateWire, dpForeign, dpService, dpHeard, dpWindow>>

(* SuspendBegin, and NotifyDisplayEvent with its two events *)
DpSuspendBegin == /\ DpIdle("sys") /\ dpCalls < DpCallsMax /\ dpCalls' = dpCalls + 1
                  /\ dpTasks' = Append(dpTasks, "freeze")
                  /\ dpAwake' = (dpState # "OFF") /\ DpOverlaps("sys")
                  /\ UNCHANGED <<dpCall, dpState, dpDrawn, dpClient, dpHeard, dpWindow>>
DpKeyguardDrawn == /\ DpIdle("sys") /\ ~dpDrawn /\ dpDrawn' = TRUE
                   /\ UNCHANGED <<dpCall, dpCalls, dpState, dpTasks, dpOverlap, dpAwake, dpClient, dpHeard, dpWindow>>
DpUnlockEvent == /\ DpStarts("sys", "unlocked", "ON")
                 /\ dpTasks' = Append(dpTasks, "thaw") /\ DpOverlaps("sys")
                 /\ UNCHANGED <<dpState, dpDrawn, dpAwake, dpClient, dpHeard, dpWindow>>
DpUnlocked == /\ dpCall["sys"].pc = "unlocked" /\ DpGoes("sys", "idle") /\ dpDrawn' = FALSE
              /\ UNCHANGED <<dpCalls, dpState, dpTasks, dpOverlap, dpAwake, dpClient, dpHeard, dpWindow>>

(* the window service: a window that shows when locked is left as it is *)
DpRunTask == /\ dpTasks # <<>> /\ dpTasks' = Tail(dpTasks)
             /\ dpFrozen' = IF dpShown /\ ~dpFlagged THEN Head(dpTasks) = "freeze" ELSE dpFrozen
             /\ UNCHANGED <<dpCall, dpCalls, dpState, dpDrawn, dpOverlap, dpAwake, dpClient, dpHeard,
                            dpShown, dpFlagged, dpReflagged>>
DpHide == /\ dpShown /\ dpShown' = FALSE /\ dpFrozen' = FALSE
          /\ UNCHANGED <<dpCall, dpCalls, dpService, dpClient, dpHeard, dpFlagged, dpReflagged>>
DpFlag == /\ dpShown /\ ~dpFlagged /\ dpFlagged' = TRUE /\ dpReflagged' = dpFrozen
          /\ UNCHANGED <<dpCall, dpCalls, dpService, dpClient, dpHeard, dpShown, dpFrozen>>

DpNext == \/ \E c \in DpCallers, s \in {"ON", "OFF"} : DpSetDisplayState(c, s)
          \/ \E s \in {"ON", "OFF"} : DpSetBySystem(s)
          \/ \E c \in DpAll : DpCheck(c) \/ DpSet(c) \/ DpUnlock(c) \/ DpTell(c) \/ DpChanged(c) \/ DpClear(c)
          \/ DpCallback \/ DpAnswered
          \/ DpSuspendBegin \/ DpKeyguardDrawn \/ DpUnlockEvent \/ DpUnlocked
          \/ DpRunTask \/ DpHide \/ DpFlag
DpSpec == DpInit /\ [][DpNext]_dpVars

DpQuiet == (\A c \in DpAll : DpIdle(c)) /\ dpTasks = <<>> /\ dpStateWire = <<>> /\ dpAnswer = "none"

(* A callback given to SetDisplayState is called with the state it asked for and is
   never dropped or replaced before, unless another process changes the state while
   it waits; and no callback is left behind to refuse every later call.           *)
DpCallbackKept == (dpLost => dpForeign) /\ (DpQuiet => dpSlot = "none")

(* What the power listeners heard last is the state, unless two calls were in the
   service at once: they tell after the lock, in any order.                       *)
DpHeardLast == DpQuiet /\ ~dpOverlap /\ dpState # "UNKNOWN" => dpHeard = dpState

(* With the display on and no keyguard no window stays frozen: what SuspendBegin
   froze is thawed when the display comes on or at the unlock. Not so when calls
   overlapped, when the suspend was not followed by OFF, so that ON is refused as the
   state already set, or when the window took to showing when locked meanwhile.    *)
DpThawed == DpQuiet /\ dpState = "ON" /\ ~dpDrawn /\ ~dpOverlap /\ ~dpAwake /\ ~dpReflagged => ~dpFrozen
=============================================================================
