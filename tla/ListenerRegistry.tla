---------------------------- MODULE ListenerRegistry ----------------------------
(* A list of listeners of an application, the service that tells it of changes, and
   the callbacks of JavaScript above it. Native code uses the list on two threads,
   JavaScript on one; the messages of the service are taken one at a time; the
   service may die and come back once, and an application registers nothing again.
   How the list works is lrKind, a row of ListenerKinds.                       *)
EXTENDS Naturals, Sequences, FiniteSets, ListenerKinds

CONSTANT LrEventsMax   \* bound on the changes the service tells of
ASSUME LrAssumption == LrEventsMax \in Nat

VARIABLES lrKind,
          lrList,                \* the listeners registered, "b" in the second list when there are two
          lrAgent, lrServed,     \* the application has an agent; the service knows of the listeners
          lrService,             \* "up", "gone" or "back"
          lrCall,                \* what each thread is at
          lrWire, lrTasks, lrJsTasks,  \* changes sent, tasks of the list's thread, tasks of JavaScript
          lrHandler, lrStarting, \* whether the thread is there; who has found that it is not
          lrCallbacks,           \* the callbacks of JavaScript that are mapped
          lrValue, lrTold,       \* the changes so far; the last one each listener was told of
          lrDue, lrExcused       \* who is owed the last one; the list is known to have gone wrong
lrVars == <<lrKind, lrList, lrAgent, lrServed, lrService, lrCall, lrWire, lrTasks, lrJsTasks, lrHandler,
            lrStarting, lrCallbacks, lrValue, lrTold, lrDue, lrExcused>>

LrListeners == {"a", "b"}
LrScript    == lrKind.js # "none"
LrThreads   == IF LrScript THEN {"t"} ELSE {"t", "u"}
NoLrCall    == [pc |-> "idle", l |-> "a", on |-> FALSE]
LrIdle(t)   == lrCall[t].pc = "idle"
LrAllIdle   == \A t \in LrThreads : LrIdle(t)
LrUp        == lrService # "gone"
ListOf(l)   == IF lrKind.two THEN {l} ELSE LrListeners
OffOf(l)    == IF lrKind.two /\ l = "b" THEN UnregisterScreenGroupListener ELSE lrKind.off

LrInit == /\ lrKind \in NativeKinds \cup ScriptKinds
          /\ lrList = {} /\ lrAgent = FALSE /\ lrServed = (lrKind.on.agent = "own") /\ lrService = "up"
          /\ lrCall = [t \in {"t", "u"} |-> NoLrCall]
          /\ lrWire = <<>> /\ lrTasks = <<>> /\ lrJsTasks = <<>> /\ lrHandler = FALSE /\ lrStarting = {}
          /\ lrCallbacks = {} /\ lrValue = 0 /\ lrTold = [l \in LrListeners |-> 0]
          /\ lrDue = {} /\ lrExcused = FALSE

LrAt(t, pc, l, on) == lrCall' = [lrCall EXCEPT ![t] = IF pc = "idle" THEN NoLrCall ELSE [pc |-> pc, l |-> l, on |-> on]]
(* after the list is done with, JavaScript maps the callback *)
LrAfter(on) == IF on /\ LrScript THEN "map" ELSE "idle"
lrFlow   == <<lrWire, lrTasks, lrJsTasks, lrHandler, lrStarting, lrValue, lrTold>>
lrUsers  == <<lrList, lrAgent, lrCall, lrCallbacks>>

(* a second thread in the list of avoid areas makes the size it reads a stale one *)
LrRaces(t) == lrKind.on.agent = "flag" /\ \E u \in LrThreads \ {t} : ~LrIdle(u)

LrRegister(t, l) ==
  LET on == lrKind.on
      registers == on.agent \in {"kept", "must"} /\ ~lrAgent
      refused   == registers /\ ~LrUp /\ on.agent = "must"
  IN /\ LrIdle(t)
     /\ IF LrScript THEN l \notin lrCallbacks ELSE l \notin lrList \/ (on.agent = "must" /\ ~lrAgent)
     /\ lrList' = IF refused THEN lrList ELSE IF on.one THEN {l} ELSE lrList \cup {l}
     /\ lrAgent' = ((lrAgent \/ registers) /\ ~refused)
     /\ lrServed' = (lrServed \/ (registers /\ LrUp))
     /\ lrExcused' = (lrExcused \/ (registers /\ ~LrUp /\ (LrScript \/ on.agent = "kept")) \/ LrRaces(t))
     /\ LrAt(t, IF on.agent = "flag" THEN "size" ELSE LrAfter(TRUE), l, TRUE)
     /\ lrDue' = IF on.one THEN {} ELSE lrDue
     /\ UNCHANGED <<lrKind, lrService, lrCallbacks, lrFlow>>

LrUnregister(t, l) ==
  LET off  == OffOf(l)
      left == IF lrKind.on.one THEN {} ELSE lrList \ {l}
      empty == (IF off.heeds THEN left ELSE left \cap ListOf(l)) = {}
      frees == off.agent = "freed" /\ empty /\ lrAgent
  IN /\ LrIdle(t)
     /\ IF LrScript THEN l \in lrCallbacks ELSE l \in lrList \/ ~off.strict
     /\ l \in lrList \/ ~off.strict \/ lrCallbacks # {}
     /\ lrList' = left
     /\ lrAgent' = IF l \in lrList \/ ~off.strict THEN lrAgent /\ ~frees ELSE lrAgent
     /\ lrServed' = IF (l \in lrList \/ ~off.strict) /\ frees /\ LrUp THEN FALSE ELSE lrServed
     /\ lrExcused' = (lrExcused \/ (frees /\ left # {}) \/ LrRaces(t))
     /\ LrAt(t, IF off.agent = "flag" THEN "size" ELSE "idle", l, FALSE)
     /\ lrCallbacks' = lrCallbacks \ {l}
     /\ lrDue' = lrDue \cap left
     /\ UNCHANGED <<lrKind, lrService, lrFlow>>

(* Register- and UnregisterAvoidAreaChangeListener after the lock *)
LrReadSize(t) == /\ lrCall[t].pc = "size"
                 /\ LET c == lrCall[t] IN
                    LrAt(t, IF Cardinality(lrList) = (IF c.on THEN 1 ELSE 0) THEN "send" ELSE LrAfter(c.on), c.l, c.on)
                 /\ UNCHANGED <<lrKind, lrList, lrAgent, lrServed, lrService, lrFlow, lrCallbacks, lrDue, lrExcused>>
LrSendSize(t) == /\ lrCall[t].pc = "send"
                 /\ lrServed' = IF LrUp THEN lrCall[t].on ELSE lrServed
                 /\ LrAt(t, LrAfter(lrCall[t].on), lrCall[t].l, lrCall[t].on)
                 /\ UNCHANGED <<lrKind, lrList, lrAgent, lrService, lrFlow, lrCallbacks, lrDue, lrExcused>>
LrMap(t) == /\ lrCall[t].pc = "map" /\ lrCallbacks' = lrCallbacks \cup {lrCall[t].l} /\ LrAt(t, "idle", "a", FALSE)
            /\ UNCHANGED <<lrKind, lrList, lrAgent, lrServed, lrService, lrFlow, lrDue, lrExcused>>

(* something the listeners want to hear of: owed to those whose registration is over *)
LrChange == /\ lrValue < LrEventsMax /\ LrUp
            /\ lrValue' = lrValue + 1
            /\ lrDue' = {l \in lrList : \A t \in LrThreads : LrIdle(t) \/ lrCall[t].l # l}
            /\ lrWire' = IF lrServed THEN Append(lrWire, lrValue') ELSE lrWire
            /\ UNCHANGED <<lrKind, lrUsers, lrServed, lrService, lrTasks, lrJsTasks, lrHandler, lrStarting, lrTold, lrExcused>>

LrPostFirst(tasks, task) == <<task>> \o tasks
LrPost(tasks, task) == Append(tasks, task)
LrTake(tasks) == /\ lrTasks' = LrPost(tasks, [to |-> lrList, value |-> Head(lrWire)])
                 /\ lrWire' = Tail(lrWire)
(* a message arrives: the listeners are copied, and called by a task or at once *)
LrDeliver == /\ lrWire # <<>> /\ (lrKind.tell = "late" => lrHandler /\ "own" \notin lrStarting) /\ (lrKind.tell = "ipc" => lrTasks = <<>>)
             /\ LrTake(lrTasks)
             /\ UNCHANGED <<lrKind, lrUsers, lrServed, lrService, lrJsTasks, lrHandler, lrStarting, lrValue, lrTold, lrDue, lrExcused>>

(* PostTask of the window manager looks for the thread without the lock: the thread
   of this list's messages and that of another list's may both find none, and the
   second to make one drops the first with its tasks                              *)
LrFindsNone(who) == /\ lrKind.tell = "late" /\ ~lrHandler /\ who \notin lrStarting
                    /\ who = "own" => lrWire # <<>>
                    /\ lrStarting' = lrStarting \cup {who}
                    /\ UNCHANGED <<lrKind, lrUsers, lrServed, lrService, lrWire, lrTasks, lrJsTasks, lrHandler, lrValue, lrTold, lrDue, lrExcused>>
LrStarts(who) == /\ who \in lrStarting /\ lrStarting' = lrStarting \ {who}
                 /\ lrHandler' = TRUE
                 /\ lrExcused' = (lrExcused \/ lrTasks # <<>>)
                 /\ IF who = "own" THEN LrTake(<<>>) ELSE lrTasks' = <<>> /\ UNCHANGED lrWire
                 /\ UNCHANGED <<lrKind, lrUsers, lrServed, lrService, lrJsTasks, lrValue, lrTold, lrDue>>

LrTell(ls, value) == lrTold' = [l \in LrListeners |-> IF l \in ls THEN value ELSE lrTold[l]]
LrRunTask == LET task == Head(lrTasks) IN
             /\ lrTasks # <<>> /\ lrTasks' = Tail(lrTasks)
             /\ IF LrScript
                THEN /\ lrJsTasks' = Append(lrJsTasks, IF lrKind.js = "bare" THEN [task EXCEPT !.to = @ \cap lrCallbacks] ELSE task)
                     /\ UNCHANGED lrTold
                ELSE LrTell(task.to, task.value) /\ UNCHANGED lrJsTasks
             /\ UNCHANGED <<lrKind, lrUsers, lrServed, lrService, lrWire, lrHandler, lrStarting, lrValue, lrDue, lrExcused>>

(* the listener of a window is called while anything holds it, that of a display or
   a screen while its callback is there: one that is freed is not looked at here  *)
LrHeld(l) == l \in lrList \cup lrCallbacks \/ \E i \in DOMAIN lrTasks : l \in lrTasks[i].to
LrRunScript == LET task == Head(lrJsTasks) IN
               /\ LrIdle("t") /\ lrJsTasks # <<>> /\ lrJsTasks' = Tail(lrJsTasks)
               /\ LrTell({l \in task.to : IF lrKind.js = "weak" THEN LrHeld(l) ELSE l \in lrCallbacks}, task.value)
               /\ UNCHANGED <<lrKind, lrUsers, lrServed, lrService, lrWire, lrTasks, lrHandler, lrStarting, lrValue, lrDue, lrExcused>>

LrServiceDies == /\ lrService = "up" /\ lrService' = "gone" /\ lrServed' = FALSE /\ lrExcused' = TRUE
                 /\ UNCHANGED <<lrKind, lrUsers, lrFlow, lrDue>>
LrServiceBack == /\ lrService = "gone" /\ lrService' = "back"
                 /\ UNCHANGED <<lrKind, lrUsers, lrServed, lrFlow, lrDue, lrExcused>>

LrNext == \/ \E t \in LrThreads : \/ \E l \in LrListeners : LrRegister(t, l) \/ LrUnregister(t, l)
                                  \/ LrReadSize(t) \/ LrSendSize(t) \/ LrMap(t)
          \/ LrChange \/ LrDeliver \/ LrRunTask \/ LrRunScript
          \/ \E who \in {"own", "other"} : LrFindsNone(who) \/ LrStarts(who)
          \/ LrServiceDies \/ LrServiceBack
LrSpec == LrInit /\ [][LrNext]_lrVars

(* The service knows that the application listens exactly when somebody does, and what
   JavaScript switched on is what native code calls, unless the service died, threads
   raced in the list of avoid areas, or the last listener of the screen groups took
   the agent away from those of the screens.                                      *)
LrAgreed == LrAllIdle /\ ~lrExcused =>
              /\ lrKind.on.agent # "own" => (lrServed <=> lrList # {})
              /\ LrScript /\ ~lrKind.on.one => lrCallbacks = lrList

(* A listener that was registered when the last change happened, and still is, has
   been told of that change, the latest and not an earlier one, once nothing is on
   its way: no task is lost or overtaken between the service and JavaScript.      *)
LrToldLast == LrAllIdle /\ ~lrExcused /\ lrWire \o lrTasks \o lrJsTasks = <<>> /\ lrStarting = {}
                => \A l \in lrDue : lrTold[l] = lrValue
=============================================================================
