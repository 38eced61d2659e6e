-------------------------------- MODULE JsWindow --------------------------------
(* The window object of JavaScript (js_window.cpp) over a window of WindowClient.
   A function of it runs on the main thread. Most return a promise at once and
   leave the work to a task, which the event loop runs on the same thread later, in
   no promised order: it holds the window weakly and settles the promise. The
   object is kept by a map under the name of the window until the window is
   destroyed, and is freed by the garbage collector afterwards. Of the objects that
   left the map one is followed; the script calls on the last one it was given.  *)
EXTENDS WindowClient, JsFunctions

CONSTANTS JsTasksMax   \* bound on the calls whose promise is pending or settled
ASSUME JsAssumption == JsTasksMax \in Nat

VARIABLES jsRow,     \* the function the script uses beside destroy
          jsToken,   \* windowToken_: "none", "window" or "old", a window now replaced
          jsObject,  \* the object: "none", "mapped" by its name, "free" or "gone"
          jsOlder,   \* an earlier object has a window and was not collected
          jsLeft,    \* history: the service destroyed the window of the mapped object
          jsTasks,   \* the promises: [row, weak, own, bad, pc, settled, ok]
          jsFaults   \* what ended the process: [row, what]
jsMap  == <<jsObject, jsOlder, jsLeft>>
jsVars == <<jsRow, jsToken, jsMap, jsTasks, jsFaults>>

ScriptCalls == {jsRow, OnDestroy}

JsOf == wcOf    \* the window the object is made for
JsInit == /\ jsRow \in BindFunctions \cup JsStageFunctions \cup JsManagerFunctions /\ jsToken = "none" /\ jsObject = "none"
          /\ jsOlder = FALSE /\ jsLeft = FALSE /\ jsTasks = <<>> /\ jsFaults = {}

(* the script gets the object of the window: the one its name is mapped to, which
   may be that of an earlier window, or a new one                               *)
CreateJsWindowObject ==
    /\ WcIdle /\ JsOf \in wcMap /\ jsObject # "mapped"
    /\ jsObject' = "mapped" /\ jsToken' = "window" /\ jsLeft' = FALSE
    /\ jsOlder' = (jsOlder \/ (jsObject = "free" /\ jsToken # "none"))
    /\ jsTasks' = [i \in 1 .. Len(jsTasks) |-> [jsTasks[i] EXCEPT !.own = FALSE]]
    /\ UNCHANGED <<jsRow, jsFaults, wcVars>>
(* a task that is over is forgotten when there is no room for another one *)
ForgetTask == /\ \E i \in 1 .. Len(jsTasks) :
                    /\ jsTasks[i].pc = "done" /\ Len(jsTasks) = JsTasksMax
                    /\ jsTasks' = [j \in 1 .. Len(jsTasks) - 1 |-> jsTasks[IF j < i THEN j ELSE j + 1]]
              /\ \A i \in 1 .. Len(jsTasks) : jsTasks[i].pc \in {"pending", "done"}
              /\ UNCHANGED <<jsRow, jsToken, jsMap, jsFaults, wcVars>>

Faults(row, whats) == jsFaults' = jsFaults \cup {[row |-> row, what |-> what] : what \in whats}
(* a function is called, with a wrong number of arguments (argc), with one that is
   not of its type (value), or with good ones                                  *)
JsCall ==
    /\ WcIdle /\ jsObject \in {"mapped", "free"} /\ Len(jsTasks) < JsTasksMax
    /\ \E row \in {r \in ScriptCalls : r.async} : \E args \in {"argc", "value", "no"} :
         LET null == jsToken = "none"
             bad  == IF args = "no" /\ row.check = "call" /\ null THEN "value" ELSE args IN
         /\ row.mute => bad = "no"   \* without a promise nothing follows
         /\ jsTasks' = Append(jsTasks, [row |-> row, weak |-> jsToken, own |-> TRUE, bad |-> bad,
                                        pc |-> "pending", settled |-> 0, ok |-> FALSE])
         /\ Faults(row, {what \in {"null", "beyond"} :
                           \/ what = "null" /\ row.check = "never" /\ null
                           \/ what = "beyond" /\ args = "argc" /\ row.beyond})
    /\ UNCHANGED <<jsRow, jsToken, jsMap, wcVars>>

JsCallSync ==   \* ok: the arguments fit, and the window is a system window where it must be
    /\ WcIdle /\ jsObject \in {"mapped", "free"}
    /\ \E row \in {r \in ScriptCalls : ~ r.async} : \E ok \in BOOLEAN :
         /\ Faults(row, {what \in {"null", "beyond"} :
                           \/ what = "null" /\ ok /\ row.check # "call" /\ jsToken = "none"
                           \/ what = "beyond" /\ ~ ok /\ row.beyond})
         /\ IF ok /\ row.op = "set" /\ jsToken = "window"
            THEN Set(JsOf, 1, Native)
            ELSE UNCHANGED wcVars
    /\ UNCHANGED <<jsRow, jsToken, jsMap, jsTasks>>

(* the weak window of a task is there as long as a map, an object or the agent that
   the service holds keeps it                                                   *)
MayPromote(t) == t.weak # "none"
MustPromote(t) == \/ t.weak # "none" /\ t.weak = jsToken /\ jsObject # "gone"
                  \/ t.weak = "window" /\ JsOf \in wcMap

Settled(t, ok) == [t EXCEPT !.weak = "none", !.own = TRUE, !.bad = "no", !.pc = "done", !.settled = @ + 1, !.ok = ok]
Settles(i, ok) == jsTasks' = [jsTasks EXCEPT ![i] = Settled(jsTasks[i], ok)]
Runs(i, pc, settled) == jsTasks' = [jsTasks EXCEPT ![i] = [@ EXCEPT !.pc = pc, !.settled = settled]]
(* a call on a replaced window finds it destroyed *)
Begins(op, i, weak) ==
    IF weak = "old"
    THEN /\ Ends(op, JsOf, IF op = "destroy" THEN "OK" ELSE "INVALID_WINDOW", i)
         /\ UNCHANGED <<wcClient, wcService>>
    ELSE CASE op = "show"    -> Show(JsOf, "NORMAL", i)
           [] op = "hide"    -> Hide(JsOf, "NORMAL", i)
           [] op = "destroy" -> Destroy(JsOf, i)
           [] op \in {"set", "bars"} -> Set(JsOf, 1, i)
(* Destroy tells the listener that an object gave the window, before it asks the
   service: the object of the name leaves the map, and stays out if the service refuses *)
Unmapped == jsObject = "mapped" /\ jsObject' = "free" /\ jsLeft' = FALSE /\ UNCHANGED jsOlder
Listened == jsObject = "mapped" /\ jsToken = "window" /\ IsWindowValid(JsOf)
StaysMapped(op, weak) == UNCHANGED jsMap
LeavesMap(op, weak) == IF op = "destroy" /\ weak = "window" /\ Listened THEN Unmapped ELSE UNCHANGED jsMap
Running(op) == IF op = "bars" THEN "first" ELSE "running"
Calls == {"show", "hide", "destroy", "set", "bars"}
JsRejectIfGone(i, there) == ~ there /\ Settles(i, FALSE) /\ UNCHANGED <<jsFaults, jsMap, wcVars>>
(* the task of a call with bad arguments, or whose window is gone, rejects; one
   that does not stop there goes on with what it has: no window, no bars (at
   throws), the bars as far as they were read, or a question that needs neither  *)
JsReject(i, there) ==
    /\ Settles(i, FALSE) /\ UNCHANGED <<jsMap, wcVars>>
    /\ LET t == jsTasks[i] row == jsTasks[i].row IN
       /\ row.op # "refuse" => t.bad # "no" \/ ~ there
       /\ row.stops \/ (row.op = "bars" /\ (~ there \/ t.bad = "argc"))
       /\ Faults(row, CASE row.stops -> {}
                        [] ~ row.stops /\ ~ there -> {"null"}
                        [] OTHER -> {"throw"})
JsRejectAndGoOn(i, there) ==
    /\ ~ jsTasks[i].row.stops /\ there /\ UNCHANGED <<jsMap, jsFaults>>
    /\ \/ /\ jsTasks[i].row.op = "bars" /\ jsTasks[i].bad = "value"
          /\ Runs(i, "first", 1) /\ Begins("bars", i, jsTasks[i].weak)
       \/ /\ jsTasks[i].row.op = "ask" /\ jsTasks[i].bad # "no"
          /\ Runs(i, "done", 2) /\ UNCHANGED wcVars
JsAnswer(i, there) ==
    /\ jsTasks[i].row.op \in {"ask", "tell"} /\ there /\ jsTasks[i].bad = "no"
    /\ \E ok \in BOOLEAN : /\ jsTasks[i].row.op = "tell" => ok
                           /\ Settles(i, ok \/ ~ jsTasks[i].row.heeds)
    /\ Faults(jsTasks[i].row, {what \in {"freed", "lost"} : \/ what = "freed" /\ jsTasks[i].row.bare /\ jsObject = "gone"
                                                            \/ what = "lost" /\ jsTasks[i].row.loses})
    /\ UNCHANGED <<jsMap, wcVars>>
JsStart(i, there) ==
    /\ jsTasks[i].row.op \in Calls /\ there /\ jsTasks[i].bad = "no"
    /\ LET op == jsTasks[i].row.op IN
       /\ Runs(i, Running(op), 0) /\ LeavesMap(op, jsTasks[i].weak) /\ Begins(op, i, jsTasks[i].weak)
    /\ UNCHANGED jsFaults
JsRun(i) ==
    /\ WcIdle /\ jsTasks[i].pc = "pending" /\ UNCHANGED <<jsRow, jsToken>>
    /\ \E there \in BOOLEAN :
         /\ IF jsTasks[i].row.check = "none" THEN there
            ELSE (there => MayPromote(jsTasks[i])) /\ (MustPromote(jsTasks[i]) => there)
         /\ JsReject(i, there) \/ JsRejectAndGoOn(i, there) \/ JsAnswer(i, there) \/ JsStart(i, there)

JsReturned(i) == wcCall.op # "none" /\ wcCall.pc = "done" /\ wcCall.from = i
(* the second bar is set whatever became of the first, and its result is the one
   that counts; it may be what it was, and then nothing is sent                  *)
JsSecondBar(i) ==
    /\ JsReturned(i) /\ jsTasks[i].pc = "first" /\ UNCHANGED <<jsRow, jsToken, jsMap, jsFaults>>
    /\ Runs(i, "running", jsTasks[i].settled)
    /\ \/ Begins("set", i, jsTasks[i].weak)
       \/ jsTasks[i].weak # "old" /\ Set(JsOf, 0, i)
(* the promise is resolved, or rejected with the error; destroy then lets go of the
   window, in the object it was called on if that is still there                 *)
JsSettle(i) ==
    /\ JsReturned(i) /\ jsTasks[i].pc = "running" /\ UNCHANGED <<jsRow, jsObject, jsLeft>>
    /\ LET row == jsTasks[i].row own == jsTasks[i].own ends == row.op = "destroy" /\ wcCall.ret = "OK" IN
       /\ Settles(i, wcCall.ret = "OK" \/ ~ row.heeds)
       /\ jsToken' = IF ends /\ own /\ jsObject # "gone" THEN "none" ELSE jsToken
       /\ jsOlder' = (jsOlder /\ ~ (ends /\ ~ own))
       /\ \E there \in BOOLEAN :
            /\ own => there = (jsObject # "gone")
            /\ ~ own /\ jsOlder => there
            /\ Faults(row, IF ends /\ ~ there THEN {"freed"} ELSE {})
    /\ wcCall' = NoWcCall /\ UNCHANGED <<wcClient, wcService>>

(* the object of a screen or display that is asked for again keeps its place in the
   map and is given a new native object; the one it had is left to the collector *)
ReplaceNative == /\ jsRow.bare /\ jsObject = "mapped" /\ Unmapped
                 /\ UNCHANGED <<jsRow, jsToken, jsTasks, jsFaults, wcVars>>
(* the collector frees an object no map holds; the name of its window is taken from
   the map, whichever object has it now                                        *)
Finalizer ==
    /\ UNCHANGED <<jsRow, jsTasks, jsFaults, wcVars>>
    /\ \/ jsObject = "free" /\ jsObject' = "gone" /\ jsToken' = "none" /\ UNCHANGED <<jsOlder, jsLeft>>
       \/ /\ jsOlder /\ jsOlder' = FALSE /\ jsLeft' = FALSE /\ UNCHANGED jsToken
          /\ jsObject' = IF jsObject = "mapped" THEN "free" ELSE jsObject

(* the application creates the window, again when it is gone, shows it, and may
   destroy it from native code                                                  *)
JsNative ==
    /\ WcIdle /\ UNCHANGED <<jsRow, jsFaults>>
    /\ \/ /\ JsOf \notin wcMap /\ Create(JsOf, Native) /\ UNCHANGED jsMap
          /\ jsToken' = IF jsToken = "window" THEN "old" ELSE jsToken
          /\ jsTasks' = [i \in 1 .. Len(jsTasks) |-> [jsTasks[i] EXCEPT !.weak = IF @ = "window" THEN "old" ELSE @]]
       \/ /\ wcState[JsOf] = "CREATED" /\ Show(JsOf, "NORMAL", Native) /\ UNCHANGED <<jsMap, jsToken, jsTasks>>
       \/ /\ Destroy(JsOf, Native) /\ LeavesMap("destroy", "window") /\ UNCHANGED <<jsToken, jsTasks>>

(* the service may destroy a window without the listener being told *)
JsWorld == /\ WcWorld /\ UNCHANGED <<jsRow, jsToken, jsObject, jsOlder, jsTasks, jsFaults>>
           /\ jsLeft' = (jsLeft \/ (Listened /\ wcState'[JsOf] = "DESTROYED"))

JsTaskStep(i) == i <= Len(jsTasks) /\ (JsRun(i) \/ JsSecondBar(i) \/ JsSettle(i))
JsWindowStep  == WcStep /\ UNCHANGED jsVars
(* a fault ends the process *)
JsNext == /\ jsFaults = {}
          /\ \/ CreateJsWindowObject \/ ForgetTask \/ JsCall \/ JsCallSync \/ ReplaceNative \/ Finalizer \/ JsNative
             \/ \E i \in 1 .. JsTasksMax : JsTaskStep(i)
             \/ JsWindowStep
             \/ JsWorld
(* the event loop runs every task that is posted, and the service answers *)
JsFair == /\ WF_<<jsVars, wcVars>>(jsFaults = {} /\ JsWindowStep)
          /\ \A i \in 1 .. JsTasksMax : SF_<<jsVars, wcVars>>(jsFaults = {} /\ JsTaskStep(i))
JsSpec == WcInit /\ JsInit /\ wcOf # "none" /\ [][JsNext]_<<jsVars, wcVars>> /\ JsFair
-----------------------------------------------------------------------------
(* A promise is settled once, by its task: never twice, and a task that is over
   has settled it, whatever became of the window between the call and the task.
   Known exceptions: setSystemBarProperties sets the bars after it rejected a
   property it could not read, and the default display and the displays are asked
   for after bad arguments were rejected; each then settles again.              *)
JsSettlesOnce == \A i \in 1 .. Len(jsTasks) :
    /\ jsTasks[i].pc = "done" => jsTasks[i].settled >= 1
    /\ ~ jsTasks[i].row.twice => jsTasks[i].settled <= 1

(* Between calls a script that asks for the window by its name is given an object of
   that window: one that is alive and has not been replaced, whichever objects of it
   are collected, whatever tasks of theirs still run, and also when the service
   refused its end. The exception is a window the service destroyed itself, which
   tells no listener: its object stays in the map and hides the next window of the
   name.                                                                        *)
JsNamesFresh == WcIdle /\ jsObject = "mapped" /\ ~ jsLeft => jsToken = "window" /\ JsOf \in wcMap

(* A promise of hide or destroy that is resolved tells the truth: the service does not
   show the window, has forgotten it, and no name leads to it, whatever the service
   said about the window between the call, the task and the answer. Of show this
   cannot be said: a state the service sent before it hid the window may come after,
   and the window then takes itself to be shown and asks nothing.               *)
JsResolves(i) == jsTasks[i].pc = "running" /\ jsTasks'[i].pc = "done" /\ jsTasks'[i].ok /\ jsTasks[i].weak = "window"
JsDone == [][\A i \in 1 .. Len(jsTasks) : JsResolves(i) =>
               /\ jsTasks[i].row.op = "hide" => wcServer[JsOf] # "shown"
               /\ jsTasks[i].row.op = "destroy" => /\ wcServer[JsOf] = "none" /\ JsOf \notin wcMap
                                                   /\ (jsObject = "mapped" => jsLeft)]_<<jsVars, wcVars>>

(* Every promise is settled in the end, when the event loop and the service go on *)
JsSettlesAll == \A i \in 1 .. JsTasksMax :
    (i <= Len(jsTasks) /\ jsTasks[i].pc = "pending") ~> (jsFaults # {} \/ i > Len(jsTasks) \/ jsTasks[i].pc = "done")
=============================================================================
