------------------------------ MODULE ServiceCalls ------------------------------
(* The calls of applications on their way through the services, which live in one
   process: the thread of the window service with its queue, and the lock of the
   display service. An application or the services may die, the services once. What a
   call does with all this is its row in ServiceOps; what creates and destroys windows
   and virtual screens is checked against their owner.                             *)
EXTENDS Naturals, Sequences, FiniteSets
Op == INSTANCE ServiceOps

CONSTANTS ScApps,      \* applications, of one calling thread each
          ScSystem,    \* those the system trusts
          ScWindows, ScScreens,  \* the windows and virtual screens there can be
          ScCallsMax, ScFaultsMax  \* bounds on the calls and on the deaths
ScThings == ScWindows \cup ScScreens
ASSUME ScAssumption == /\ ScSystem \subseteq ScApps /\ ScCallsMax \in Nat /\ ScFaultsMax \in Nat
                       /\ {"none", "wms"} \cap (ScApps \cup ScThings) = {}
                       /\ ScWindows \cap ScScreens = {}

VARIABLES scCall,      \* what the thread of each application is at
          scCalls,     \* the calls so far
          scDead, scMourned,  \* applications that died; the display service knows
          scUp, scProxy,      \* the services are there; the proxy in the adapters: "none", "valid" or "dead"
          scQueue, scTask,    \* the tasks of the window service, the one being done
          scLock,             \* who has the lock of the display service
          scThere, scTokens,  \* the owners of what exists, and accessTokenIdMaps_
          scStray             \* history: the ids a creation that failed was the first to store a token under
scVars == <<scCall, scCalls, scDead, scMourned, scUp, scProxy, scQueue, scTask, scLock, scThere, scTokens, scStray>>
scOwned  == <<scThere, scTokens, scStray>>
scClient == <<scCalls, scDead, scMourned, scProxy>>

(* what is left of a row once the call is in the service: what it posts, asks and does *)
NoScCall == [pc |-> "idle", tells |-> FALSE, asks |-> FALSE, does |-> "none", thing |-> "none"]
NoScTask == [pc |-> "idle", from |-> "none", does |-> "none", thing |-> "none"]
ScTaskOf(from, does, thing) == [NoScTask EXCEPT !.from = from, !.does = does, !.thing = thing]
ScRows == Op!WindowAdapter \cup Op!DisplayManagerAdapter \cup Op!ScreenManagerAdapter \cup Op!SystemCalls
ScThingsOf(row) == IF row.does = "none" THEN {"none"} ELSE IF row.at = "wms" THEN ScWindows ELSE ScScreens

ScInit == /\ scCall = [a \in ScApps |-> NoScCall] /\ scCalls = 0 /\ scDead = {} /\ scMourned = {}
          /\ scUp = "first" /\ scProxy = [a \in ScApps |-> "none"]
          /\ scQueue = <<>> /\ scTask = NoScTask /\ scLock = "none"
          /\ scThere = [t \in ScThings |-> "none"] /\ scTokens = [t \in ScThings |-> "none"] /\ scStray = {}

ScAt(a, pc) == scCall' = [scCall EXCEPT ![a].pc = pc]

(* InitWMSProxy and InitDMSProxy, and what the service refuses at once *)
IsExistAndRemove(t) == [scTokens EXCEPT ![t] = "none"]
ScUnreached(a) == scUp = "gone" \/ scProxy[a] = "dead"
ScRefused(a, row, thing) == \/ ScUnreached(a)
                            \/ row.may = "system" /\ a \notin ScSystem
                            \/ row.does = "destroy" /\ scTokens[thing] # a
ScMayCall(a) == /\ scCall[a].pc = "idle" /\ a \notin scDead
                /\ scCalls < ScCallsMax /\ scCalls' = scCalls + 1
ScReached(a) == scProxy' = IF ScUnreached(a) THEN scProxy ELSE [scProxy EXCEPT ![a] = "valid"]
ScFails(a, row, thing) ==
  /\ ScMayCall(a) /\ ScReached(a)
  /\ ScRefused(a, row, thing) \/ row.checks \/ row.may = "capture"
  /\ scCall' = [scCall EXCEPT ![a].pc = "answer"]
  /\ UNCHANGED <<scDead, scMourned, scUp, scQueue, scTask, scLock, scOwned>>
(* an id that is given to what is created: nothing has it or is being done with it, but
   a stray token may have come before                                             *)
ScAbout(a, t) == scCall[a].thing = t /\ scCall[a].does # "failed"
ScNew(t) == /\ scThere[t] = "none"
            /\ scTokens[t] = "none" \/ t \in scStray
            /\ \A b \in ScApps : ScAbout(b, t) => t \in scStray /\ scCall[b].does # "create"
ScEnters(a, row, thing) ==
  LET waits == row.post = "sync" IN
  /\ ScMayCall(a) /\ ScReached(a) /\ ~ScRefused(a, row, thing)
  /\ row.does = "create" => ScNew(thing)
  /\ scCall' = [scCall EXCEPT ![a] =
                  [pc |-> IF row.lock THEN "lock" ELSE IF waits THEN "wait" ELSE "answer",
                   tells |-> row.tells, asks |-> row.asks, does |-> row.does, thing |-> thing]]
  /\ scQueue' = IF row.post = "here" THEN scQueue
                ELSE Append(scQueue, ScTaskOf(IF waits THEN a ELSE "none", row.does, thing))
  /\ scTokens' = IF row.does = "destroy" THEN IsExistAndRemove(thing) ELSE scTokens
  /\ UNCHANGED <<scDead, scMourned, scUp, scTask, scLock, scThere, scStray>>

(* what is done for a caller; creating may fail, and then nothing is there *)
ScDoes(does, a, thing, done) ==
  scThere' = CASE does = "create" /\ done -> [scThere EXCEPT ![thing] = a]
               [] does = "destroy" -> [scThere EXCEPT ![thing] = "none"]
               [] does = "mourn" -> [t \in ScThings |-> IF t \in ScWindows /\ scThere[t] = thing THEN "none" ELSE scThere[t]]
               [] OTHER -> scThere
ScMayFail(does) == IF does = "create" THEN BOOLEAN ELSE {TRUE}

(* the display service works under its lock and posts to the window service; what it
   asks of the window service it asks after                                        *)
ScTakeLock(a) == /\ scCall[a].pc = "lock" /\ scLock = "none" /\ scLock' = a /\ ScAt(a, "locked")
                 /\ UNCHANGED <<scClient, scOwned, scUp, scQueue, scTask>>
ScKeepsAsking(a) == scCall[a].asks
ScKeepsLock(a)   == FALSE
ScUnlocks(a) ==
  /\ scCall[a].pc = "locked"
  /\ \E done \in ScMayFail(scCall[a].does) :
       /\ ScDoes(scCall[a].does, a, scCall[a].thing, done)
       /\ scCall' = [scCall EXCEPT ![a].pc = IF scCall[a].asks THEN "wait" ELSE "answer",
                                   ![a].thing = IF done THEN @ ELSE "none"]
  /\ scQueue' = scQueue \o (IF scCall[a].tells THEN <<ScTaskOf("none", "none", "none")>> ELSE <<>>)
                        \o (IF scCall[a].asks THEN <<ScTaskOf(a, "none", "none")>> ELSE <<>>)
  /\ scLock' = IF ScKeepsLock(a) THEN a ELSE "none"
  /\ UNCHANGED <<scClient, scTokens, scStray, scUp, scTask>>

(* the thread of the window service: a task may go to the display service *)
ScRun(inner) == /\ scTask.pc = "idle" /\ scQueue # <<>> /\ scQueue' = Tail(scQueue)
                /\ scTask' = [Head(scQueue) EXCEPT !.pc = IF inner.lock THEN "lock" ELSE "do"]
                /\ UNCHANGED <<scCall, scClient, scOwned, scUp, scLock>>
ScRunLock == /\ scTask.pc = "lock" /\ scLock = "none" /\ scLock' = "wms"
             /\ scTask' = [scTask EXCEPT !.pc = "do"]
             /\ UNCHANGED <<scCall, scClient, scOwned, scUp, scQueue>>
(* a window that is not created leaves the variable for its id unset: any id may be in
   it, of a window that is there, one that will be, or none at all                 *)
ScUnsetIds(done) == IF done THEN {"none"} ELSE ScWindows \cup {"none"}
ScRunDo == /\ scTask.pc = "do" /\ scTask' = NoScTask
           /\ \E done \in ScMayFail(scTask.does) : \E id \in ScUnsetIds(done) :
                /\ ScDoes(scTask.does, scTask.from, scTask.thing, done)
                /\ scCall' = IF scTask.from = "none" THEN scCall
                             ELSE [scCall EXCEPT ![scTask.from].pc = "answer",
                                                 ![scTask.from].does = IF done THEN @ ELSE "failed",
                                                 ![scTask.from].thing = IF done THEN @ ELSE id]
           /\ scLock' = IF scLock = "wms" THEN "none" ELSE scLock
           /\ UNCHANGED <<scClient, scTokens, scStray, scUp, scQueue>>

(* the answer: only now does what was created get its token, and so does the id of a
   window that failed; the map keeps the token it has                              *)
InsertOrAssign(t, a) == [scTokens EXCEPT ![t] = a]
Insert(t, a) == IF scTokens[t] = "none" THEN [scTokens EXCEPT ![t] = a] ELSE scTokens
ScAnswer(a) ==
  LET c == scCall[a]
      stores == c.does \in {"create", "failed"} /\ c.thing # "none" IN
  /\ c.pc = "answer" /\ scCall' = [scCall EXCEPT ![a] = NoScCall]
  /\ scTokens' = IF stores THEN Insert(c.thing, a) ELSE scTokens
  /\ scStray' = IF stores /\ c.does = "failed" /\ scTokens[c.thing] = "none" THEN scStray \cup {c.thing} ELSE scStray
  /\ scLock' = IF scLock = a THEN "none" ELSE scLock
  /\ UNCHANGED <<scClient, scThere, scUp, scQueue, scTask>>

ScMayDie == Cardinality(scDead) + (IF scUp = "first" THEN 0 ELSE 1) < ScFaultsMax
(* an application dies: its call goes on in the service, its windows go by a task, its
   virtual screens under the lock; nothing takes its tokens away                    *)
ScDies(a) == /\ ScMayDie /\ a \notin scDead /\ scDead' = scDead \cup {a}
             /\ scQueue' = IF scUp = "gone" THEN scQueue ELSE Append(scQueue, ScTaskOf("none", "mourn", a))
             /\ UNCHANGED <<scCall, scCalls, scMourned, scProxy, scOwned, scUp, scTask, scLock>>
ScMourns(a) == /\ a \in scDead \ scMourned /\ scLock = "none" /\ scMourned' = scMourned \cup {a}
               /\ scThere' = [t \in ScThings |-> IF t \in ScScreens /\ scThere[t] = a THEN "none" ELSE scThere[t]]
               /\ UNCHANGED <<scCall, scCalls, scDead, scProxy, scTokens, scStray, scUp, scQueue, scTask, scLock>>

(* the services die with all they were doing, and come back; the adapters hear of it
   in their own time                                                               *)
ScServicesDie ==
  /\ ScMayDie /\ scUp = "first" /\ scUp' = "gone"
  /\ scProxy' = [a \in ScApps |-> IF scProxy[a] = "valid" THEN "dead" ELSE scProxy[a]]
  /\ scCall' = [a \in ScApps |-> IF scCall[a].pc = "idle" THEN NoScCall ELSE [NoScCall EXCEPT !.pc = "answer"]]
  /\ scQueue' = <<>> /\ scTask' = NoScTask /\ scLock' = "none"
  /\ scThere' = [t \in ScThings |-> "none"] /\ scTokens' = [t \in ScThings |-> "none"] /\ scStray' = {}
  /\ UNCHANGED <<scCalls, scDead, scMourned>>
ScServicesBack == /\ scUp = "gone" /\ scUp' = "back"
                  /\ UNCHANGED <<scCall, scClient, scOwned, scQueue, scTask, scLock>>
ScProxyCleared(a) == /\ scProxy[a] = "dead" /\ scProxy' = [scProxy EXCEPT ![a] = "none"]
                     /\ UNCHANGED <<scCall, scCalls, scDead, scMourned, scOwned, scUp, scQueue, scTask, scLock>>

ScThread(a) == ScTakeLock(a) \/ ScUnlocks(a) \/ ScAnswer(a)
ScRunner == (\E inner \in Op!InnerCalls : ScRun(inner)) \/ ScRunLock \/ ScRunDo
ScNext == \/ \E a \in ScApps : \/ \E row \in ScRows : \E t \in ScThingsOf(row) : ScFails(a, row, t) \/ ScEnters(a, row, t)
                               \/ ScThread(a) \/ ScDies(a) \/ ScMourns(a) \/ ScProxyCleared(a)
          \/ ScRunner \/ ScServicesDie \/ ScServicesBack
ScFair == (\A a \in ScApps : WF_scVars(ScThread(a))) /\ WF_scVars(ScRunner)
ScSpec == ScInit /\ [][ScNext]_scVars /\ ScFair

(* Every call is answered: the thread of the window service and the lock of the
   display service never wait for one another in a circle, whoever dies.          *)
ScAnswered == \A a \in ScApps : scCall[a].pc # "idle" ~> scCall[a].pc = "idle"

(* With nothing on its way, an application that lives holds the token of exactly what
   it created and did not destroy: it can destroy it, once, and nobody else can,
   whoever else creates, fails to create, destroys or dies meanwhile. The exception is
   an id nobody had a token of when a creation of a window failed with that id in its
   unset variable: the token of the one that failed stays there, for ever.          *)
ScOwned == (\A a \in ScApps : scCall[a].pc = "idle") /\ scQueue = <<>> /\ scTask = NoScTask
             => \A t \in ScThings \ scStray, a \in ScApps \ scDead : scTokens[t] = a <=> scThere[t] = a
=============================================================================
