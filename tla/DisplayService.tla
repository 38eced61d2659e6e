--------------------------- MODULE DisplayService ---------------------------
(***************************************************************************)
(* The screens of the display manager service: the render service that     *)
(* plugs and unplugs them, the handler thread of AbstractScreenController, *)
(* the binder threads of DisplayManagerService that create, destroy,       *)
(* mirror and expand screens, and the clients that are told of them.       *)
(*                                                                         *)
(* mutex_ is held for a whole action, or, where a method handles a list of *)
(* screens, while work is not idle: one screen of the list is then one     *)
(* step, and only what takes no lock can happen between.  MakeMirror and   *)
(* MakeExpand do not hold the lock from end to end: call is the thread     *)
(* that is inside one of them, between two of its critical sections.       *)
(***************************************************************************)
EXTENDS ScreenGroups

CONSTANTS HotPlug,      \* the physical screens that can be unplugged
          Agents,       \* the clients that create virtual screens
          MaxPlugs,     \* bound on the times a screen is plugged or unplugged
          MaxIds,       \* bound on the ids, above which no client asks for a new one
          MaxDisplays   \* bound on the displays, above which nobody expands

ASSUME ServiceAssumption ==
    /\ IsFiniteSet(Real) /\ HotPlug \subseteq Real
    /\ {MaxPlugs, MaxIds, MaxDisplays} \subseteq Nat

VARIABLES dms,    \* the service: the state of ScreenIds and ScreenGroups, and
                  \* agents, its screenAgentMap_
          work,   \* what the holder of the lock has left to do
          call,   \* the MakeMirror or MakeExpand that is under way
          known,  \* the screens the listening clients have been told of
          torn    \* history: in the middle of such a call a screen came or
                  \* left, or the default screen changed

vars == <<rs, dms, work, call, known, torn>>

Idle == [step |-> "idle"]
Free == work = Idle /\ ~dms.fault

Remember ==
    torn' = (torn \/ /\ call # Idle
                     /\ \/ DOMAIN dms'.screens # DOMAIN dms.screens
                        \/ dms'.defaultRs # dms.defaultRs)

-----------------------------------------------------------------------------
(* The render service.  Virtual screens raise no event.                    *)
RsEvent(op, r) == [op |-> op, of |-> r]

Plug(r) ==
    /\ rs.plugs < MaxPlugs
    /\ r \in Real \ rs.real
    /\ rs' = [rs EXCEPT !.real    = @ \cup {r},
                        !.default = IF @ = NoRs THEN r ELSE @,
                        !.events  = Append(@, RsEvent("connected", r)),
                        !.plugs   = @ + 1]
    /\ UNCHANGED <<dms, work, call, known, torn>>

Unplug(r) ==
    /\ rs.plugs < MaxPlugs
    /\ r \in HotPlug \cap rs.real
    /\ \E d \in IF rs.default # r THEN {rs.default}
                ELSE IF rs.real = {r} THEN {NoRs} ELSE rs.real \ {r} :
         rs' = [rs EXCEPT !.real    = @ \ {r},
                          !.default = d,
                          !.events  = Append(@, RsEvent("disconnected", r)),
                          !.plugs   = @ + 1]
    /\ UNCHANGED <<dms, work, call, known, torn>>

(* OnRsScreenConnectionChange, which takes no lock.                        *)
ForgetDefault(s, e) ==
    [s EXCEPT !.defaultRs = IF e.op = "disconnected" /\ @ = e.of THEN NoRs ELSE @]
OnRsScreenConnectionChange ==
    /\ rs.events # <<>> /\ ~dms.fault
    /\ LET e == Head(rs.events) IN dms' = PostTask(ForgetDefault(dms, e), e.op, e.of)
    /\ rs' = [rs EXCEPT !.events = Tail(@)]
    /\ Remember
    /\ UNCHANGED <<work, call, known>>

-----------------------------------------------------------------------------
(* ChangeScreenGroup: first every screen of the list leaves its group,     *)
(* unless it is filtered out, then the ones that left join the group g.    *)
(* drop is the id that ProcessScreenDisconnected deletes afterwards.       *)
ChangeFrame(g, list, filter, mode, drop) ==
    [step |-> "leave", group |-> g, list |-> list, join |-> {}, filter |-> filter,
     mode |-> mode, drop |-> drop]

Filtered(id) == work.filter /\ dms.screens[id].group = work.group
                            /\ id \in dms.groups[work.group].kids

ChangeLeave ==
    /\ work.step = "leave" /\ work.list # {} /\ ~dms.fault
    /\ LET id == Min(work.list)
           stays == id \notin DOMAIN dms.screens \/ Filtered(id)
       IN  /\ dms'  = IF stays THEN dms ELSE LeaveGroup(dms, id)
           /\ work' = [work EXCEPT !.list = @ \ {id},
                                   !.join = IF stays THEN @ ELSE @ \cup {id}]
    /\ Remember
    /\ UNCHANGED <<rs, call, known>>

ChangeCombination ==
    /\ work.step = "leave" /\ work.list = {} /\ ~dms.fault
    /\ dms'  = [dms EXCEPT !.groups[work.group].mode = work.mode]
    /\ work' = [work EXCEPT !.step = "join"]
    /\ Remember
    /\ UNCHANGED <<rs, call, known>>

(* One round of AddScreenToGroup; onConnect_ is called even when AddChild  *)
(* failed.  The group may have left both maps with its last child.         *)
ChangeJoin ==
    /\ work.step = "join" /\ work.join # {} /\ ~dms.fault
    /\ LET id == Min(work.join)
       IN  dms' = OnScreenConnect(AddChild(dms, work.group, id), id)
    /\ work' = [work EXCEPT !.join = @ \ {Min(work.join)}]
    /\ Remember
    /\ UNCHANGED <<rs, call, known>>

(* The group objects nothing refers to any more are gone.                  *)
Collect(s, ids) ==
    [s EXCEPT !.groups = Restrict(@, {g \in DOMAIN @ :
        @[g].mapped \/ @[g].kids # {} \/ g \in ids})]

CallGroup(c) == IF c.step = "change" THEN {c.group} ELSE {}

ChangeDone ==
    /\ work.step = "join" /\ work.join = {} /\ ~dms.fault
    /\ dms'  = Collect(DeleteScreenId(dms, work.drop), CallGroup(call))
    /\ work' = Idle
    /\ Remember
    /\ UNCHANGED <<rs, call, known>>

-----------------------------------------------------------------------------
(* MakeMirror up to ChangeScreenGroup.  A main screen that is in no group  *)
(* is put into one, into a variable that shadows the one used afterwards,  *)
(* which stays null.                                                       *)
IsRealScreen(s, id) == id \in DOMAIN s.screens /\ ~IsVirtual(s, id)

FindMirrorGroup(s, main) ==
    IF GroupOf(s, main) # NoScreen
    THEN [s EXCEPT !.groups[GroupOf(s, main)].mirror = main]
    ELSE IF JoinedGroup(s) = NoScreen THEN AddToGroup(s, main)
    ELSE [OnScreenConnect(AddToGroup(s, main), main) EXCEPT !.fault = TRUE]

IsMirrorOf(s, main) ==
    LET g == GroupOf(s, main) IN s.groups[g].mode = "MIRROR" /\ s.groups[g].mirror = main

(* ProcessScreenDisconnected.                                              *)
ProcessScreenDisconnected(s, r) ==
    LET id   == s.rs2dms[r]
        g    == GroupOf(s, id)
        left == EraseScreen(LeaveGroup(s, id), id)
        t    == WithDefault(left)
        main == DefaultScreen(left)
    IN  IF ~HasRsScreenId(s, r) THEN dms' = s /\ work' = Idle
        ELSE IF id \notin DOMAIN s.screens THEN dms' = DeleteScreenId(s, id) /\ work' = Idle
        ELSE IF ~LosesSource(s, id)
        THEN dms' = Collect(DeleteScreenId(left, id), CallGroup(call)) /\ work' = Idle
        ELSE IF ~IsRealScreen(t, main)
        THEN dms' = DeleteScreenId(t, id) /\ work' = Idle
        ELSE IF GroupOf(t, main) = NoScreen
        THEN dms' = DeleteScreenId(FindMirrorGroup(t, main), id) /\ work' = Idle
        ELSE /\ dms'  = FindMirrorGroup(t, main)
             /\ work' = ChangeFrame(GroupOf(t, main), t.groups[g].kids \ {main},
                                    IsMirrorOf(t, main), "MIRROR", id)

(* A task of the handler thread.  A notification takes no lock, but it     *)
(* commutes with everything the holder of the lock does.                   *)
PopTask == [dms EXCEPT !.tasks = Tail(@)]

ScreenConnectedTask ==
    /\ Free /\ dms.tasks # <<>> /\ Head(dms.tasks).op = "connected"
    /\ dms' = ProcessScreenConnected(PopTask, Head(dms.tasks).of)
    /\ Remember
    /\ UNCHANGED <<rs, work, call, known>>

ScreenDisconnectedTask ==
    /\ Free /\ dms.tasks # <<>> /\ Head(dms.tasks).op = "disconnected"
    /\ ProcessScreenDisconnected(PopTask, Head(dms.tasks).of)
    /\ Remember
    /\ UNCHANGED <<rs, call, known>>

NotifyTask ==
    /\ Free /\ dms.tasks # <<>> /\ Head(dms.tasks).op \in {"tellConnect", "tellDisconnect"}
    /\ known' = IF Head(dms.tasks).op = "tellConnect" THEN known \cup {Head(dms.tasks).of}
                ELSE known \ {Head(dms.tasks).of}
    /\ dms' = PopTask
    /\ Remember
    /\ UNCHANGED <<rs, work, call>>

HandlerThread == ScreenConnectedTask \/ ScreenDisconnectedTask \/ NotifyTask

-----------------------------------------------------------------------------
(* CreateVirtualScreen.  The id is made before the default screen is asked *)
(* for, which can connect it.                                              *)
CreateVirtualScreen(a) ==
    /\ Free /\ dms.count < MaxIds
    /\ \E r \in Virtual \ DOMAIN dms.rs2dms :
         LET id == dms.count
             t  == InsertScreen(WithDefault(CreateScreenId(dms, r)), id, r)
         IN  dms' = [t EXCEPT !.agents[a] = @ \cup {id}]
    /\ Remember
    /\ UNCHANGED <<rs, work, call, known>>

(* DestroyVirtualScreen.  The token of the caller is checked, so a client  *)
(* destroys its own screens only.                                          *)
ForgetNothing(s, id) == s
Forget(s, id) ==
    [s EXCEPT !.agents = [a \in DOMAIN @ |-> @[a] \ {id}]]
DestroyScreen(s, id) ==
    LET t == Forget(s, id) IN
    IF id \in DOMAIN s.screens
    THEN ProcessScreenDisconnected(t, ToRsScreenId(t, id))
    ELSE dms' = DeleteScreenId(t, id) /\ work' = Idle

DestroyVirtualScreen(a) ==
    /\ Free
    /\ \E id \in dms.agents[a] : DestroyScreen(dms, id)
    /\ Remember
    /\ UNCHANGED <<rs, call, known>>

(* OnRemoteDied: the screens of the client are destroyed one by one.  None *)
(* of them is the source of a mirror group (GroupsSound), so nothing is    *)
(* mirrored anew.                                                          *)
OnRemoteDied(a) ==
    /\ Free /\ dms.agents[a] # {}
    /\ work' = [step |-> "died", agent |-> a]
    /\ UNCHANGED <<rs, dms, call, known, torn>>

DiedNext ==
    /\ work.step = "died" /\ dms.agents[work.agent] # {} /\ ~dms.fault
    /\ LET id == Min(dms.agents[work.agent])
           t  == Forget(dms, id)
       IN  dms' = Collect(DeleteScreenId(EraseScreen(LeaveGroup(t, id), id), id), CallGroup(call))
    /\ Remember
    /\ UNCHANGED <<rs, work, call, known>>

DiedDone ==
    /\ work.step = "died" /\ dms.agents[work.agent] = {} /\ ~dms.fault
    /\ work' = Idle
    /\ UNCHANGED <<rs, dms, call, known, torn>>

(* RemoveVirtualScreenFromGroup, for one screen of its list.  The method   *)
(* takes no lock of its own; here it takes its turn like the others.       *)
RemoveVirtualScreenFromGroup(id) ==
    /\ Free /\ IsVirtual(dms, id) /\ CheckScreenInScreenGroup(dms, id)
    /\ dms' = Collect(LeaveGroup(dms, id), CallGroup(call))
    /\ Remember
    /\ UNCHANGED <<rs, work, call, known>>

(* Any client that asks for the default display.                           *)
GetDefaultDisplayInfo ==
    /\ Free /\ dms.count < MaxIds
    /\ dms' = WithDefault(dms)
    /\ Remember
    /\ UNCHANGED <<rs, work, call, known>>

-----------------------------------------------------------------------------
(* MakeMirror and MakeExpand of DisplayManagerService: the list is made    *)
(* (GetAllExpandOrMirrorScreenIds adds the physical screens), the group is *)
(* looked up, and the group is changed, each in a critical section.        *)
AllScreens(ids) ==
    IF ids \cap DOMAIN dms.screens = {} THEN {}
    ELSE {id \in DOMAIN dms.screens : id \in ids \/ ~IsVirtual(dms, id)}

MakeMirror(main, ids) ==
    /\ Free /\ call = Idle
    /\ AllScreens(ids) \ {main} # {}
    /\ call' = [step |-> "mirror", main |-> main, list |-> AllScreens(ids) \ {main}]
    /\ UNCHANGED <<rs, dms, work, known, torn>>

MirrorGroup ==
    /\ Free /\ call.step = "mirror"
    /\ IF ~IsRealScreen(dms, call.main) THEN call' = Idle /\ UNCHANGED dms
       ELSE /\ dms'  = FindMirrorGroup(dms, call.main)
            /\ call' = IF GroupOf(dms, call.main) = NoScreen THEN Idle
                       ELSE [step |-> "change", group |-> GroupOf(dms, call.main),
                             list |-> call.list, filter |-> IsMirrorOf(dms, call.main),
                             mode |-> "MIRROR"]
    /\ Remember
    /\ UNCHANGED <<rs, work, known>>

MakeExpand(ids) ==
    /\ Free /\ call = Idle /\ dms.nextDisplay < MaxDisplays
    /\ dms' = WithDefault(dms)
    /\ LET list == AllScreens(ids) \ {DefaultScreen(dms)} IN
       /\ list # {}
       /\ call' = [step |-> "expand", list |-> list]
    /\ Remember
    /\ UNCHANGED <<rs, work, known>>

ExpandGroup ==
    /\ Free /\ call.step = "expand"
    /\ dms' = WithDefault(dms)
    /\ LET g == GroupOf(dms', DefaultScreen(dms)) IN
       call' = IF g = NoScreen THEN Idle
               ELSE [step |-> "change", group |-> g, list |-> call.list,
                     filter |-> dms'.groups[g].mode = "EXPAND", mode |-> "EXPAND"]
    /\ Remember
    /\ UNCHANGED <<rs, work, known>>

ChangeScreenGroup ==
    /\ Free /\ call.step = "change"
    /\ work' = ChangeFrame(call.group, call.list, call.filter, call.mode, NoScreen)
    /\ call' = Idle
    /\ UNCHANGED <<rs, dms, known, torn>>

BinderThreads ==
    \/ \E a \in Agents : CreateVirtualScreen(a) \/ DestroyVirtualScreen(a) \/ OnRemoteDied(a)
    \/ \E id \in DOMAIN dms.screens : RemoveVirtualScreenFromGroup(id)
    \/ GetDefaultDisplayInfo
    \/ \E main \in known, ids \in SUBSET known : MakeMirror(main, ids)
    \/ \E ids \in SUBSET known : MakeExpand(ids)

LockHolder == ChangeLeave \/ ChangeCombination \/ ChangeJoin \/ ChangeDone \/ DiedNext \/ DiedDone
InCall     == MirrorGroup \/ ExpandGroup \/ ChangeScreenGroup

-----------------------------------------------------------------------------
(* The service starts with some screens plugged, and the render service    *)
(* tells it of each, of the default one first, which is a built-in screen  *)
(* if there is one.  AbstractDisplayController has registered its callback.*)
BuiltIn == Real \ HotPlug

Init ==
    /\ \E real \in {S \in SUBSET Real : BuiltIn \subseteq S /\ S # {}} :
         \E e \in [1..Cardinality(real) -> real] :
           /\ \A r \in real : \E i \in DOMAIN e : e[i] = r
           /\ BuiltIn # {} => e[1] \in BuiltIn
           /\ rs = [real |-> real, default |-> e[1], plugs |-> 0,
                    events |-> [i \in DOMAIN e |-> RsEvent("connected", e[i])]]
    /\ dms = [count |-> 0, dms2rs |-> <<>>, rs2dms |-> <<>>, screens |-> <<>>,
              groups |-> <<>>, displays |-> <<>>, nextDisplay |-> 0, defaultRs |-> NoRs,
              tasks |-> <<>>, fault |-> FALSE,
              agents |-> [a \in Agents |-> {}]]
    /\ work = Idle /\ call = Idle /\ known = {} /\ torn = FALSE

Next ==
    \/ \E r \in Real : Plug(r) \/ Unplug(r)
    \/ OnRsScreenConnectionChange
    \/ HandlerThread
    \/ BinderThreads
    \/ LockHolder
    \/ InCall

(* Threads that have work go on, and a thread that waits for mutex_ gets   *)
(* it again and again, whatever calls the clients make meanwhile.          *)
Fairness == /\ WF_vars(OnRsScreenConnectionChange)
            /\ WF_vars(LockHolder)
            /\ SF_vars(HandlerThread)
            /\ SF_vars(InCall)
Spec == Init /\ [][Next]_vars /\ Fairness

-----------------------------------------------------------------------------
(* Every variable is of its type.                                          *)
Ids  == Int
Node == Int
TypeOK ==
    /\ rs.real \subseteq Real /\ rs.default \in rs.real \cup {NoRs}
    /\ dms.count \in Nat /\ dms.nextDisplay \in Nat
    /\ \A id \in DOMAIN dms.screens :
         dms.screens[id] \in [rs : RsIds, group : Ids, node : Node]
    /\ \A g \in DOMAIN dms.groups :
         dms.groups[g] \in [mode : {"MIRROR", "EXPAND"}, mirror : Ids,
                            kids : SUBSET Ids, mapped : BOOLEAN]
    /\ \A d \in DOMAIN dms.displays : dms.displays[d] \in [screen : Ids, group : Ids]
    /\ dms.fault \in BOOLEAN /\ torn \in BOOLEAN

(* The two maps of the ids are inverse to each other, and a render service *)
(* id is mapped exactly as long as its screen is there (while a screen     *)
(* whose group is being changed waits for its id to be deleted, it is      *)
(* mapped a little longer).                                                *)
Dropping == IF work.step \in {"leave", "join"} THEN {work.drop} ELSE {}
IdsSound ==
    /\ \A r \in DOMAIN dms.rs2dms :
         /\ dms.rs2dms[r] \in DOMAIN dms.dms2rs
         /\ dms.dms2rs[dms.rs2dms[r]] = r
    /\ \A id \in DOMAIN dms.dms2rs :
         dms.dms2rs[id] # NoRs =>
            /\ dms.dms2rs[id] \in DOMAIN dms.rs2dms
            /\ dms.rs2dms[dms.dms2rs[id]] = id
            /\ id \in DOMAIN dms.screens \cup Dropping
    /\ \A id \in DOMAIN dms.screens :
         id \in DOMAIN dms.dms2rs /\ dms.dms2rs[id] = dms.screens[id].rs

(* No group is being changed, and in the middle of a MakeMirror or         *)
(* MakeExpand no screen came or left and the default screen stayed.        *)
Settled == work = Idle /\ ~torn /\ ~dms.fault

(* While no group is being changed: a group that is in the maps has        *)
(* children, all of which are screens that know it as their group and have *)
(* a node, and a screen out of every group has none; unless a screen left  *)
(* in the middle of a MakeMirror or MakeExpand and the others joined a     *)
(* group that was gone, or the default screen changed and MakeExpand put   *)
(* the group it is to stay in on the list of those that leave it.  No      *)
(* group mirrors a virtual screen.                                         *)
GroupsSound ==
    /\ \A g \in DOMAIN dms.groups, id \in DOMAIN dms.screens :
         dms.groups[g].mirror = id => ~IsVirtual(dms, id)
    /\ Settled =>
        /\ \A g \in Live(dms) :
             /\ dms.groups[g].kids # {}
             /\ \A id \in dms.groups[g].kids :
                  id \in DOMAIN dms.screens /\ dms.screens[id].group = g
        /\ \A id \in DOMAIN dms.screens :
             LET sc == dms.screens[id] IN
             /\ (sc.node # NoNode) = (sc.group # NoScreen)
             /\ sc.group # NoScreen => CheckScreenInScreenGroup(dms, id)

(* A virtual screen belongs to one client, and its client can destroy it.  *)
AgentsSound ==
    /\ \A id \in DOMAIN dms.screens :
         IsVirtual(dms, id) => \E a \in Agents : id \in dms.agents[a]
    /\ \A a \in Agents : dms.agents[a] \subseteq DOMAIN dms.screens
    /\ \A a, b \in Agents : a # b => dms.agents[a] \cap dms.agents[b] = {}

(* The screen a display is on is one of the group the display was made in. *)
DisplaysPlaced ==
    Settled =>
        \A d \in DOMAIN dms.displays :
            /\ dms.displays[d].group # NoScreen
            /\ GroupOf(dms, dms.displays[d].screen) = dms.displays[d].group

(* AddScreenToExpandLocked reports a screen that already has a display as  *)
(* an error: no two displays are on the same screen.                       *)
OneDisplayPerScreen ==
    \A d, e \in DOMAIN dms.displays :
        dms.displays[d].screen = dms.displays[e].screen => d = e

(* Every group has a display, and a screen that does not mirror another    *)
(* one, and so shows what the windows of its display draw, has one.        *)
GroupsShown ==
    Settled =>
        \A g \in Live(dms) :
            /\ \E id \in dms.groups[g].kids : DisplaysOn(dms, id) # {}
            /\ \A id \in dms.groups[g].kids :
                 dms.screens[id].node = OwnNode => DisplaysOn(dms, id) # {}

(* No null pointer is dereferenced: where MakeMirror finds no group it     *)
(* reports an error, "group is nullptr", and does nothing.                 *)
NoFault == ~dms.fault

(* Once every notification has been delivered, the clients know the        *)
(* screens that there are.                                                 *)
ClientsAgree ==
    (\A i \in DOMAIN dms.tasks : dms.tasks[i].op \notin {"tellConnect", "tellDisconnect"})
        => known = DOMAIN dms.screens

(* When no screen is plugged or unplugged any more, the clients end up     *)
(* knowing the screens that are plugged, and each of them is in a group of *)
(* screens whenever a client that moves the screens about has finished.    *)
HotPlugSettles ==
    \A r \in Real :
        /\ <>[](dms.fault \/ (r \in rs.real) = (ToDmsScreenId(dms, r) \in known))
        /\ []<>(dms.fault \/ torn \/
                (r \in rs.real) = CheckScreenInScreenGroup(dms, ToDmsScreenId(dms, r)))
=============================================================================
